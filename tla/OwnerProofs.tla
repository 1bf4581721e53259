---------------------------- MODULE OwnerProofs ----------------------------
(***************************************************************************)
(* Proofs about who owns a frame of kernel memory and where its objects    *)
(* lie, for pools of any size, until a process ends that has a late slot.  *)
(***************************************************************************)
EXTENDS KernelProofs

USE ZenonT(30)
----------------------------------------------------------------------------
(* Who owns a frame.  An object of a pool is as long as the whole pool, so *)
(* that an object in a later slot reaches past the pool.  If its slot      *)
(* starts in the pool's first page it still has no page but the pool's.    *)

\* The page of an address lies between its bounds.
LEMMA PageBetween ==
  ASSUME NEW g \in Nat, NEW o \in Nat, o < PAGESZ
  PROVE  kernel_fpn_from_vaddr((KBASE + (g * PAGESZ)) + o) = g
<1>1. PAGESZ \in Nat \ {0} /\ KBASE \in Nat
  BY RegionsAssumption
<1>2. g * PAGESZ \in Nat
  BY <1>1, SMTT(30)
<1> DEFINE a == g * PAGESZ
<1>3. ((KBASE + a) + o) - KBASE = a + o
  <2> HIDE DEF a
  <2>1. a \in Nat
    BY <1>2 DEF a
  <2> QED  BY <1>1, <2>1, SMTT(30)
<1>4. a + o \in Nat
  <2> HIDE DEF a
  <2>1. a \in Nat
    BY <1>2 DEF a
  <2> QED  BY <2>1, SMTT(30)
<1> DEFINE q == (a + o) \div PAGESZ
<1>5. q \in Nat /\ q * PAGESZ \in Nat /\ q * PAGESZ <= a + o /\ a + o < (q + 1) * PAGESZ
  BY <1>4, PageOfOffset
<1> HIDE DEF q
<1>6. g * PAGESZ < (q + 1) * PAGESZ
  <2> DEFINE u == (q + 1) * PAGESZ
  <2>1. u \in Nat
    BY <1>1, <1>5, SMTT(30)
  <2>2. a \in Nat /\ a + o < u
    BY <1>2, <1>5
  <2> HIDE DEF a, u
  <2>3. a < u
    BY <2>1, <2>2, SMTT(30)
  <2> QED  BY <2>3 DEF a, u
<1>7. g < q + 1
  BY <1>5, <1>6, PageOrder, SMTT(30)
<1>8. q * PAGESZ < (g + 1) * PAGESZ
  <2>1. (g + 1) * PAGESZ = a + PAGESZ
    BY <1>1, SMTT(30)
  <2> DEFINE u == q * PAGESZ
  <2>2. u \in Nat /\ a \in Nat /\ u <= a + o
    BY <1>2, <1>5
  <2> HIDE DEF a, u
  <2>3. u < a + PAGESZ
    BY <1>1, <2>2, SMTT(30)
  <2> QED  BY <2>1, <2>3 DEF u
<1>9. q < g + 1
  BY <1>5, <1>8, PageOrder, SMTT(30)
<1>10. q = g
  BY <1>5, <1>7, <1>9, SMTT(30)
<1> QED  BY <1>3, <1>10 DEF kernel_fpn_from_vaddr, q

\* The object of a slot starts in a page of the pool, and has no page but the pool's
\* if it starts in the first one.
LEMMA SlotPages ==
  ASSUME HeapsInv, NEW pool, PoolOK(pool), PoolPlaced(pool), pool.free_count > 0,
         NEW x \in Nodes, x.s = HeadSlot(pool), x.e = HeadSlot(pool) + pool.size
  PROVE  /\ kernel_fpn_from_vaddr(x.s) \in PagesOfPool(pool)
         /\ \/ (pool.slot_count - pool.free_count) * pool.align >= PAGESZ
            \/ PagesOf(x) \subseteq PagesOfPool(pool)
<1>1. PICK g \in Nat, m \in Nat \ {0} :
        /\ pool.storage = KBASE + (g * PAGESZ) /\ pool.size <= m * PAGESZ
        /\ PagesOfPool(pool) = g .. g + (m - 1)
  BY PoolPagesAre
<1> DEFINE c == pool.slot_count
           f == pool.free_count
           a == pool.align
           z == pool.size
           o == (c - f) * a
           G == g * PAGESZ
           M == m * PAGESZ
           h == kernel_fpn_from_vaddr(x.s)
           n == PAGE_ALIGNSZ(z) \div PAGESZ
<1>2. c \in Nat /\ f \in Nat /\ a \in Nat /\ z \in Nat /\ f <= c /\ f > 0 /\ a > 0 /\ z > 0 /\ z = c * a
  BY DEF PoolOK, PoolRecord, PoolPlaced
<1>3. x.s = (KBASE + G) + o /\ x.e = x.s + z
  BY <1>1 DEF HeadSlot
<1>4. z <= M
  BY <1>1
<1>5. x.s \in Nat /\ PAGESZ \in Nat \ {0} /\ KBASE \in Nat
  BY BoundsOf DEF Nodes
<1>6. G \in Nat /\ M \in Nat
  BY <1>5, SMTT(30)
<1>7. n \in Nat \ {0} /\ (n - 1) * PAGESZ < z
  <2>1. z \in Nat \ {0}
    BY <1>2, SMTT(30)
  <2> HIDE DEF z
  <2> QED  BY <2>1, AlignTight
<1>8. PagesOf(x) = h .. h + n - 1
  <2>1. x.e - x.s = z
    <3> HIDE DEF z
    <3> QED  BY <1>2, <1>3, <1>5, SMTT(30) DEF z
  <2> QED  BY <2>1 DEF PagesOf, Pages
<1> HIDE DEF c, f, a, z, G, M, n
<1>9. o \in Nat /\ o < z
  BY <1>2, SMTT(60)
<1> HIDE DEF o
<1>10. x.s - KBASE = G + o /\ G + o \in Nat
  BY <1>3, <1>5, <1>6, <1>9, SMTT(30)
<1>11. h \in Nat /\ h * PAGESZ \in Nat /\ h * PAGESZ <= G + o /\ G + o < (h + 1) * PAGESZ
  BY <1>10, PageOfOffset DEF kernel_fpn_from_vaddr
<1> HIDE DEF h
<1>12. g <= h
  <2> DEFINE u == (h + 1) * PAGESZ
  <2>1. u \in Nat /\ G + o < u
    BY <1>5, <1>11, SMTT(30)
  <2> HIDE DEF u
  <2>2. G < u
    BY <1>6, <1>9, <2>1, SMTT(30)
  <2>3. g < h + 1
    BY <1>11, <2>2, PageOrder, SMTT(30) DEF u, G
  <2> QED  BY <1>11, <2>3, SMTT(30)
<1>13. h < g + m
  <2> DEFINE u == h * PAGESZ
             v == (g + m) * PAGESZ
  <2>1. v = G + M
    BY <1>5, SMTT(30) DEF G, M
  <2>2. u \in Nat /\ u <= G + o
    BY <1>11
  <2> HIDE DEF u, v
  <2>3. u < v
    BY <1>2, <1>4, <1>6, <1>9, <2>1, <2>2, SMTT(30)
  <2> QED  BY <1>11, <2>3, PageOrder, SMTT(30) DEF u, v
<1>14. n - 1 < m
  <2> DEFINE u == (n - 1) * PAGESZ
  <2>1. u \in Int /\ u < z
    BY <1>5, <1>7, SMTT(30)
  <2> HIDE DEF u
  <2>2. u < M
    BY <1>2, <1>4, <1>6, <2>1, SMTT(30)
  <2> QED  BY <1>7, <2>2, PageOrder, SMTT(30) DEF u, M
<1>15. h \in g .. g + (m - 1)
  BY <1>11, <1>12, <1>13, SMTT(30)
<1>16. CASE o < PAGESZ
  <2>1. h = g
    BY <1>3, <1>9, <1>16, PageBetween DEF h, G
  <2>2. \A i \in g .. g + n - 1 : i \in g .. g + (m - 1)
    BY <1>7, <1>14, SMTT(30)
  <2> QED  BY <1>1, <1>8, <1>15, <2>1, <2>2 DEF h
<1>17. CASE ~(o < PAGESZ)
  <2>1. o >= PAGESZ
    BY <1>5, <1>9, <1>17, SMTT(30)
  <2> QED  BY <1>1, <1>15, <2>1 DEF h, o, c, f, a
<1> QED  BY <1>16, <1>17

\* Pool k of p has given out a late slot.
LateIn(p, k) ==
  /\ kcpooltbl[p][k] # NULL
  /\ (kcpooltbl[p][k].slot_count - kcpooltbl[p][k].free_count - 1) * kcpooltbl[p][k].align >= PAGESZ

\* A late slot is one of some pool, before a step and after it.
LEMMA LateIs ==
  ASSUME NEW p
  PROVE  /\ LateSlot(p) <=> \E k \in PoolId : LateIn(p, k)
         /\ LateSlot(p)' <=> \E k \in PoolId : LateIn(p, k)'
<1>1. LateSlot(p) <=> \E k \in PoolId : LateIn(p, k)
  BY DEF LateSlot, LateIn, Pools
<1>2. LateSlot(p)' <=> \E k \in PoolId : LateIn(p, k)'
  BY DEF LateSlot, LateIn, Pools
<1> QED  BY <1>1, <1>2

\* A process whose pools stay keeps its late slots.
LEMMA LateStays ==
  ASSUME NEW p, \A k \in PoolId : kcpooltbl[p][k] # NULL => kcpooltbl'[p][k] = kcpooltbl[p][k]
  PROVE  LateSlot(p) => LateSlot(p)'
<1> SUFFICES ASSUME LateSlot(p) PROVE LateSlot(p)'
  OBVIOUS
<1>1. PICK k \in PoolId : LateIn(p, k)
  BY LateIs
<1>2. kcpooltbl'[p][k] = kcpooltbl[p][k]
  BY <1>1 DEF LateIn
<1>3. LateIn(p, k)'
  BY <1>1, <1>2 DEF LateIn
<1> QED  BY <1>3, LateIs

\* Pool k of p becomes q, and the other pools stay as they are.
OnePool(p, k, q) ==
  \A u \in Proc, v \in PoolId :
    \/ kcpooltbl'[u][v] = kcpooltbl[u][v] /\ <<u, v>> # <<p, k>>
    \/ kcpooltbl'[u][v] = q /\ u = p /\ v = k

\* The pool q is pool with one slot more in use.
OneLess(pool, q) ==
  /\ q # NULL /\ q.slot_count = pool.slot_count /\ q.align = pool.align
  /\ q.free_count = pool.free_count - 1

\* A step that takes another slot keeps it too, and there is one if that starts behind the
\* first page.
LEMMA LateGrows ==
  ASSUME NEW p \in Proc, NEW k \in PoolId, NEW pool, kcpooltbl[p][k] = pool, PoolOK(pool), NEW q,
         OneLess(pool, q), OnePool(p, k, q)
  PROVE  /\ LateSlot(p) => LateSlot(p)'
         /\ (pool.slot_count - pool.free_count) * pool.align >= PAGESZ => LateSlot(p)'
<1> DEFINE c == pool.slot_count
           f == pool.free_count
           a == pool.align
<1>1. c \in Nat /\ f \in Nat /\ a \in Nat /\ PAGESZ \in Nat
  BY RegionsAssumption DEF PoolOK, PoolRecord
<1>2. /\ kcpooltbl'[p][k] = q
      /\ \A v \in PoolId : v # k => kcpooltbl'[p][v] = kcpooltbl[p][v]
  BY DEF OnePool
<1>3. LateIn(p, k)' <=> (c - (f - 1) - 1) * a >= PAGESZ
  BY <1>2 DEF LateIn, OneLess
<1>4. LateIn(p, k) => (c - f - 1) * a >= PAGESZ
  BY DEF LateIn
<1> HIDE DEF c, f, a
<1>5. (c - (f - 1) - 1) * a = (c - f) * a
  BY <1>1, SMTT(30)
<1>6. (c - f) * a >= PAGESZ => LateSlot(p)'
  BY <1>3, <1>5, LateIs
<1>7. LateIn(p, k) => (c - f) * a >= PAGESZ
  <2>1. (c - f) * a = ((c - f - 1) * a) + a /\ (c - f - 1) * a \in Int
    BY <1>1, SMTT(30)
  <2> DEFINE y == (c - f - 1) * a
             w == (c - f) * a
  <2>2. y \in Int /\ w = y + a /\ (LateIn(p, k) => y >= PAGESZ)
    BY <1>4, <2>1
  <2> HIDE DEF y, w
  <2>3. y >= PAGESZ => w >= PAGESZ
    BY <1>1, <2>2, SMTT(30)
  <2> QED  BY <2>2, <2>3 DEF w
<1>8. ASSUME NEW v \in PoolId, LateIn(p, v)
      PROVE  LateSlot(p)'
  <2>1. CASE v = k
    BY <1>6, <1>7, <1>8, <2>1
  <2>2. CASE v # k
    <3>1. kcpooltbl'[p][v] = kcpooltbl[p][v]
      BY <1>2, <2>2
    <3>2. LateIn(p, v)'
      BY <1>8, <3>1 DEF LateIn
    <3> QED  BY <3>2, LateIs
  <2> QED  BY <2>1, <2>2
<1>9. LateSlot(p) => LateSlot(p)'
  BY <1>8, LateIs
<1> QED  BY <1>6, <1>9 DEF c, f, a

\* Process p was given the pages of its pools and the first page of each of its
\* objects, and all their pages unless it has a late slot.
Owns(p) ==
  /\ \A f : PoolKeeps(p, f) => f \in given[p]
  /\ \A r \in Symbols : symrgtbl[p][r].s >= KBASE => kernel_fpn_from_vaddr(symrgtbl[p][r].s) \in given[p]
  /\ LateSlot(p) \/ \A f : SymbolKeeps(p, f) => f \in given[p]

\* The frames given to a process are mapped and only its own, and pools and
\* kernel regions have no others.
GivenInv ==
  /\ \A p \in Proc : given[p] \subseteq kpt
  /\ \A p, q \in Proc : p # q => given[p] \cap given[q] = {}
  /\ \A p \in Proc : Owns(p)

\* What process w has after a step it had before it, or was given.
Supplied(w) ==
  /\ \A t \in Symbols : symrgtbl'[w][t].s >= KBASE =>
       \/ symrgtbl'[w][t] = symrgtbl[w][t]
       \/ /\ kernel_fpn_from_vaddr(symrgtbl'[w][t].s) \in given'[w]
          /\ PagesOf(symrgtbl'[w][t]) \subseteq given'[w] \/ LateSlot(w)'
  /\ \A v \in PoolId : kcpooltbl'[w][v] # NULL =>
       kcpooltbl'[w][v] = kcpooltbl[w][v] \/ PagesOfPool(kcpooltbl'[w][v]) \subseteq given'[w]

\* Then it was given all it has.
LEMMA OwnsStays ==
  ASSUME NEW w \in Proc, Owns(w), Supplied(w), Symbols' = Symbols, given[w] \subseteq given'[w],
         LateSlot(w) => LateSlot(w)'
  PROVE  Owns(w)'
<1>1. ASSUME NEW f, PoolKeeps(w, f)'
      PROVE  f \in given'[w]
  <2>1. PICK v \in PoolId : kcpooltbl'[w][v] # NULL /\ f \in PagesOfPool(kcpooltbl'[w][v])
    BY <1>1 DEF PoolKeeps
  <2>2. CASE kcpooltbl'[w][v] = kcpooltbl[w][v]
    <3>1. PoolKeeps(w, f)
      BY <2>1, <2>2 DEF PoolKeeps
    <3> QED  BY <3>1 DEF Owns
  <2>3. CASE PagesOfPool(kcpooltbl'[w][v]) \subseteq given'[w]
    BY <2>1, <2>3
  <2> QED  BY <2>1, <2>2, <2>3 DEF Supplied
<1>2. ASSUME NEW t \in Symbols, symrgtbl'[w][t].s >= KBASE
      PROVE  kernel_fpn_from_vaddr(symrgtbl'[w][t].s) \in given'[w]
  <2>1. CASE symrgtbl'[w][t] = symrgtbl[w][t]
    <3>1. kernel_fpn_from_vaddr(symrgtbl[w][t].s) \in given[w]
      BY <1>2, <2>1 DEF Owns
    <3> QED  BY <2>1, <3>1
  <2> QED  BY <1>2, <2>1 DEF Supplied
<1>3. ASSUME ~LateSlot(w)', NEW f, SymbolKeeps(w, f)'
      PROVE  f \in given'[w]
  <2>1. PICK t \in Symbols : symrgtbl'[w][t].s >= KBASE /\ f \in PagesOf(symrgtbl'[w][t])
    BY <1>3 DEF SymbolKeeps
  <2>2. CASE symrgtbl'[w][t] = symrgtbl[w][t]
    <3>1. SymbolKeeps(w, f)
      BY <2>1, <2>2 DEF SymbolKeeps
    <3> QED  BY <1>3, <3>1 DEF Owns
  <2>3. CASE PagesOf(symrgtbl'[w][t]) \subseteq given'[w]
    BY <2>1, <2>3
  <2> QED  BY <1>3, <2>1, <2>2, <2>3 DEF Supplied
<1>4. \A t \in Symbols' : symrgtbl'[w][t].s >= KBASE => kernel_fpn_from_vaddr(symrgtbl'[w][t].s) \in given'[w]
  BY <1>2
<1> QED  BY <1>1, <1>3, <1>4 DEF Owns, kernel_fpn_from_vaddr

\* Frames are mapped and given together.
LEMMA GivenGrows ==
  ASSUME GivenInv, given \in [Proc -> SUBSET Frame], NEW p \in Proc, NEW R, kpt' = kpt \cup R,
         given' = [given EXCEPT ![p] = @ \cup R], \A f \in R : f \notin kpt
  PROVE  /\ \A q \in Proc : given'[q] \subseteq kpt'
         /\ \A q, u \in Proc : q # u => given'[q] \cap given'[u] = {}
         /\ \A q \in Proc : given[q] \subseteq given'[q]
         /\ R \subseteq given'[p]
<1>1. given'[p] = given[p] \cup R /\ \A q \in Proc : q # p => given'[q] = given[q]
  OBVIOUS
<1>2. \A q \in Proc : given[q] \subseteq kpt
  BY DEF GivenInv
<1>3. ASSUME NEW q \in Proc
      PROVE  given'[q] \subseteq kpt' /\ given[q] \subseteq given'[q]
  <2>1. CASE q = p
    BY <1>1, <1>2, <2>1
  <2>2. CASE q # p
    BY <1>1, <1>2, <2>2
  <2> QED  BY <2>1, <2>2
<1>4. ASSUME NEW q \in Proc, NEW u \in Proc, q # u, NEW f \in given'[q], f \in given'[u]
      PROVE  FALSE
  <2>1. given[q] \cap given[u] = {}
    BY <1>4 DEF GivenInv
  <2>2. CASE q = p
    BY <1>1, <1>2, <1>4, <2>1, <2>2
  <2>3. CASE u = p
    BY <1>1, <1>2, <1>4, <2>1, <2>3
  <2>4. CASE q # p /\ u # p
    BY <1>1, <1>4, <2>1, <2>4
  <2> QED  BY <2>2, <2>3, <2>4
<1>5. \A q, u \in Proc : q # u => given'[q] \cap given'[u] = {}
  BY <1>4
<1> QED  BY <1>1, <1>3, <1>5

\* Symbol r of p becomes x, and the others stay.
OneSymbol(p, r, x) ==
  \A q \in Proc, t \in Symbols :
    \/ symrgtbl'[q][t] = symrgtbl[q][t] /\ <<q, t>> # <<p, r>>
    \/ symrgtbl'[q][t] = x /\ q = p /\ t = r

\* A step of liballoc() or of the kernel's allocator sets one symbol.
LEMMA SymbolSet ==
  ASSUME HeapsInv, NEW p \in Proc, NEW r \in Symbols, symrgtbl[p][r].s < KBASE, NEW x \in Nodes,
         symrgtbl' = [symrgtbl EXCEPT ![p][r] = x], Symbols' = Symbols
  PROVE  OneSymbol(p, r, x)
<1>1. /\ \A q \in Proc, t \in Symbols :
           \/ symrgtbl'[q][t] = symrgtbl[q][t] /\ <<q, t>> # <<p, r>>
           \/ symrgtbl'[q][t] = x /\ q = p /\ t = r
      /\ \A q \in Proc : \A f : SymbolKeeps(q, f) => SymbolKeeps(q, f)'
      /\ x.s >= KBASE => \A f \in PagesOf(x) : SymbolKeeps(p, f)'
  BY SymbolStep
<1> QED  BY <1>1 DEF OneSymbol

\* A pool is made or changed.
LEMMA PoolSet ==
  ASSUME HeapsInv, NEW p \in Proc, NEW k \in PoolId, NEW q,
         kcpooltbl' = [kcpooltbl EXCEPT ![p][k] = q]
  PROVE  OnePool(p, k, q)
<1> DEFINE T == PoolRecord \cup {NULL}
<1>1. kcpooltbl \in [Proc -> [PoolId -> T]]
  BY DEF HeapsInv, PoolsInv
<1> HIDE DEF T
<1>2. ASSUME NEW u \in Proc, NEW v \in PoolId
      PROVE  \/ kcpooltbl'[u][v] = kcpooltbl[u][v] /\ <<u, v>> # <<p, k>>
             \/ kcpooltbl'[u][v] = q /\ u = p /\ v = k
  <2>1. CASE u = p /\ v = k
    BY <1>1, <2>1
  <2>2. CASE ~(u = p /\ v = k)
    <3>1. <<u, v>> # <<p, k>>
      BY <2>2
    <3>2. kcpooltbl'[u][v] = kcpooltbl[u][v]
      BY <1>1, <2>2
    <3> QED  BY <3>1, <3>2
  <2> QED  BY <2>1, <2>2
<1> QED  BY <1>2 DEF OnePool

\* Frames stay with the process they were given to, whatever the step, but for the
\* end of a process that has a late slot.
LEMMA GivenStep ==
  ASSUME KernelInv, GivenInv, [KernelNext]_kernelVars, ~strayed'
  PROVE  GivenInv'
<1>0. HeapsInv /\ FramesInv /\ PlacesInv /\ ObjectsInv
  BY DEF KernelInv
<1>1. Symbols' = Symbols
  BY <1>0, StepKeepsHeaps
<1>2. HeapStep \/ RegionStep \/ CreateStep \/ SlotStep \/ FinishStep \/ IdleStep
  BY <1>0, KernelSteps
<1>3. given \in [Proc -> SUBSET Frame]
  BY <1>0 DEF FramesInv
<1>4. \A w \in Proc : Owns(w)
  BY DEF GivenInv
<1>5. ASSUME UNCHANGED kcpooltbl
      PROVE  \A w \in Proc : LateSlot(w) => LateSlot(w)'
  BY <1>5, LateStays
<1>6. UNCHANGED <<kpt, given>> => /\ \A p \in Proc : given'[p] \subseteq kpt'
                                  /\ \A p, q \in Proc : p # q => given'[p] \cap given'[q] = {}
                                  /\ \A p \in Proc : given[p] \subseteq given'[p]
  BY DEF GivenInv
<1>7. CASE HeapStep
  <2>1. PICK p \in Proc, r \in Symbols, x \in Nodes :
          /\ symrgtbl[p][r].s < KBASE /\ x.s < KBASE
          /\ symrgtbl' = [symrgtbl EXCEPT ![p][r] = x]
          /\ UNCHANGED <<alive, kcpooltbl, kpt, given>>
    BY <1>7 DEF HeapStep
  <2>2. ~(x.s >= KBASE)
    <3>1. x.s \in Nat
      BY DEF Nodes
    <3> QED  BY <1>0, <2>1, <3>1, BoundsOf, SMTT(30)
  <2>3. OneSymbol(p, r, x)
    BY <1>0, <1>1, <2>1, SymbolSet
  <2>4. \A w \in Proc : Supplied(w)
    BY <2>1, <2>2, <2>3 DEF Supplied, OneSymbol
  <2>5. \A w \in Proc : Owns(w)'
    BY <1>1, <1>4, <1>5, <1>6, <2>1, <2>4, OwnsStays
  <2> QED  BY <1>6, <2>1, <2>5 DEF GivenInv
<1>8. CASE RegionStep
  <2>1. PICK p \in Proc, r \in Symbols, x \in Nodes :
          /\ symrgtbl[p][r].s < KBASE
          /\ symrgtbl' = [symrgtbl EXCEPT ![p][r] = x]
          /\ kpt' = kpt \cup PagesOf(x)
          /\ given' = [given EXCEPT ![p] = @ \cup PagesOf(x)]
          /\ \A f \in PagesOf(x) : f \notin kpt
          /\ kernel_fpn_from_vaddr(x.s) \in PagesOf(x)
          /\ UNCHANGED <<alive, kcpooltbl>>
    BY <1>8 DEF RegionStep
  <2>2. /\ \A q \in Proc : given'[q] \subseteq kpt'
        /\ \A q, u \in Proc : q # u => given'[q] \cap given'[u] = {}
        /\ \A q \in Proc : given[q] \subseteq given'[q]
        /\ PagesOf(x) \subseteq given'[p]
    BY <1>3, <2>1, GivenGrows
  <2>3. OneSymbol(p, r, x)
    BY <1>0, <1>1, <2>1, SymbolSet
  <2>4. ASSUME NEW w \in Proc
        PROVE  Supplied(w)
    <3>1. ASSUME NEW t \in Symbols
          PROVE  \/ symrgtbl'[w][t] = symrgtbl[w][t]
                 \/ /\ kernel_fpn_from_vaddr(symrgtbl'[w][t].s) \in given'[w]
                    /\ PagesOf(symrgtbl'[w][t]) \subseteq given'[w]
      <4>1. CASE symrgtbl'[w][t] = x /\ w = p
        BY <2>1, <2>2, <4>1
      <4> QED  BY <2>3, <4>1 DEF OneSymbol
    <3> QED  BY <2>1, <3>1 DEF Supplied
  <2>5. \A w \in Proc : Owns(w)'
    BY <1>1, <1>4, <1>5, <2>1, <2>2, <2>4, OwnsStays
  <2> QED  BY <2>2, <2>5 DEF GivenInv
<1>9. CASE CreateStep
  <2>1. PICK p \in Proc, k \in PoolId : \E q :
          /\ p \in alive
          /\ kcpooltbl[p][k] = NULL
          /\ q # NULL /\ PoolOK(q) /\ PoolPlaced(q)
          /\ kcpooltbl' = [kcpooltbl EXCEPT ![p][k] = q]
          /\ kpt' = kpt \cup PagesOfPool(q)
          /\ given' = [given EXCEPT ![p] = @ \cup PagesOfPool(q)]
          /\ \A f \in PagesOfPool(q) : f \in Frame /\ f \notin kpt
          /\ UNCHANGED <<alive, symrgtbl>>
    BY <1>9 DEF CreateStep
  <2>2. PICK q :
          /\ kcpooltbl[p][k] = NULL
          /\ q # NULL
          /\ kcpooltbl' = [kcpooltbl EXCEPT ![p][k] = q]
          /\ kpt' = kpt \cup PagesOfPool(q)
          /\ given' = [given EXCEPT ![p] = @ \cup PagesOfPool(q)]
          /\ \A f \in PagesOfPool(q) : f \notin kpt
          /\ UNCHANGED <<alive, symrgtbl>>
    BY <2>1
  <2>3. /\ \A u \in Proc : given'[u] \subseteq kpt'
        /\ \A v, u \in Proc : v # u => given'[v] \cap given'[u] = {}
        /\ \A u \in Proc : given[u] \subseteq given'[u]
        /\ PagesOfPool(q) \subseteq given'[p]
    BY <1>3, <2>2, GivenGrows
  <2>4. \A u \in Proc, v \in PoolId :
          \/ kcpooltbl'[u][v] = kcpooltbl[u][v] /\ <<u, v>> # <<p, k>>
          \/ kcpooltbl'[u][v] = q /\ u = p /\ v = k
    <3>1. kcpooltbl' = [kcpooltbl EXCEPT ![p][k] = q]
      BY <2>2
    <3>2. OnePool(p, k, q)
      BY <1>0, <3>1, PoolSet
    <3> QED  BY <3>2 DEF OnePool
  <2>5. ASSUME NEW w \in Proc
        PROVE  Supplied(w) /\ (LateSlot(w) => LateSlot(w)')
    <3>1. ASSUME NEW v \in PoolId
          PROVE  kcpooltbl'[w][v] = kcpooltbl[w][v] \/ PagesOfPool(kcpooltbl'[w][v]) \subseteq given'[w]
      <4>1. CASE kcpooltbl'[w][v] = q /\ w = p
        BY <2>3, <4>1
      <4> QED  BY <2>4, <4>1
    <3>2. \A v \in PoolId : kcpooltbl[w][v] # NULL => kcpooltbl'[w][v] = kcpooltbl[w][v]
      BY <2>2, <2>4
    <3>3. LateSlot(w) => LateSlot(w)'
      BY <3>2, LateStays
    <3>4. Supplied(w)
      BY <2>2, <3>1 DEF Supplied
    <3> QED  BY <3>3, <3>4
  <2>6. \A w \in Proc : Owns(w)'
    BY <1>1, <1>4, <2>3, <2>5, OwnsStays
  <2> QED  BY <2>3, <2>6 DEF GivenInv
<1>10. CASE SlotStep
  <2>1. PICK p \in Proc, r \in Symbols, k \in PoolId, x \in Nodes : \E q : SlotBy(p, r, k, x, q)
    BY <1>10 DEF SlotStep
  <2>2. PICK q : SlotBy(p, r, k, x, q)
    BY <2>1
  <2> DEFINE pool == kcpooltbl[p][k]
  <2>3. /\ pool # NULL /\ pool.free_count > 0
        /\ x.s = HeadSlot(pool) /\ x.e = HeadSlot(pool) + pool.size
        /\ symrgtbl[p][r].s < KBASE /\ symrgtbl' = [symrgtbl EXCEPT ![p][r] = x]
        /\ q # NULL /\ PagesOfPool(pool) = PagesOfPool(q)
        /\ q.slot_count = pool.slot_count /\ q.free_count = pool.free_count - 1
        /\ q.align = pool.align
        /\ kcpooltbl' = [kcpooltbl EXCEPT ![p][k] = q]
        /\ UNCHANGED <<kpt, given>>
    BY <2>2 DEF SlotBy, PagesOfPool
  <2>4. PoolOK(pool) /\ PoolPlaced(pool)
    BY <1>0, <2>3 DEF HeapsInv, PoolsInv, PlacesInv
  <2>5. /\ kernel_fpn_from_vaddr(x.s) \in PagesOfPool(pool)
        /\ \/ (pool.slot_count - pool.free_count) * pool.align >= PAGESZ
           \/ PagesOf(x) \subseteq PagesOfPool(pool)
    <3> HIDE DEF pool
    <3> QED  BY <1>0, <2>3, <2>4, SlotPages
  <2>6. PagesOfPool(pool) \subseteq given[p]
    <3>1. \A f \in PagesOfPool(pool) : PoolKeeps(p, f)
      BY <2>3 DEF PoolKeeps
    <3> HIDE DEF pool
    <3> QED  BY <1>4, <3>1 DEF Owns
  <2>7. \A u \in Proc, v \in PoolId :
          \/ kcpooltbl'[u][v] = kcpooltbl[u][v] /\ <<u, v>> # <<p, k>>
          \/ kcpooltbl'[u][v] = q /\ u = p /\ v = k
    <3>1. kcpooltbl' = [kcpooltbl EXCEPT ![p][k] = q]
      BY <2>3
    <3>2. OnePool(p, k, q)
      BY <1>0, <3>1, PoolSet
    <3> QED  BY <3>2 DEF OnePool
  <2>8. OneSymbol(p, r, x)
    BY <1>0, <1>1, <2>3, SymbolSet
  <2>9. kcpooltbl[p][k] = pool
    OBVIOUS
  <2> HIDE DEF pool
  <2>10. /\ LateSlot(p) => LateSlot(p)'
         /\ (pool.slot_count - pool.free_count) * pool.align >= PAGESZ => LateSlot(p)'
    <3>1. PoolOK(pool) /\ OneLess(pool, q)
      BY <2>3, <2>4 DEF OneLess
    <3>2. OnePool(p, k, q)
      BY <2>7 DEF OnePool
    <3> QED  BY <2>9, <3>1, <3>2, LateGrows
  <2>11. ASSUME NEW w \in Proc
         PROVE  Supplied(w) /\ (LateSlot(w) => LateSlot(w)')
    <3>1. CASE w = p
      <4>1. given'[p] = given[p]
        BY <2>3
      <4>2. ASSUME NEW t \in Symbols, symrgtbl'[p][t] # symrgtbl[p][t]
            PROVE  /\ kernel_fpn_from_vaddr(symrgtbl'[p][t].s) \in given'[p]
                   /\ PagesOf(symrgtbl'[p][t]) \subseteq given'[p] \/ LateSlot(p)'
        <5>1. symrgtbl'[p][t] = x
          BY <2>8, <4>2 DEF OneSymbol
        <5>2. kernel_fpn_from_vaddr(x.s) \in given'[p]
          BY <2>5, <2>6, <4>1
        <5>3. PagesOf(x) \subseteq given'[p] \/ LateSlot(p)'
          BY <2>5, <2>6, <2>10, <4>1
        <5> QED  BY <5>1, <5>2, <5>3
      <4>3. ASSUME NEW v \in PoolId, kcpooltbl'[p][v] # kcpooltbl[p][v]
            PROVE  PagesOfPool(kcpooltbl'[p][v]) \subseteq given'[p]
        <5>1. kcpooltbl'[p][v] = q
          BY <2>7, <4>3
        <5> QED  BY <2>3, <2>6, <4>1, <5>1
      <4>4. Supplied(p)
        BY <4>2, <4>3 DEF Supplied
      <4> QED  BY <2>10, <3>1, <4>4
    <3>2. CASE w # p
      <4>1. \A t \in Symbols : symrgtbl'[w][t] = symrgtbl[w][t]
        BY <2>8, <3>2 DEF OneSymbol
      <4>2. \A v \in PoolId : kcpooltbl'[w][v] = kcpooltbl[w][v]
        BY <2>7, <3>2
      <4>3. Supplied(w)
        BY <4>1, <4>2 DEF Supplied
      <4>4. LateSlot(w) => LateSlot(w)'
        BY <4>2, LateStays
      <4> QED  BY <4>3, <4>4
    <3> QED  BY <3>1, <3>2
  <2>12. \A w \in Proc : Owns(w)'
    BY <1>1, <1>4, <1>6, <2>3, <2>11, OwnsStays
  <2> QED  BY <1>6, <2>3, <2>12 DEF GivenInv
<1>11. CASE FinishStep
  <2>1. PICK p \in Proc :
          /\ kpt' = kpt \ (PoolPages(p) \cup SymbolPages(p))
          /\ symrgtbl' = [symrgtbl EXCEPT ![p] = NoSymbols]
          /\ kcpooltbl' = [kcpooltbl EXCEPT ![p] = [k \in PoolId |-> NULL]]
          /\ given' = [given EXCEPT ![p] = {}]
          /\ ~LateSlot(p)
    BY <1>11 DEF FinishStep
  <2>2. /\ \A q \in Proc : q # p => /\ symrgtbl'[q] = symrgtbl[q] /\ kcpooltbl'[q] = kcpooltbl[q]
                                    /\ given'[q] = given[q]
        /\ symrgtbl'[p] = NoSymbols /\ kcpooltbl'[p] = [k \in PoolId |-> NULL] /\ given'[p] = {}
    BY <1>0, <1>3, <2>1 DEF HeapsInv, RegionsInv, PoolsInv
  <2>3. \A f : f \in PoolPages(p) \cup SymbolPages(p) => f \in given[p]
    <3>1. \A f : PoolKeeps(p, f) \/ SymbolKeeps(p, f) => f \in given[p]
      BY <1>4, <2>1 DEF Owns
    <3> QED  BY <1>0, <3>1, ReleasedPages
  <2>4. ASSUME NEW q \in Proc
        PROVE  given'[q] \subseteq kpt'
    <3>1. CASE q = p
      BY <2>2, <3>1
    <3>2. CASE q # p
      <4>1. given[q] \subseteq kpt /\ given[q] \cap given[p] = {}
        BY <3>2 DEF GivenInv
      <4> QED  BY <2>1, <2>2, <2>3, <3>2, <4>1
    <3> QED  BY <3>1, <3>2
  <2>5. ASSUME NEW q \in Proc, NEW u \in Proc, q # u
        PROVE  given'[q] \cap given'[u] = {}
    <3>1. given[q] \cap given[u] = {}
      BY <2>5 DEF GivenInv
    <3>2. CASE q = p
      BY <2>2, <3>2
    <3>3. CASE u = p
      BY <2>2, <3>3
    <3>4. CASE q # p /\ u # p
      BY <2>2, <3>1, <3>4
    <3> QED  BY <3>2, <3>3, <3>4
  <2>6. ASSUME NEW w \in Proc
        PROVE  Owns(w)'
    <3>1. CASE w # p
      <4>1. symrgtbl'[w] = symrgtbl[w] /\ kcpooltbl'[w] = kcpooltbl[w] /\ given'[w] = given[w]
        BY <2>2, <3>1
      <4>2. Supplied(w)
        BY <4>1 DEF Supplied
      <4>3. LateSlot(w) => LateSlot(w)'
        BY <4>1, LateStays
      <4> QED  BY <1>1, <1>4, <4>1, <4>2, <4>3, OwnsStays
    <3>2. CASE w = p
      <4>1. \A f : ~PoolKeeps(w, f)'
        BY <2>2, <3>2 DEF PoolKeeps
      <4>2. ASSUME NEW t \in Symbols, symrgtbl'[w][t].s >= KBASE
            PROVE  FALSE
        <5>1. symrgtbl'[w][t].s = 0
          BY <2>2, <3>2, EmptyIsNode DEF NoSymbols
        <5>2. 0 >= KBASE
          BY <4>2, <5>1
        <5>3. KBASE \in Nat /\ KBASE > 0
          BY <1>0, BoundsOf
        <5> QED  BY <5>2, <5>3, SMTT(30)
      <4>3. \A f : ~SymbolKeeps(w, f)'
        BY <1>1, <4>2 DEF SymbolKeeps
      <4> QED  BY <1>1, <4>1, <4>2, <4>3 DEF Owns
    <3> QED  BY <3>1, <3>2
  <2> QED  BY <2>4, <2>5, <2>6 DEF GivenInv
<1>12. CASE IdleStep
  <2>1. UNCHANGED <<symrgtbl, kcpooltbl, kpt, given>>
    BY <1>12 DEF IdleStep
  <2>2. \A w \in Proc : Supplied(w)
    BY <2>1 DEF Supplied
  <2>3. \A w \in Proc : Owns(w)'
    BY <1>1, <1>4, <1>5, <1>6, <2>1, <2>2, OwnsStays
  <2> QED  BY <1>6, <2>1, <2>3 DEF GivenInv
<1> QED  BY <1>2, <1>7, <1>8, <1>9, <1>10, <1>11, <1>12

\* Objects start at different addresses: the next slot of a pool lies behind
\* every object that starts in the pool, and pools have no page in common.
StartsDiffer ==
  \A p, q \in Proc, r, s \in Symbols :
    symrgtbl[p][r].s >= KBASE /\ symrgtbl[q][s].s >= KBASE /\ <<p, r>> # <<q, s>> =>
      symrgtbl[p][r].s # symrgtbl[q][s].s

PoolsApart ==
  \A p, q \in Proc, k, l \in PoolId :
    kcpooltbl[p][k] # NULL /\ kcpooltbl[q][l] # NULL /\ <<p, k>> # <<q, l>> =>
      PagesOfPool(kcpooltbl[p][k]) \cap PagesOfPool(kcpooltbl[q][l]) = {}

BehindObjects ==
  \A p, q \in Proc, r \in Symbols, k \in PoolId :
    /\ symrgtbl[p][r].s >= KBASE /\ kcpooltbl[q][k] # NULL
    /\ kernel_fpn_from_vaddr(symrgtbl[p][r].s) \in PagesOfPool(kcpooltbl[q][k])
    => symrgtbl[p][r].s < HeadSlot(kcpooltbl[q][k])

DistinctInv == StartsDiffer /\ PoolsApart /\ BehindObjects

\* The pages of pools and the first pages of objects are mapped.
LEMMA PagesAreMapped ==
  ASSUME GivenInv
  PROVE  /\ \A p \in Proc, k \in PoolId : kcpooltbl[p][k] # NULL => PagesOfPool(kcpooltbl[p][k]) \subseteq kpt
         /\ \A p \in Proc, r \in Symbols :
              symrgtbl[p][r].s >= KBASE => kernel_fpn_from_vaddr(symrgtbl[p][r].s) \in kpt
<1>1. ASSUME NEW p \in Proc, NEW k \in PoolId, kcpooltbl[p][k] # NULL
      PROVE  PagesOfPool(kcpooltbl[p][k]) \subseteq kpt
  <2>1. \A f \in PagesOfPool(kcpooltbl[p][k]) : PoolKeeps(p, f)
    BY <1>1 DEF PoolKeeps
  <2> QED  BY <2>1 DEF GivenInv, Owns
<1>2. ASSUME NEW p \in Proc, NEW r \in Symbols, symrgtbl[p][r].s >= KBASE
      PROVE  kernel_fpn_from_vaddr(symrgtbl[p][r].s) \in kpt
  BY <1>2 DEF GivenInv, Owns
<1> QED  BY <1>1, <1>2

\* A symbol changes, and every other one is as before or gone.
LEMMA ObjectAdded ==
  ASSUME HeapsInv, StartsDiffer, NEW p \in Proc, NEW r \in Symbols, symrgtbl[p][r].s < KBASE,
         NEW x \in Nodes, symrgtbl' = [symrgtbl EXCEPT ![p][r] = x], Symbols' = Symbols,
         x.s >= KBASE => \A q \in Proc, t \in Symbols : symrgtbl[q][t].s >= KBASE => symrgtbl[q][t].s # x.s
  PROVE  StartsDiffer'
<1>1. /\ \A q \in Proc, t \in Symbols :
           \/ symrgtbl'[q][t] = symrgtbl[q][t] /\ <<q, t>> # <<p, r>>
           \/ symrgtbl'[q][t] = x /\ q = p /\ t = r
      /\ \A q \in Proc : \A f : SymbolKeeps(q, f) => SymbolKeeps(q, f)'
      /\ x.s >= KBASE => \A f \in PagesOf(x) : SymbolKeeps(p, f)'
  BY SymbolStep
<1>2. ASSUME NEW q \in Proc, NEW u \in Proc, NEW t \in Symbols, NEW v \in Symbols,
             symrgtbl'[q][t].s >= KBASE, symrgtbl'[u][v].s >= KBASE, <<q, t>> # <<u, v>>
      PROVE  symrgtbl'[q][t].s # symrgtbl'[u][v].s
  <2>1. CASE symrgtbl'[q][t] = symrgtbl[q][t] /\ symrgtbl'[u][v] = symrgtbl[u][v]
    BY <1>2, <2>1 DEF StartsDiffer
  <2>2. CASE symrgtbl'[q][t] = symrgtbl[q][t] /\ symrgtbl'[u][v] = x
    BY <1>2, <2>2
  <2>3. CASE symrgtbl'[q][t] = x /\ symrgtbl'[u][v] = symrgtbl[u][v]
    BY <1>2, <2>3
  <2>4. CASE (q = p /\ t = r) /\ (u = p /\ v = r)
    BY <1>2, <2>4
  <2> QED  BY <1>1, <2>1, <2>2, <2>3, <2>4
<1>3. ASSUME NEW q \in Proc, NEW u \in Proc, NEW t \in Symbols', NEW v \in Symbols',
             symrgtbl'[q][t].s >= KBASE /\ symrgtbl'[u][v].s >= KBASE /\ <<q, t>> # <<u, v>>
      PROVE  symrgtbl'[q][t].s # symrgtbl'[u][v].s
  <2>1. t \in Symbols /\ v \in Symbols
    OBVIOUS
  <2> QED  BY <1>2, <1>3, <2>1
<1> QED  BY <1>3 DEF StartsDiffer

\* The same of pools.
LEMMA PoolAdded ==
  ASSUME HeapsInv, PoolsApart, NEW p \in Proc, NEW k \in PoolId, NEW q, q # NULL,
         kcpooltbl[p][k] = NULL \/ PagesOfPool(kcpooltbl[p][k]) = PagesOfPool(q),
         kcpooltbl' = [kcpooltbl EXCEPT ![p][k] = q],
         \A u \in Proc, v \in PoolId : kcpooltbl[u][v] # NULL /\ <<u, v>> # <<p, k>> =>
           PagesOfPool(kcpooltbl[u][v]) \cap PagesOfPool(q) = {}
  PROVE  PoolsApart'
<1>1. /\ \A u \in Proc, v \in PoolId :
           \/ kcpooltbl'[u][v] = kcpooltbl[u][v] /\ <<u, v>> # <<p, k>>
           \/ kcpooltbl'[u][v] = q /\ u = p /\ v = k
      /\ \A u \in Proc : \A f : PoolKeeps(u, f) => PoolKeeps(u, f)'
      /\ \A f \in PagesOfPool(q) : PoolKeeps(p, f)'
  BY PoolStep
<1>2. ASSUME NEW u \in Proc, NEW w \in Proc, NEW v \in PoolId, NEW l \in PoolId,
             kcpooltbl'[u][v] # NULL, kcpooltbl'[w][l] # NULL, <<u, v>> # <<w, l>>
      PROVE  PagesOfPool(kcpooltbl'[u][v]) \cap PagesOfPool(kcpooltbl'[w][l]) = {}
  <2>1. CASE kcpooltbl'[u][v] = kcpooltbl[u][v] /\ kcpooltbl'[w][l] = kcpooltbl[w][l]
    <3>1. PagesOfPool(kcpooltbl[u][v]) \cap PagesOfPool(kcpooltbl[w][l]) = {}
      BY <1>2, <2>1 DEF PoolsApart
    <3> QED  BY <2>1, <3>1
  <2>2. CASE kcpooltbl'[u][v] = kcpooltbl[u][v] /\ <<u, v>> # <<p, k>> /\ kcpooltbl'[w][l] = q
    <3>1. PagesOfPool(kcpooltbl[u][v]) \cap PagesOfPool(q) = {}
      BY <1>2, <2>2
    <3> QED  BY <2>2, <3>1
  <2>3. CASE kcpooltbl'[u][v] = q /\ kcpooltbl'[w][l] = kcpooltbl[w][l] /\ <<w, l>> # <<p, k>>
    <3>1. PagesOfPool(kcpooltbl[w][l]) \cap PagesOfPool(q) = {}
      BY <1>2, <2>3
    <3> QED  BY <2>3, <3>1
  <2>4. CASE (u = p /\ v = k) /\ (w = p /\ l = k)
    BY <1>2, <2>4
  <2>5. /\ \/ kcpooltbl'[u][v] = kcpooltbl[u][v] /\ <<u, v>> # <<p, k>>
           \/ kcpooltbl'[u][v] = q /\ u = p /\ v = k
        /\ \/ kcpooltbl'[w][l] = kcpooltbl[w][l] /\ <<w, l>> # <<p, k>>
           \/ kcpooltbl'[w][l] = q /\ w = p /\ l = k
    BY <1>1
  <2> QED  BY <2>1, <2>2, <2>3, <2>4, <2>5
<1> QED  BY <1>2 DEF PoolsApart, PagesOfPool

\* Objects stay apart, whatever the step.
LEMMA DistinctStep ==
  ASSUME KernelInv, GivenInv, DistinctInv, [KernelNext]_kernelVars
  PROVE  DistinctInv'
<1>0. HeapsInv /\ FramesInv /\ PlacesInv /\ ObjectsInv /\ StartsDiffer /\ PoolsApart /\ BehindObjects
  BY DEF KernelInv, DistinctInv
<1>1. Symbols' = Symbols
  BY <1>0, StepKeepsHeaps
<1>2. HeapStep \/ RegionStep \/ CreateStep \/ SlotStep \/ FinishStep \/ IdleStep
  BY <1>0, KernelSteps
<1>3. /\ \A p \in Proc, k \in PoolId : kcpooltbl[p][k] # NULL => PagesOfPool(kcpooltbl[p][k]) \subseteq kpt
      /\ \A p \in Proc, r \in Symbols :
           symrgtbl[p][r].s >= KBASE => kernel_fpn_from_vaddr(symrgtbl[p][r].s) \in kpt
  BY PagesAreMapped
<1>4. UNCHANGED kcpooltbl => PoolsApart'
  BY <1>0 DEF PoolsApart, PagesOfPool
<1>5. ASSUME \A w \in Proc, t \in Symbols :
               symrgtbl'[w][t].s >= KBASE => symrgtbl'[w][t] = symrgtbl[w][t]
      PROVE  StartsDiffer'
  <2>1. ASSUME NEW q \in Proc, NEW u \in Proc, NEW t \in Symbols', NEW v \in Symbols',
               symrgtbl'[q][t].s >= KBASE /\ symrgtbl'[u][v].s >= KBASE /\ <<q, t>> # <<u, v>>
        PROVE  symrgtbl'[q][t].s # symrgtbl'[u][v].s
    <3>1. t \in Symbols /\ v \in Symbols
      BY <1>1
    <3>2. symrgtbl'[q][t] = symrgtbl[q][t] /\ symrgtbl'[u][v] = symrgtbl[u][v]
      BY <1>5, <2>1, <3>1
    <3> QED  BY <1>0, <2>1, <3>1, <3>2 DEF StartsDiffer
  <2> QED  BY <2>1 DEF StartsDiffer
<1>6. CASE HeapStep
  <2>1. PICK p \in Proc, r \in Symbols, x \in Nodes :
          /\ symrgtbl[p][r].s < KBASE /\ x.s < KBASE
          /\ symrgtbl' = [symrgtbl EXCEPT ![p][r] = x]
          /\ UNCHANGED <<alive, kcpooltbl, kpt, given>>
    BY <1>6 DEF HeapStep
  <2>2. ~(x.s >= KBASE)
    <3>1. x.s \in Nat
      BY DEF Nodes
    <3> QED  BY <1>0, <2>1, <3>1, BoundsOf, SMTT(30)
  <2>3. StartsDiffer'
    BY <1>0, <1>1, <2>1, <2>2, ObjectAdded
  <2>4. \A q \in Proc, t \in Symbols :
          \/ symrgtbl'[q][t] = symrgtbl[q][t] /\ <<q, t>> # <<p, r>>
          \/ symrgtbl'[q][t] = x /\ q = p /\ t = r
    <3>1. OneSymbol(p, r, x)
      BY <1>0, <1>1, <2>1, SymbolSet
    <3> QED  BY <3>1 DEF OneSymbol
  <2>5. ASSUME NEW q \in Proc, NEW u \in Proc, NEW t \in Symbols, NEW k \in PoolId,
               symrgtbl'[q][t].s >= KBASE, kcpooltbl'[u][k] # NULL,
               kernel_fpn_from_vaddr(symrgtbl'[q][t].s) \in PagesOfPool(kcpooltbl'[u][k])
        PROVE  symrgtbl'[q][t].s < HeadSlot(kcpooltbl'[u][k])
    <3>1. symrgtbl'[q][t] = symrgtbl[q][t] /\ kcpooltbl'[u][k] = kcpooltbl[u][k]
      BY <2>1, <2>2, <2>4, <2>5
    <3>2. symrgtbl[q][t].s < HeadSlot(kcpooltbl[u][k])
      BY <1>0, <2>5, <3>1 DEF BehindObjects
    <3> QED  BY <3>1, <3>2
  <2>6. BehindObjects'
    BY <1>1, <2>5 DEF BehindObjects, PagesOfPool, HeadSlot
  <2> QED  BY <1>4, <2>1, <2>3, <2>6 DEF DistinctInv
<1>7. CASE RegionStep
  <2>1. PICK p \in Proc, r \in Symbols, x \in Nodes :
          /\ symrgtbl[p][r].s < KBASE
          /\ symrgtbl' = [symrgtbl EXCEPT ![p][r] = x]
          /\ \A f \in PagesOf(x) : f \notin kpt
          /\ kernel_fpn_from_vaddr(x.s) \in PagesOf(x)
          /\ UNCHANGED <<alive, kcpooltbl>>
    BY <1>7 DEF RegionStep
  <2>2. \A q \in Proc, t \in Symbols : symrgtbl[q][t].s >= KBASE => symrgtbl[q][t].s # x.s
    BY <1>3, <2>1
  <2>3. StartsDiffer'
    BY <1>0, <1>1, <2>1, <2>2, ObjectAdded
  <2>4. \A q \in Proc, t \in Symbols :
          \/ symrgtbl'[q][t] = symrgtbl[q][t] /\ <<q, t>> # <<p, r>>
          \/ symrgtbl'[q][t] = x /\ q = p /\ t = r
    <3>1. OneSymbol(p, r, x)
      BY <1>0, <1>1, <2>1, SymbolSet
    <3> QED  BY <3>1 DEF OneSymbol
  <2>5. ASSUME NEW q \in Proc, NEW u \in Proc, NEW t \in Symbols, NEW k \in PoolId,
               symrgtbl'[q][t].s >= KBASE, kcpooltbl'[u][k] # NULL,
               kernel_fpn_from_vaddr(symrgtbl'[q][t].s) \in PagesOfPool(kcpooltbl'[u][k])
        PROVE  symrgtbl'[q][t].s < HeadSlot(kcpooltbl'[u][k])
    <3>1. kcpooltbl'[u][k] = kcpooltbl[u][k]
      BY <2>1
    <3>2. PagesOfPool(kcpooltbl[u][k]) \subseteq kpt
      BY <1>3, <2>5, <3>1
    <3>3. symrgtbl'[q][t] # x
      BY <2>1, <2>5, <3>1, <3>2
    <3>4. symrgtbl'[q][t] = symrgtbl[q][t]
      BY <2>4, <3>3
    <3>5. symrgtbl[q][t].s < HeadSlot(kcpooltbl[u][k])
      BY <1>0, <2>5, <3>1, <3>4 DEF BehindObjects
    <3> QED  BY <3>1, <3>4, <3>5
  <2>6. BehindObjects'
    BY <1>1, <2>5 DEF BehindObjects, PagesOfPool, HeadSlot
  <2> QED  BY <1>4, <2>1, <2>3, <2>6 DEF DistinctInv
<1>8. CASE CreateStep
  <2>1. PICK p \in Proc, k \in PoolId : \E q :
          /\ p \in alive
          /\ kcpooltbl[p][k] = NULL
          /\ q # NULL /\ PoolOK(q) /\ PoolPlaced(q)
          /\ kcpooltbl' = [kcpooltbl EXCEPT ![p][k] = q]
          /\ kpt' = kpt \cup PagesOfPool(q)
          /\ given' = [given EXCEPT ![p] = @ \cup PagesOfPool(q)]
          /\ \A f \in PagesOfPool(q) : f \in Frame /\ f \notin kpt
          /\ UNCHANGED <<alive, symrgtbl>>
    BY <1>8 DEF CreateStep
  <2>2. PICK q :
          /\ kcpooltbl[p][k] = NULL
          /\ q # NULL
          /\ kcpooltbl' = [kcpooltbl EXCEPT ![p][k] = q]
          /\ \A f \in PagesOfPool(q) : f \notin kpt
          /\ UNCHANGED symrgtbl
    BY <2>1
  <2>3. \A u \in Proc, v \in PoolId : kcpooltbl[u][v] # NULL /\ <<u, v>> # <<p, k>> =>
          PagesOfPool(kcpooltbl[u][v]) \cap PagesOfPool(q) = {}
    BY <1>3, <2>2
  <2>4. PoolsApart'
    BY <1>0, <2>2, <2>3, PoolAdded
  <2>5. /\ \A u \in Proc, v \in PoolId :
             \/ kcpooltbl'[u][v] = kcpooltbl[u][v] /\ <<u, v>> # <<p, k>>
             \/ kcpooltbl'[u][v] = q /\ u = p /\ v = k
        /\ \A u \in Proc : \A f : PoolKeeps(u, f) => PoolKeeps(u, f)'
        /\ \A f \in PagesOfPool(q) : PoolKeeps(p, f)'
    BY <1>0, <2>2, PoolStep
  <2>6. ASSUME NEW w \in Proc, NEW u \in Proc, NEW t \in Symbols, NEW v \in PoolId,
               symrgtbl'[w][t].s >= KBASE, kcpooltbl'[u][v] # NULL,
               kernel_fpn_from_vaddr(symrgtbl'[w][t].s) \in PagesOfPool(kcpooltbl'[u][v])
        PROVE  symrgtbl'[w][t].s < HeadSlot(kcpooltbl'[u][v])
    <3>1. symrgtbl'[w][t] = symrgtbl[w][t]
      BY <2>2
    <3>2. kernel_fpn_from_vaddr(symrgtbl[w][t].s) \in kpt
      BY <1>3, <2>6, <3>1
    <3>3. kcpooltbl'[u][v] # q
      BY <2>2, <2>6, <3>1, <3>2
    <3>4. kcpooltbl'[u][v] = kcpooltbl[u][v]
      BY <2>5, <3>3
    <3>5. symrgtbl[w][t].s < HeadSlot(kcpooltbl[u][v])
      BY <1>0, <2>6, <3>1, <3>4 DEF BehindObjects
    <3> QED  BY <3>1, <3>4, <3>5
  <2>7. BehindObjects'
    BY <1>1, <2>6 DEF BehindObjects, PagesOfPool, HeadSlot
  <2> QED  BY <1>5, <2>2, <2>4, <2>7 DEF DistinctInv
<1>9. CASE SlotStep
  <2>1. PICK p \in Proc, r \in Symbols, k \in PoolId, x \in Nodes : \E q : SlotBy(p, r, k, x, q)
    BY <1>9 DEF SlotStep
  <2>2. PICK q : SlotBy(p, r, k, x, q)
    BY <2>1
  <2> DEFINE pool == kcpooltbl[p][k]
  <2>3. /\ pool # NULL /\ pool.free_count > 0
        /\ x.s = HeadSlot(pool) /\ x.e = HeadSlot(pool) + pool.size
        /\ symrgtbl[p][r].s < KBASE /\ symrgtbl' = [symrgtbl EXCEPT ![p][r] = x]
        /\ q # NULL /\ PagesOfPool(pool) = PagesOfPool(q)
        /\ HeadSlot(q) = HeadSlot(pool) + pool.align
        /\ kcpooltbl' = [kcpooltbl EXCEPT ![p][k] = q]
    BY <2>2 DEF SlotBy, PagesOfPool
  <2>4. PoolOK(pool) /\ PoolPlaced(pool)
    BY <1>0, <2>3 DEF HeapsInv, PoolsInv, PlacesInv
  <2>5. kernel_fpn_from_vaddr(x.s) \in PagesOfPool(pool)
    <3> HIDE DEF pool
    <3> QED  BY <1>0, <2>3, <2>4, SlotPages
  <2>6. ASSUME NEW w \in Proc, NEW t \in Symbols, symrgtbl[w][t].s >= KBASE,
               kernel_fpn_from_vaddr(symrgtbl[w][t].s) \in PagesOfPool(pool)
        PROVE  symrgtbl[w][t].s < HeadSlot(pool)
    BY <1>0, <2>3, <2>6 DEF BehindObjects
  <2>7. x.s \in Nat /\ pool.align \in Nat /\ pool.align > 0
    BY <2>4 DEF Nodes, PoolOK, PoolRecord, PoolPlaced
  <2>8. HeadSlot(pool) < HeadSlot(q) /\ HeadSlot(pool) \in Nat
    <3> DEFINE h == HeadSlot(pool)
               a == pool.align
    <3>1. h \in Nat /\ a \in Nat /\ a > 0 /\ HeadSlot(q) = h + a
      BY <2>3, <2>7
    <3> HIDE DEF h, a
    <3>2. h < h + a
      BY <3>1, SMTT(30)
    <3> QED  BY <3>1, <3>2 DEF h
  <2>9. /\ \A w \in Proc, t \in Symbols :
             \/ symrgtbl'[w][t] = symrgtbl[w][t] /\ <<w, t>> # <<p, r>>
             \/ symrgtbl'[w][t] = x /\ w = p /\ t = r
        /\ \A w \in Proc : \A f : SymbolKeeps(w, f) => SymbolKeeps(w, f)'
        /\ x.s >= KBASE => \A f \in PagesOf(x) : SymbolKeeps(p, f)'
    BY <1>0, <1>1, <2>3, SymbolStep
  <2>10. /\ \A u \in Proc, v \in PoolId :
              \/ kcpooltbl'[u][v] = kcpooltbl[u][v] /\ <<u, v>> # <<p, k>>
              \/ kcpooltbl'[u][v] = q /\ u = p /\ v = k
         /\ \A u \in Proc : \A f : PoolKeeps(u, f) => PoolKeeps(u, f)'
         /\ \A f \in PagesOfPool(q) : PoolKeeps(p, f)'
    BY <1>0, <2>3, PoolStep
  <2>11. ASSUME NEW u \in Proc, NEW v \in PoolId, kcpooltbl[u][v] # NULL, <<u, v>> # <<p, k>>
         PROVE  PagesOfPool(kcpooltbl[u][v]) \cap PagesOfPool(q) = {}
    <3>1. PagesOfPool(kcpooltbl[u][v]) \cap PagesOfPool(kcpooltbl[p][k]) = {}
      BY <1>0, <2>3, <2>11 DEF PoolsApart
    <3> QED  BY <2>3, <3>1
  <2>12. ASSUME NEW w \in Proc, NEW t \in Symbols, symrgtbl[w][t].s >= KBASE
         PROVE  symrgtbl[w][t].s # x.s
    <3>1. SUFFICES ASSUME symrgtbl[w][t].s = x.s PROVE FALSE
      OBVIOUS
    <3>2. symrgtbl[w][t].s < HeadSlot(pool)
      BY <2>5, <2>6, <2>12, <3>1
    <3> DEFINE h == HeadSlot(pool)
    <3>3. h \in Nat /\ h < h
      BY <2>3, <2>8, <3>1, <3>2
    <3> HIDE DEF h
    <3> QED  BY <3>3, SMTT(30)
  <2>13. ASSUME NEW w \in Proc, NEW u \in Proc, NEW t \in Symbols, NEW v \in PoolId,
                symrgtbl'[w][t].s >= KBASE, kcpooltbl'[u][v] # NULL,
                kernel_fpn_from_vaddr(symrgtbl'[w][t].s) \in PagesOfPool(kcpooltbl'[u][v])
         PROVE  symrgtbl'[w][t].s < HeadSlot(kcpooltbl'[u][v])
    <3>1. CASE symrgtbl'[w][t] = symrgtbl[w][t] /\ kcpooltbl'[u][v] = kcpooltbl[u][v]
      <4>1. symrgtbl[w][t].s < HeadSlot(kcpooltbl[u][v])
        BY <1>0, <2>13, <3>1 DEF BehindObjects
      <4> QED  BY <3>1, <4>1
    <3>2. CASE symrgtbl'[w][t] = symrgtbl[w][t] /\ kcpooltbl'[u][v] = q
      <4>1. symrgtbl[w][t].s < HeadSlot(pool)
        BY <2>3, <2>6, <2>13, <3>2
      <4> DEFINE b == symrgtbl[w][t].s
                 h == HeadSlot(pool)
                 i == HeadSlot(q)
      <4>2. b \in Nat
        BY <1>0 DEF HeapsInv, RegionsInv, Nodes
      <4>3. pool.align \in Nat /\ i = h + pool.align /\ h \in Nat /\ b < h /\ h < i
        BY <2>3, <2>7, <2>8, <4>1
      <4> HIDE DEF b, h, i
      <4>4. i \in Nat
        BY <4>3, SMTT(30)
      <4>5. b < i
        BY <4>2, <4>3, <4>4, SMTT(30)
      <4> QED  BY <3>2, <4>5 DEF b, i
    <3>3. CASE symrgtbl'[w][t] = x /\ kcpooltbl'[u][v] = kcpooltbl[u][v] /\ <<u, v>> # <<p, k>>
      <4>1. kernel_fpn_from_vaddr(x.s) \in PagesOfPool(kcpooltbl[u][v]) /\ kcpooltbl[u][v] # NULL
        BY <2>13, <3>3
      <4>2. PagesOfPool(kcpooltbl[u][v]) \cap PagesOfPool(q) = {}
        BY <2>11, <3>3, <4>1
      <4> QED  BY <2>3, <2>5, <4>1, <4>2
    <3>4. CASE symrgtbl'[w][t] = x /\ kcpooltbl'[u][v] = q
      BY <2>3, <2>8, <3>4
    <3> QED  BY <2>9, <2>10, <3>1, <3>2, <3>3, <3>4
  <2> HIDE DEF pool
  <2>14. StartsDiffer'
    BY <1>0, <1>1, <2>3, <2>12, ObjectAdded
  <2>15. PoolsApart'
    <3>1. kcpooltbl[p][k] = NULL \/ PagesOfPool(kcpooltbl[p][k]) = PagesOfPool(q)
      BY <2>3 DEF pool
    <3>2. \A u \in Proc, v \in PoolId : kcpooltbl[u][v] # NULL /\ <<u, v>> # <<p, k>> =>
            PagesOfPool(kcpooltbl[u][v]) \cap PagesOfPool(q) = {}
      BY <2>11
    <3>3. q # NULL /\ kcpooltbl' = [kcpooltbl EXCEPT ![p][k] = q]
      BY <2>3
    <3> QED  BY <1>0, <3>1, <3>2, <3>3, PoolAdded
  <2>16. BehindObjects'
    BY <1>1, <2>13 DEF BehindObjects, PagesOfPool, HeadSlot
  <2> QED  BY <2>14, <2>15, <2>16 DEF DistinctInv
<1>10. CASE FinishStep
  <2>1. PICK p \in Proc :
          /\ symrgtbl' = [symrgtbl EXCEPT ![p] = NoSymbols]
          /\ kcpooltbl' = [kcpooltbl EXCEPT ![p] = [k \in PoolId |-> NULL]]
    BY <1>10 DEF FinishStep
  <2>2. /\ \A q \in Proc : q # p => symrgtbl'[q] = symrgtbl[q] /\ kcpooltbl'[q] = kcpooltbl[q]
        /\ symrgtbl'[p] = NoSymbols /\ kcpooltbl'[p] = [k \in PoolId |-> NULL]
    BY <1>0, <2>1 DEF HeapsInv, RegionsInv, PoolsInv
  <2>3. ASSUME NEW w \in Proc, NEW t \in Symbols, symrgtbl'[w][t].s >= KBASE
        PROVE  symrgtbl'[w][t] = symrgtbl[w][t]
    <3>1. w # p
      <4>1. SUFFICES ASSUME w = p PROVE FALSE
        OBVIOUS
      <4>2. symrgtbl'[w][t].s = 0
        BY <2>2, <4>1, EmptyIsNode DEF NoSymbols
      <4>3. 0 >= KBASE
        BY <2>3, <4>2
      <4>4. KBASE \in Nat /\ KBASE > 0
        BY <1>0, BoundsOf
      <4> QED  BY <4>3, <4>4, SMTT(30)
    <3> QED  BY <2>2, <3>1
  <2>4. ASSUME NEW u \in Proc, NEW v \in PoolId, kcpooltbl'[u][v] # NULL
        PROVE  kcpooltbl'[u][v] = kcpooltbl[u][v]
    BY <2>2, <2>4
  <2>5. StartsDiffer'
    BY <1>5, <2>3
  <2>6. ASSUME NEW u \in Proc, NEW w \in Proc, NEW v \in PoolId, NEW l \in PoolId,
               kcpooltbl'[u][v] # NULL, kcpooltbl'[w][l] # NULL, <<u, v>> # <<w, l>>
        PROVE  PagesOfPool(kcpooltbl'[u][v]) \cap PagesOfPool(kcpooltbl'[w][l]) = {}
    <3>1. kcpooltbl'[u][v] = kcpooltbl[u][v] /\ kcpooltbl'[w][l] = kcpooltbl[w][l]
      BY <2>4, <2>6
    <3>2. PagesOfPool(kcpooltbl[u][v]) \cap PagesOfPool(kcpooltbl[w][l]) = {}
      BY <1>0, <2>6, <3>1 DEF PoolsApart
    <3> QED  BY <3>1, <3>2
  <2>7. PoolsApart'
    BY <2>6 DEF PoolsApart, PagesOfPool
  <2>8. ASSUME NEW w \in Proc, NEW u \in Proc, NEW t \in Symbols, NEW v \in PoolId,
               symrgtbl'[w][t].s >= KBASE, kcpooltbl'[u][v] # NULL,
               kernel_fpn_from_vaddr(symrgtbl'[w][t].s) \in PagesOfPool(kcpooltbl'[u][v])
        PROVE  symrgtbl'[w][t].s < HeadSlot(kcpooltbl'[u][v])
    <3>1. symrgtbl'[w][t] = symrgtbl[w][t] /\ kcpooltbl'[u][v] = kcpooltbl[u][v]
      BY <2>3, <2>4, <2>8
    <3>2. symrgtbl[w][t].s < HeadSlot(kcpooltbl[u][v])
      BY <1>0, <2>8, <3>1 DEF BehindObjects
    <3> QED  BY <3>1, <3>2
  <2>9. BehindObjects'
    BY <1>1, <2>8 DEF BehindObjects, PagesOfPool, HeadSlot
  <2> QED  BY <2>5, <2>7, <2>9 DEF DistinctInv
<1>11. CASE IdleStep
  <2>1. UNCHANGED <<symrgtbl, kcpooltbl>>
    BY <1>11 DEF IdleStep
  <2>2. BehindObjects'
    BY <1>0, <1>1, <2>1 DEF BehindObjects, PagesOfPool, HeadSlot
  <2> QED  BY <1>4, <1>5, <2>1, <2>2 DEF DistinctInv
<1> QED  BY <1>2, <1>6, <1>7, <1>8, <1>9, <1>10, <1>11

OwnersInv == KernelInv /\ GivenInv /\ DistinctInv

\* No object exists at the start.
LEMMA InitObjects ==
  ASSUME KernelInit
  PROVE  \A p \in Proc, r \in Symbols : ~(symrgtbl[p][r].s >= KBASE)
<1> SUFFICES ASSUME NEW p \in Proc, NEW r \in Symbols, symrgtbl[p][r].s >= KBASE
             PROVE  FALSE
  OBVIOUS
<1>1. symrgtbl[p][r] = Empty
  <2>1. PICK R \in SUBSET Rgid : symrgtbl = [q \in Proc |-> [t \in R |-> Empty]]
    BY DEF KernelInit, Init
  <2>2. Symbols = R
    BY <2>1 DEF Symbols
  <2> QED  BY <2>1, <2>2
<1>2. 0 >= KBASE
  BY <1>1, EmptyIsNode
<1>3. KBASE \in Nat /\ KBASE > 0
  BY InitKernel, BoundsOf DEF KernelInv
<1> QED  BY <1>2, <1>3, SMTT(30)

\* Nor has a frame been given.
LEMMA InitOwners ==
  ASSUME KernelInit
  PROVE  OwnersInv
<1>1. KernelInv
  BY InitKernel
<1>2. /\ kcpooltbl = [p \in Proc |-> [k \in PoolId |-> NULL]] /\ given = [p \in Proc |-> {}]
  BY DEF KernelInit
<1>3. ASSUME NEW p \in Proc, NEW r \in Symbols, symrgtbl[p][r].s >= KBASE
      PROVE  FALSE
  BY <1>3, InitObjects
<1>4. \A p \in Proc, k \in PoolId : kcpooltbl[p][k] = NULL
  BY <1>2
<1>5. \A p \in Proc : \A f : ~(PoolKeeps(p, f) \/ SymbolKeeps(p, f))
  BY <1>3, <1>4 DEF PoolKeeps, SymbolKeeps
<1>6. GivenInv
  BY <1>2, <1>3, <1>5 DEF GivenInv, Owns
<1>7. DistinctInv
  BY <1>3, <1>4 DEF DistinctInv, StartsDiffer, PoolsApart, BehindObjects
<1> QED  BY <1>1, <1>6, <1>7 DEF OwnersInv

\* Every frame has one owner until a process ends that has a late slot, whatever
\* the sizes of pools and regions.
THEOREM OwnersInvariant == KernelSpec => [](strayed \/ OwnersInv)
<1>1. KernelInv /\ (strayed \/ OwnersInv) /\ [KernelNext]_kernelVars => (strayed \/ OwnersInv)'
  <2> SUFFICES ASSUME KernelInv, strayed \/ OwnersInv, [KernelNext]_kernelVars, ~strayed'
               PROVE  OwnersInv'
    OBVIOUS
  <2>1. ~strayed
    BY Strays
  <2> QED  BY <2>1, KernelInvStep, GivenStep, DistinctStep DEF OwnersInv
<1>2. KernelInit => strayed \/ OwnersInv
  BY InitOwners
<1> QED  BY <1>1, <1>2, KernelInvariant, PTL DEF KernelSpec

\* What the owners say of the used list.
LEMMA GivenInOwners ==
  ASSUME strayed \/ OwnersInv
  PROVE  GivenFramesStay
<1> SUFFICES ASSUME OwnersInv
             PROVE  /\ \A p \in alive : \A f \in given[p] : used_fp[f] = 1 /\ f \in kpt
                    /\ \A p, q \in alive : p # q => given[p] \cap given[q] = {}
  BY DEF GivenFramesStay
<1>1. alive \subseteq Proc /\ FramesInv /\ GivenInv
  BY DEF OwnersInv, KernelInv, HeapsInv, RegionsInv
<1>2. ASSUME NEW p \in alive, NEW f \in given[p]
      PROVE  used_fp[f] = 1 /\ f \in kpt
  <2>1. f \in kpt /\ f \in Frame
    BY <1>1 DEF GivenInv, FramesInv
  <2>2. FrameOK(f)
    BY <1>1, <2>1 DEF FramesInv
  <2> QED  BY <2>1, <2>2 DEF FrameOK
<1>3. \A p, q \in alive : p # q => given[p] \cap given[q] = {}
  BY <1>1 DEF GivenInv
<1> QED  BY <1>2, <1>3

\* The frames given to a process stay its own until it finishes, with pools of any
\* size: no other process gets them, and only the end of a process that has a late
\* slot takes them away.
THEOREM GivenFramesAreKept == CopySpec => []GivenFramesStay
BY OwnersInvariant, CopyImplementsKernel, GivenInOwners, PTL

\* What the owners say of objects.
LEMMA ObjectsInOwners ==
  ASSUME strayed \/ OwnersInv
  PROVE  ObjectsAreDistinct
<1> SUFFICES ASSUME OwnersInv
             PROVE  \A p, q \in alive : \A r \in Objects(p), s \in Objects(q) :
                      <<p, r>> # <<q, s>> => symrgtbl[p][r].s # symrgtbl[q][s].s
  BY DEF ObjectsAreDistinct
<1>1. alive \subseteq Proc /\ HeapsInv /\ StartsDiffer
  BY DEF OwnersInv, KernelInv, HeapsInv, RegionsInv, DistinctInv
<1>2. ASSUME NEW p \in alive, NEW r \in Objects(p)
      PROVE  r \in Symbols /\ symrgtbl[p][r].s >= KBASE
  <2>1. r \in Symbols /\ ~(symrgtbl[p][r].s < KBASE)
    BY DEF Objects, HeapSymbols
  <2>2. symrgtbl[p][r].s \in Nat
    BY <1>1, <2>1 DEF HeapsInv, RegionsInv, Nodes
  <2>3. KBASE \in Nat
    BY <1>1, BoundsOf
  <2> DEFINE a == symrgtbl[p][r].s
  <2>4. a \in Nat /\ ~(a < KBASE)
    BY <2>1, <2>2
  <2> HIDE DEF a
  <2>5. a >= KBASE
    BY <2>3, <2>4, SMTT(30)
  <2> QED  BY <2>1, <2>5 DEF a
<1>3. ASSUME NEW p \in alive, NEW q \in alive, NEW r \in Objects(p), NEW s \in Objects(q),
             <<p, r>> # <<q, s>>
      PROVE  symrgtbl[p][r].s # symrgtbl[q][s].s
  <2>1. p \in Proc /\ q \in Proc /\ r \in Symbols /\ s \in Symbols
    BY <1>1, <1>2
  <2>2. symrgtbl[p][r].s >= KBASE /\ symrgtbl[q][s].s >= KBASE
    BY <1>2
  <2> QED  BY <1>1, <1>3, <2>1, <2>2 DEF StartsDiffer
<1> QED  BY <1>3

\* Two kernel objects never start at the same address, whichever of __kmalloc()
\* and __kmem_cache_alloc() made them and whatever the sizes of pools, until a process
\* ends that has a late slot.
THEOREM KernelObjectsDiffer == CopySpec => []ObjectsAreDistinct
BY OwnersInvariant, CopyImplementsKernel, ObjectsInOwners, PTL
----------------------------------------------------------------------------
(* Where the bytes of objects lie.  A pool gives each of its objects the   *)
(* length of all its slots, so that two of them overlap.  As long as none  *)
(* of its pools has given out a second slot, every object of a process has *)
(* pages to itself.                                                        *)

Several(p) ==
  \E k \in PoolId : /\ kcpooltbl[p][k] # NULL
                    /\ kcpooltbl[p][k].slot_count - kcpooltbl[p][k].free_count > 1

\* No slot of the pool has been given out.
Untouched(pool) == pool.free_count = pool.slot_count

\* Every object lies in its pages, no other object has one of them, and no pool
\* that has given out no slot.
Apart(p) ==
  /\ \A r \in Symbols : symrgtbl[p][r].s >= KBASE => WithinPages(symrgtbl[p][r])
  /\ \A r, s \in Symbols : symrgtbl[p][r].s >= KBASE /\ symrgtbl[p][s].s >= KBASE /\ r # s =>
       PagesOf(symrgtbl[p][r]) \cap PagesOf(symrgtbl[p][s]) = {}
  /\ \A r \in Symbols, k \in PoolId :
       symrgtbl[p][r].s >= KBASE /\ kcpooltbl[p][k] # NULL /\ Untouched(kcpooltbl[p][k]) =>
         PagesOf(symrgtbl[p][r]) \cap PagesOfPool(kcpooltbl[p][k]) = {}

ApartInv == \A p \in Proc : Several(p) \/ Apart(p)

\* The object in the first slot lies in pages of the pool.
LEMMA FirstSlot ==
  ASSUME HeapsInv, NEW pool, PoolOK(pool), PoolPlaced(pool), pool.free_count > 0, Untouched(pool),
         NEW x \in Nodes, x.s = HeadSlot(pool), x.e = HeadSlot(pool) + pool.size
  PROVE  WithinPages(x) /\ PagesOf(x) \subseteq PagesOfPool(pool)
<1>1. PICK g \in Nat : pool.storage = KBASE + (g * PAGESZ)
  BY PoolPagesAre
<1> DEFINE c == pool.slot_count
           a == pool.align
           z == pool.size
           s == pool.storage
<1>2. /\ c \in Nat /\ a \in Nat /\ z \in Nat /\ z > 0 /\ s \in Nat /\ pool.free_count = c
      /\ PAGESZ \in Nat \ {0}
  BY RegionsAssumption DEF PoolOK, PoolRecord, PoolPlaced, Untouched
<1>3. HeadSlot(pool) = s + ((c - c) * a) /\ x.e = x.s + z
  BY <1>2 DEF HeadSlot
<1>4. ~((pool.slot_count - pool.free_count) * pool.align >= PAGESZ)
  <2>1. (pool.slot_count - pool.free_count) * pool.align = (c - c) * a
    BY <1>2
  <2> HIDE DEF c, a
  <2>2. ~((c - c) * a >= PAGESZ)
    BY <1>2, SMTT(30)
  <2> QED  BY <2>1, <2>2
<1>5. PagesOf(x) \subseteq PagesOfPool(pool)
  BY <1>4, SlotPages
<1> HIDE DEF c, a, z, s
<1>6. s + ((c - c) * a) = s
  BY <1>2, SMTT(30)
<1>7. x.s = s
  BY <1>3, <1>6
<1>8. x.s < x.e
  BY <1>2, <1>3, <1>7, SMTT(30)
<1>9. x.s = KBASE + (g * PAGESZ)
  BY <1>1, <1>7 DEF s
<1>10. WithinPages(x)
  BY <1>8, <1>9, FromPageOn
<1> QED  BY <1>5, <1>10

\* A process without a second slot has no late one.
LEMMA NotLate ==
  ASSUME HeapsInv, NEW p \in Proc, ~Several(p)
  PROVE  ~LateSlot(p)
<1> SUFFICES ASSUME NEW k \in PoolId, LateIn(p, k) PROVE FALSE
  BY LateIs
<1> DEFINE c == kcpooltbl[p][k].slot_count
           f == kcpooltbl[p][k].free_count
           a == kcpooltbl[p][k].align
<1>1. PoolOK(kcpooltbl[p][k]) /\ ~(c - f > 1) /\ (c - f - 1) * a >= PAGESZ
  BY DEF LateIn, Several, HeapsInv, PoolsInv
<1>2. c \in Nat /\ f \in Nat /\ a \in Nat /\ f <= c /\ PAGESZ \in Nat \ {0}
  BY <1>1, RegionsAssumption DEF PoolOK, PoolRecord
<1>3. ~(c - f > 1) /\ (c - f - 1) * a >= PAGESZ
  BY <1>1
<1> HIDE DEF c, f, a
<1>4. CASE c - f = 1
  <2>1. c - f - 1 = 0 /\ 0 * a = 0
    BY <1>2, <1>4, SMTT(30)
  <2>2. 0 >= PAGESZ
    BY <1>3, <2>1
  <2> QED  BY <1>2, <2>2, SMTT(30)
<1>5. CASE c - f # 1
  <2>1. c - f - 1 = -1 /\ (-1) * a = -a
    BY <1>2, <1>3, <1>5, SMTT(30)
  <2>2. -a >= PAGESZ
    BY <1>3, <2>1
  <2> QED  BY <1>2, <2>2, SMTT(30)
<1> QED  BY <1>4, <1>5

\* The pages of every object and of every pool of such a process are mapped.
LEMMA AllAreMapped ==
  ASSUME HeapsInv, GivenInv, NEW p \in Proc, ~Several(p)
  PROVE  /\ \A r \in Symbols : symrgtbl[p][r].s >= KBASE => PagesOf(symrgtbl[p][r]) \subseteq given[p]
         /\ \A r \in Symbols : symrgtbl[p][r].s >= KBASE => PagesOf(symrgtbl[p][r]) \subseteq kpt
         /\ \A k \in PoolId : kcpooltbl[p][k] # NULL => PagesOfPool(kcpooltbl[p][k]) \subseteq kpt
<1>1. given[p] \subseteq kpt /\ \A f : SymbolKeeps(p, f) => f \in given[p]
  BY NotLate DEF GivenInv, Owns
<1>2. ASSUME NEW r \in Symbols, symrgtbl[p][r].s >= KBASE
      PROVE  PagesOf(symrgtbl[p][r]) \subseteq given[p]
  BY <1>1, <1>2 DEF SymbolKeeps
<1>3. \A r \in Symbols : symrgtbl[p][r].s >= KBASE => PagesOf(symrgtbl[p][r]) \subseteq kpt
  BY <1>1, <1>2
<1>4. \A k \in PoolId : kcpooltbl[p][k] # NULL => PagesOfPool(kcpooltbl[p][k]) \subseteq kpt
  BY PagesAreMapped
<1> QED  BY <1>2, <1>3, <1>4

\* A process gets no object and no pool.
LEMMA NothingNew ==
  ASSUME NEW w \in Proc, Several(w) \/ Apart(w), Symbols' = Symbols,
         \A t \in Symbols : symrgtbl'[w][t].s >= KBASE => symrgtbl'[w][t] = symrgtbl[w][t],
         \A v \in PoolId : kcpooltbl'[w][v] = kcpooltbl[w][v]
  PROVE  (Several(w) \/ Apart(w))'
<1>1. CASE Several(w)
  <2>1. PICK v \in PoolId : kcpooltbl[w][v] # NULL /\ kcpooltbl[w][v].slot_count - kcpooltbl[w][v].free_count > 1
    BY <1>1 DEF Several
  <2>2. kcpooltbl'[w][v] # NULL /\ kcpooltbl'[w][v].slot_count - kcpooltbl'[w][v].free_count > 1
    BY <2>1
  <2> QED  BY <2>2 DEF Several
<1>2. CASE Apart(w)
  <2>1. ASSUME NEW t \in Symbols, symrgtbl'[w][t].s >= KBASE
        PROVE  WithinPages(symrgtbl'[w][t])
    <3>1. symrgtbl'[w][t] = symrgtbl[w][t]
      BY <2>1
    <3>2. WithinPages(symrgtbl[w][t])
      BY <1>2, <2>1, <3>1 DEF Apart
    <3> QED  BY <3>1, <3>2
  <2>2. ASSUME NEW t \in Symbols, NEW v \in Symbols,
               symrgtbl'[w][t].s >= KBASE, symrgtbl'[w][v].s >= KBASE, t # v
        PROVE  PagesOf(symrgtbl'[w][t]) \cap PagesOf(symrgtbl'[w][v]) = {}
    <3>1. symrgtbl'[w][t] = symrgtbl[w][t] /\ symrgtbl'[w][v] = symrgtbl[w][v]
      BY <2>2
    <3>2. PagesOf(symrgtbl[w][t]) \cap PagesOf(symrgtbl[w][v]) = {}
      BY <1>2, <2>2, <3>1 DEF Apart
    <3> QED  BY <3>1, <3>2
  <2>3. ASSUME NEW t \in Symbols, NEW v \in PoolId,
               symrgtbl'[w][t].s >= KBASE, kcpooltbl'[w][v] # NULL, Untouched(kcpooltbl'[w][v])
        PROVE  PagesOf(symrgtbl'[w][t]) \cap PagesOfPool(kcpooltbl'[w][v]) = {}
    <3>1. symrgtbl'[w][t] = symrgtbl[w][t] /\ kcpooltbl'[w][v] = kcpooltbl[w][v]
      BY <2>3
    <3>2. PagesOf(symrgtbl[w][t]) \cap PagesOfPool(kcpooltbl[w][v]) = {}
      BY <1>2, <2>3, <3>1 DEF Apart
    <3> QED  BY <3>1, <3>2
  <2> QED  BY <2>1, <2>2, <2>3 DEF Apart, Untouched, WithinPages, PagesOf, PagesOfPool
<1> QED  BY <1>1, <1>2

\* __kmalloc() gives the symbol pages nobody has.
LEMMA ApartWithRegion ==
  ASSUME HeapsInv, GivenInv, NEW p \in Proc, Several(p) \/ Apart(p), NEW r \in Symbols, NEW x \in Nodes,
         OneSymbol(p, r, x), \A f \in PagesOf(x) : f \notin kpt, WithinPages(x),
         kcpooltbl' = kcpooltbl, Symbols' = Symbols
  PROVE  (Several(p) \/ Apart(p))'
<1>1. \A t \in Symbols : \/ symrgtbl'[p][t] = symrgtbl[p][t] /\ t # r
                         \/ symrgtbl'[p][t] = x /\ t = r
  BY DEF OneSymbol
<1>3. CASE Several(p)
  BY <1>3 DEF Several
<1>4. CASE Apart(p) /\ ~Several(p)
  <2>0. /\ \A t \in Symbols : symrgtbl[p][t].s >= KBASE => PagesOf(symrgtbl[p][t]) \subseteq kpt
        /\ \A k \in PoolId : kcpooltbl[p][k] # NULL => PagesOfPool(kcpooltbl[p][k]) \subseteq kpt
    BY <1>4, AllAreMapped
  <2>1. ASSUME NEW t \in Symbols, symrgtbl'[p][t].s >= KBASE
        PROVE  WithinPages(symrgtbl'[p][t])
    <3>1. CASE symrgtbl'[p][t] = x
      BY <3>1
    <3>2. CASE symrgtbl'[p][t] = symrgtbl[p][t]
      <4>1. WithinPages(symrgtbl[p][t])
        BY <1>4, <2>1, <3>2 DEF Apart
      <4> QED  BY <3>2, <4>1
    <3> QED  BY <1>1, <3>1, <3>2
  <2>2. ASSUME NEW t \in Symbols, NEW v \in Symbols,
               symrgtbl'[p][t].s >= KBASE, symrgtbl'[p][v].s >= KBASE, t # v
        PROVE  PagesOf(symrgtbl'[p][t]) \cap PagesOf(symrgtbl'[p][v]) = {}
    <3>1. CASE symrgtbl'[p][t] = x /\ symrgtbl'[p][v] = symrgtbl[p][v]
      <4>1. PagesOf(symrgtbl[p][v]) \subseteq kpt
        BY <2>0, <2>2, <3>1
      <4>2. PagesOf(x) \cap PagesOf(symrgtbl[p][v]) = {}
        BY <4>1
      <4> QED  BY <3>1, <4>2
    <3>2. CASE symrgtbl'[p][t] = symrgtbl[p][t] /\ symrgtbl'[p][v] = x
      <4>1. PagesOf(symrgtbl[p][t]) \subseteq kpt
        BY <2>0, <2>2, <3>2
      <4>2. PagesOf(symrgtbl[p][t]) \cap PagesOf(x) = {}
        BY <4>1
      <4> QED  BY <3>2, <4>2
    <3>3. CASE symrgtbl'[p][t] = symrgtbl[p][t] /\ symrgtbl'[p][v] = symrgtbl[p][v]
      <4>1. PagesOf(symrgtbl[p][t]) \cap PagesOf(symrgtbl[p][v]) = {}
        BY <1>4, <2>2, <3>3 DEF Apart
      <4> QED  BY <3>3, <4>1
    <3>4. ~(t = r /\ v = r)
      BY <2>2
    <3> QED  BY <1>1, <3>1, <3>2, <3>3, <3>4
  <2>3. ASSUME NEW t \in Symbols, NEW v \in PoolId,
               symrgtbl'[p][t].s >= KBASE, kcpooltbl'[p][v] # NULL, Untouched(kcpooltbl'[p][v])
        PROVE  PagesOf(symrgtbl'[p][t]) \cap PagesOfPool(kcpooltbl'[p][v]) = {}
    <3>1. kcpooltbl'[p][v] = kcpooltbl[p][v]
      OBVIOUS
    <3>2. CASE symrgtbl'[p][t] = x
      <4>1. PagesOfPool(kcpooltbl[p][v]) \subseteq kpt
        BY <2>0, <2>3, <3>1
      <4>2. PagesOf(x) \cap PagesOfPool(kcpooltbl[p][v]) = {}
        BY <4>1
      <4> QED  BY <3>1, <3>2, <4>2
    <3>3. CASE symrgtbl'[p][t] = symrgtbl[p][t]
      <4>1. PagesOf(symrgtbl[p][t]) \cap PagesOfPool(kcpooltbl[p][v]) = {}
        BY <1>4, <2>3, <3>1, <3>3 DEF Apart
      <4> QED  BY <3>1, <3>3, <4>1
    <3> QED  BY <1>1, <3>2, <3>3
  <2> QED  BY <2>1, <2>2, <2>3 DEF Apart, Untouched, WithinPages, PagesOf, PagesOfPool
<1> QED  BY <1>3, <1>4

\* libkmem_cache_pool_create() gives the pool pages nobody has.
LEMMA ApartWithPool ==
  ASSUME HeapsInv, GivenInv, NEW p \in Proc, Several(p) \/ Apart(p), NEW k \in PoolId, NEW q,
         \A v \in PoolId : \/ kcpooltbl'[p][v] = kcpooltbl[p][v] /\ v # k
                           \/ kcpooltbl'[p][v] = q /\ v = k,
         kcpooltbl[p][k] = NULL, \A f \in PagesOfPool(q) : f \notin kpt,
         symrgtbl' = symrgtbl, Symbols' = Symbols
  PROVE  (Several(p) \/ Apart(p))'
<1>2. CASE Several(p)
  <2>1. PICK v \in PoolId : kcpooltbl[p][v] # NULL /\ kcpooltbl[p][v].slot_count - kcpooltbl[p][v].free_count > 1
    BY <1>2 DEF Several
  <2>2. v # k
    BY <2>1
  <2>3. kcpooltbl'[p][v] = kcpooltbl[p][v]
    BY <2>2
  <2>4. kcpooltbl'[p][v] # NULL /\ kcpooltbl'[p][v].slot_count - kcpooltbl'[p][v].free_count > 1
    BY <2>1, <2>3
  <2> QED  BY <2>4 DEF Several
<1>3. CASE Apart(p) /\ ~Several(p)
  <2>0. \A t \in Symbols : symrgtbl[p][t].s >= KBASE => PagesOf(symrgtbl[p][t]) \subseteq kpt
    BY <1>3, AllAreMapped
  <2>1. ASSUME NEW t \in Symbols, NEW v \in PoolId,
               symrgtbl'[p][t].s >= KBASE, kcpooltbl'[p][v] # NULL, Untouched(kcpooltbl'[p][v])
        PROVE  PagesOf(symrgtbl'[p][t]) \cap PagesOfPool(kcpooltbl'[p][v]) = {}
    <3>1. symrgtbl'[p][t] = symrgtbl[p][t]
      OBVIOUS
    <3>2. CASE kcpooltbl'[p][v] = q
      <4>1. PagesOf(symrgtbl[p][t]) \subseteq kpt
        BY <2>0, <2>1, <3>1
      <4>2. PagesOf(symrgtbl[p][t]) \cap PagesOfPool(q) = {}
        BY <4>1
      <4> QED  BY <3>1, <3>2, <4>2
    <3>3. CASE kcpooltbl'[p][v] = kcpooltbl[p][v]
      <4>1. PagesOf(symrgtbl[p][t]) \cap PagesOfPool(kcpooltbl[p][v]) = {}
        BY <1>3, <2>1, <3>1, <3>3 DEF Apart
      <4> QED  BY <3>1, <3>3, <4>1
    <3> QED  BY <3>2, <3>3
  <2>2. \A t \in Symbols : symrgtbl'[p][t].s >= KBASE => WithinPages(symrgtbl'[p][t])
    BY <1>3 DEF Apart
  <2>3. \A t, v \in Symbols : symrgtbl'[p][t].s >= KBASE /\ symrgtbl'[p][v].s >= KBASE /\ t # v =>
          PagesOf(symrgtbl'[p][t]) \cap PagesOf(symrgtbl'[p][v]) = {}
    BY <1>3 DEF Apart
  <2> QED  BY <2>1, <2>2, <2>3 DEF Apart, Untouched, WithinPages, PagesOf, PagesOfPool
<1> QED  BY <1>2, <1>3

\* Pool k of p becomes q, which has a slot less.
SlotLess(p, k, q) ==
  /\ \A v \in PoolId : \/ kcpooltbl'[p][v] = kcpooltbl[p][v] /\ v # k
                       \/ kcpooltbl'[p][v] = q /\ v = k
  /\ q # NULL /\ kcpooltbl[p][k] # NULL /\ kcpooltbl[p][k].free_count > 0
  /\ q.slot_count = kcpooltbl[p][k].slot_count /\ q.free_count = kcpooltbl[p][k].free_count - 1

\* Region x lies in pages of pool k of p if it is the first object of the pool.
InPool(p, k, x) ==
  Untouched(kcpooltbl[p][k]) => WithinPages(x) /\ PagesOf(x) \subseteq PagesOfPool(kcpooltbl[p][k])

\* __kmem_cache_alloc() gives the symbol pages of the pool.
LEMMA ApartWithSlot ==
  ASSUME HeapsInv, PoolsApart, NEW p \in Proc, Several(p) \/ Apart(p), NEW r \in Symbols, NEW x \in Nodes,
         OneSymbol(p, r, x), Symbols' = Symbols, NEW k \in PoolId, NEW q,
         SlotLess(p, k, q), InPool(p, k, x)
  PROVE  (Several(p) \/ Apart(p))'
<1>0. /\ \A v \in PoolId : \/ kcpooltbl'[p][v] = kcpooltbl[p][v] /\ v # k
                           \/ kcpooltbl'[p][v] = q /\ v = k
      /\ q # NULL /\ kcpooltbl[p][k] # NULL /\ kcpooltbl[p][k].free_count > 0
      /\ q.slot_count = kcpooltbl[p][k].slot_count /\ q.free_count = kcpooltbl[p][k].free_count - 1
      /\ Untouched(kcpooltbl[p][k]) => WithinPages(x) /\ PagesOf(x) \subseteq PagesOfPool(kcpooltbl[p][k])
  BY DEF SlotLess, InPool
<1>1. \A t \in Symbols : \/ symrgtbl'[p][t] = symrgtbl[p][t] /\ t # r
                         \/ symrgtbl'[p][t] = x /\ t = r
  BY DEF OneSymbol
<1> DEFINE c == kcpooltbl[p][k].slot_count
           f == kcpooltbl[p][k].free_count
<1>2. c \in Nat /\ f \in Nat /\ f <= c /\ f > 0 /\ kcpooltbl'[p][k] = q
  <2>1. PoolOK(kcpooltbl[p][k])
    BY <1>0 DEF HeapsInv, PoolsInv
  <2> QED  BY <1>0, <2>1 DEF PoolOK, PoolRecord
<1>3. CASE ~Untouched(kcpooltbl[p][k])
  <2>1. f # c
    BY <1>3 DEF Untouched
  <2>2. q.slot_count - q.free_count = c - (f - 1)
    BY <1>0
  <2> HIDE DEF c, f
  <2>3. c - (f - 1) > 1
    BY <1>2, <2>1, SMTT(30)
  <2>4. kcpooltbl'[p][k] # NULL /\ kcpooltbl'[p][k].slot_count - kcpooltbl'[p][k].free_count > 1
    BY <1>0, <1>2, <2>2, <2>3
  <2> QED  BY <2>4 DEF Several
<1>4. CASE Several(p) /\ Untouched(kcpooltbl[p][k])
  <2>1. PICK v \in PoolId : kcpooltbl[p][v] # NULL /\ kcpooltbl[p][v].slot_count - kcpooltbl[p][v].free_count > 1
    BY <1>4 DEF Several
  <2>2. v # k
    <3> SUFFICES ASSUME v = k PROVE FALSE
      OBVIOUS
    <3>1. c - c > 1
      BY <1>4, <2>1 DEF Untouched
    <3> HIDE DEF c
    <3> QED  BY <1>2, <3>1, SMTT(30)
  <2>3. kcpooltbl'[p][v] = kcpooltbl[p][v]
    BY <1>0, <2>2
  <2>4. kcpooltbl'[p][v] # NULL /\ kcpooltbl'[p][v].slot_count - kcpooltbl'[p][v].free_count > 1
    BY <2>1, <2>3
  <2> QED  BY <2>4 DEF Several
<1>5. CASE Apart(p) /\ Untouched(kcpooltbl[p][k])
  <2>1. WithinPages(x) /\ PagesOf(x) \subseteq PagesOfPool(kcpooltbl[p][k])
    BY <1>0, <1>5
  <2>2. ~Untouched(q)
    <3>1. q.free_count = f - 1 /\ q.slot_count = f
      BY <1>0, <1>5 DEF Untouched
    <3> HIDE DEF f
    <3>2. f - 1 # f
      BY <1>2, SMTT(30)
    <3> QED  BY <3>1, <3>2 DEF Untouched
  <2>3. \A t \in Symbols : symrgtbl[p][t].s >= KBASE => PagesOf(symrgtbl[p][t]) \cap PagesOf(x) = {}
    BY <1>0, <1>5, <2>1 DEF Apart
  <2>4. ASSUME NEW t \in Symbols, symrgtbl'[p][t].s >= KBASE
        PROVE  WithinPages(symrgtbl'[p][t])
    <3>1. CASE symrgtbl'[p][t] = x
      BY <2>1, <3>1
    <3>2. CASE symrgtbl'[p][t] = symrgtbl[p][t]
      <4>1. WithinPages(symrgtbl[p][t])
        BY <1>5, <2>4, <3>2 DEF Apart
      <4> QED  BY <3>2, <4>1
    <3> QED  BY <1>1, <3>1, <3>2
  <2>5. ASSUME NEW t \in Symbols, NEW v \in Symbols,
               symrgtbl'[p][t].s >= KBASE, symrgtbl'[p][v].s >= KBASE, t # v
        PROVE  PagesOf(symrgtbl'[p][t]) \cap PagesOf(symrgtbl'[p][v]) = {}
    <3>1. CASE symrgtbl'[p][t] = x /\ symrgtbl'[p][v] = symrgtbl[p][v]
      <4>1. PagesOf(symrgtbl[p][v]) \cap PagesOf(x) = {}
        BY <2>3, <2>5, <3>1
      <4> QED  BY <3>1, <4>1
    <3>2. CASE symrgtbl'[p][t] = symrgtbl[p][t] /\ symrgtbl'[p][v] = x
      <4>1. PagesOf(symrgtbl[p][t]) \cap PagesOf(x) = {}
        BY <2>3, <2>5, <3>2
      <4> QED  BY <3>2, <4>1
    <3>3. CASE symrgtbl'[p][t] = symrgtbl[p][t] /\ symrgtbl'[p][v] = symrgtbl[p][v]
      <4>1. PagesOf(symrgtbl[p][t]) \cap PagesOf(symrgtbl[p][v]) = {}
        BY <1>5, <2>5, <3>3 DEF Apart
      <4> QED  BY <3>3, <4>1
    <3>4. ~(t = r /\ v = r)
      BY <2>5
    <3> QED  BY <1>1, <3>1, <3>2, <3>3, <3>4
  <2>6. ASSUME NEW t \in Symbols, NEW v \in PoolId,
               symrgtbl'[p][t].s >= KBASE, kcpooltbl'[p][v] # NULL, Untouched(kcpooltbl'[p][v])
        PROVE  PagesOf(symrgtbl'[p][t]) \cap PagesOfPool(kcpooltbl'[p][v]) = {}
    <3>1. kcpooltbl'[p][v] # q
      BY <2>2, <2>6
    <3>2. kcpooltbl'[p][v] = kcpooltbl[p][v] /\ v # k
      BY <1>0, <3>1
    <3>3. CASE symrgtbl'[p][t] = x
      <4>1. <<p, v>> # <<p, k>>
        BY <3>2
      <4>2. PagesOfPool(kcpooltbl[p][v]) \cap PagesOfPool(kcpooltbl[p][k]) = {}
        BY <1>0, <2>6, <3>2, <4>1 DEF PoolsApart
      <4>3. PagesOf(x) \cap PagesOfPool(kcpooltbl[p][v]) = {}
        BY <2>1, <4>2
      <4> QED  BY <3>2, <3>3, <4>3
    <3>4. CASE symrgtbl'[p][t] = symrgtbl[p][t]
      <4>1. PagesOf(symrgtbl[p][t]) \cap PagesOfPool(kcpooltbl[p][v]) = {}
        BY <1>5, <2>6, <3>2, <3>4 DEF Apart
      <4> QED  BY <3>2, <3>4, <4>1
    <3> QED  BY <1>1, <3>3, <3>4
  <2> QED  BY <2>4, <2>5, <2>6 DEF Apart, Untouched, WithinPages, PagesOf, PagesOfPool
<1> QED  BY <1>3, <1>4, <1>5
============================================================================
