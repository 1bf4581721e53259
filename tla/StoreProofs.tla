---------------------------- MODULE StoreProofs ----------------------------
(***************************************************************************)
(* Proofs about the pages of objects and what a store may change: objects  *)
(* of processes whose pools have given out one slot each share no page,    *)
(* and then WRITE and the copies between user and kernel memory change the *)
(* bytes of one object.                                                    *)
(***************************************************************************)
EXTENDS OwnerProofs

USE ZenonT(30)

\* Objects keep their pages to themselves, whatever the step.
LEMMA ApartStep ==
  ASSUME OwnersInv, ApartInv, [KernelNext]_kernelVars
  PROVE  ApartInv'
<1>0. HeapsInv /\ FramesInv /\ PlacesInv /\ ObjectsInv /\ GivenInv /\ PoolsApart
  BY DEF OwnersInv, KernelInv, DistinctInv
<1>1. Symbols' = Symbols
  BY <1>0, StepKeepsHeaps
<1>2. HeapStep \/ RegionStep \/ CreateStep \/ SlotStep \/ FinishStep \/ IdleStep
  BY <1>0, KernelSteps
<1> SUFFICES ASSUME NEW w \in Proc
             PROVE  (Several(w) \/ Apart(w))'
  BY DEF ApartInv
<1>3. Several(w) \/ Apart(w)
  BY DEF ApartInv
<1>4. CASE HeapStep
  <2>1. PICK p \in Proc, r \in Symbols, x \in Nodes :
          /\ symrgtbl[p][r].s < KBASE /\ x.s < KBASE
          /\ symrgtbl' = [symrgtbl EXCEPT ![p][r] = x]
          /\ UNCHANGED <<alive, kcpooltbl, kpt, given>>
    BY <1>4 DEF HeapStep
  <2>2. ~(x.s >= KBASE)
    <3>1. x.s \in Nat
      BY DEF Nodes
    <3> QED  BY <1>0, <2>1, <3>1, BoundsOf, SMTT(30)
  <2>3. OneSymbol(p, r, x)
    BY <1>0, <1>1, <2>1, SymbolSet
  <2>4. \A t \in Symbols : symrgtbl'[w][t].s >= KBASE => symrgtbl'[w][t] = symrgtbl[w][t]
    BY <2>2, <2>3 DEF OneSymbol
  <2>5. \A v \in PoolId : kcpooltbl'[w][v] = kcpooltbl[w][v]
    BY <2>1
  <2> QED  BY <1>1, <1>3, <2>4, <2>5, NothingNew
<1>5. CASE RegionStep
  <2>1. PICK p \in Proc, r \in Symbols, x \in Nodes :
          /\ symrgtbl[p][r].s < KBASE
          /\ symrgtbl' = [symrgtbl EXCEPT ![p][r] = x]
          /\ \A f \in PagesOf(x) : f \notin kpt
          /\ WithinPages(x)
          /\ kcpooltbl' = kcpooltbl
    BY <1>5 DEF RegionStep
  <2>2. OneSymbol(p, r, x)
    BY <1>0, <1>1, <2>1, SymbolSet
  <2>3. CASE w = p
    <3>1. Several(p) \/ Apart(p)
      BY <1>3, <2>3
    <3>2. (Several(p) \/ Apart(p))'
      BY <1>0, <1>1, <2>1, <2>2, <3>1, ApartWithRegion
    <3> QED  BY <2>3, <3>2
  <2>4. CASE w # p
    <3>1. \A t \in Symbols : symrgtbl'[w][t] = symrgtbl[w][t]
      BY <2>2, <2>4 DEF OneSymbol
    <3>2. \A v \in PoolId : kcpooltbl'[w][v] = kcpooltbl[w][v]
      BY <2>1
    <3> QED  BY <1>1, <1>3, <3>1, <3>2, NothingNew
  <2> QED  BY <2>3, <2>4
<1>6. CASE CreateStep
  <2>1. PICK p \in Proc, k \in PoolId : \E q :
          /\ p \in alive
          /\ kcpooltbl[p][k] = NULL
          /\ q # NULL /\ PoolOK(q) /\ PoolPlaced(q)
          /\ kcpooltbl' = [kcpooltbl EXCEPT ![p][k] = q]
          /\ kpt' = kpt \cup PagesOfPool(q)
          /\ given' = [given EXCEPT ![p] = @ \cup PagesOfPool(q)]
          /\ \A f \in PagesOfPool(q) : f \in Frame /\ f \notin kpt
          /\ UNCHANGED <<alive, symrgtbl>>
    BY <1>6 DEF CreateStep
  <2>2. PICK q :
          /\ kcpooltbl[p][k] = NULL
          /\ q # NULL
          /\ kcpooltbl' = [kcpooltbl EXCEPT ![p][k] = q]
          /\ \A f \in PagesOfPool(q) : f \notin kpt
          /\ symrgtbl' = symrgtbl
    BY <2>1
  <2>3. \A u \in Proc, v \in PoolId :
          \/ kcpooltbl'[u][v] = kcpooltbl[u][v] /\ <<u, v>> # <<p, k>>
          \/ kcpooltbl'[u][v] = q /\ u = p /\ v = k
    <3>1. /\ \A u \in Proc, v \in PoolId :
               \/ kcpooltbl'[u][v] = kcpooltbl[u][v] /\ <<u, v>> # <<p, k>>
               \/ kcpooltbl'[u][v] = q /\ u = p /\ v = k
          /\ \A u \in Proc : \A f : PoolKeeps(u, f) => PoolKeeps(u, f)'
          /\ \A f \in PagesOfPool(q) : PoolKeeps(p, f)'
      BY <1>0, <2>2, PoolStep
    <3> QED  BY <3>1
  <2>4. CASE w = p
    <3>1. Several(p) \/ Apart(p)
      BY <1>3, <2>4
    <3>2. \A v \in PoolId : \/ kcpooltbl'[p][v] = kcpooltbl[p][v] /\ v # k
                            \/ kcpooltbl'[p][v] = q /\ v = k
      BY <2>3
    <3>3. (Several(p) \/ Apart(p))'
      BY <1>0, <1>1, <2>2, <3>1, <3>2, ApartWithPool
    <3> QED  BY <2>4, <3>3
  <2>5. CASE w # p
    <3>1. \A t \in Symbols : symrgtbl'[w][t] = symrgtbl[w][t]
      BY <2>2
    <3>2. \A v \in PoolId : kcpooltbl'[w][v] = kcpooltbl[w][v]
      BY <2>3, <2>5
    <3> QED  BY <1>1, <1>3, <3>1, <3>2, NothingNew
  <2> QED  BY <2>4, <2>5
<1>7. CASE SlotStep
  <2>1. PICK p \in Proc, r \in Symbols, k \in PoolId, x \in Nodes : \E q : SlotBy(p, r, k, x, q)
    BY <1>7 DEF SlotStep
  <2>2. PICK q : SlotBy(p, r, k, x, q)
    BY <2>1
  <2> DEFINE pool == kcpooltbl[p][k]
  <2>3. /\ pool # NULL /\ pool.free_count > 0
        /\ x.s = HeadSlot(pool) /\ x.e = HeadSlot(pool) + pool.size
        /\ symrgtbl[p][r].s < KBASE /\ symrgtbl' = [symrgtbl EXCEPT ![p][r] = x]
        /\ q # NULL /\ PagesOfPool(pool) = PagesOfPool(q)
        /\ q.slot_count = pool.slot_count /\ q.free_count = pool.free_count - 1
        /\ kcpooltbl' = [kcpooltbl EXCEPT ![p][k] = q]
    BY <2>2 DEF SlotBy, PagesOfPool
  <2>4. PoolOK(pool) /\ PoolPlaced(pool)
    BY <1>0, <2>3 DEF HeapsInv, PoolsInv, PlacesInv
  <2>6. Untouched(pool) => WithinPages(x) /\ PagesOf(x) \subseteq PagesOfPool(pool)
    <3> HIDE DEF pool
    <3> QED  BY <1>0, <2>3, <2>4, FirstSlot
  <2>7. OneSymbol(p, r, x)
    BY <1>0, <1>1, <2>3, SymbolSet
  <2>8. \A u \in Proc, v \in PoolId :
          \/ kcpooltbl'[u][v] = kcpooltbl[u][v] /\ <<u, v>> # <<p, k>>
          \/ kcpooltbl'[u][v] = q /\ u = p /\ v = k
    <3>1. /\ \A u \in Proc, v \in PoolId :
               \/ kcpooltbl'[u][v] = kcpooltbl[u][v] /\ <<u, v>> # <<p, k>>
               \/ kcpooltbl'[u][v] = q /\ u = p /\ v = k
          /\ \A u \in Proc : \A f : PoolKeeps(u, f) => PoolKeeps(u, f)'
          /\ \A f \in PagesOfPool(q) : PoolKeeps(p, f)'
      BY <1>0, <2>3, PoolStep
    <3> QED  BY <3>1
  <2>9. CASE w = p
    <3>1. Several(p) \/ Apart(p)
      BY <1>3, <2>9
    <3>2. \A v \in PoolId : \/ kcpooltbl'[p][v] = kcpooltbl[p][v] /\ v # k
                            \/ kcpooltbl'[p][v] = q /\ v = k
      BY <2>8
    <3>3. SlotLess(p, k, q)
      BY <2>3, <3>2 DEF SlotLess
    <3>4. InPool(p, k, x)
      BY <2>6 DEF InPool
    <3>5. (Several(p) \/ Apart(p))'
      BY <1>0, <1>1, <2>7, <3>1, <3>3, <3>4, ApartWithSlot
    <3> QED  BY <2>9, <3>5
  <2>10. CASE w # p
    <3>1. \A t \in Symbols : symrgtbl'[w][t] = symrgtbl[w][t]
      BY <2>7, <2>10 DEF OneSymbol
    <3>2. \A v \in PoolId : kcpooltbl'[w][v] = kcpooltbl[w][v]
      BY <2>8, <2>10
    <3> QED  BY <1>1, <1>3, <3>1, <3>2, NothingNew
  <2> QED  BY <2>9, <2>10
<1>8. CASE FinishStep
  <2>1. PICK p \in Proc :
          /\ symrgtbl' = [symrgtbl EXCEPT ![p] = NoSymbols]
          /\ kcpooltbl' = [kcpooltbl EXCEPT ![p] = [k \in PoolId |-> NULL]]
    BY <1>8 DEF FinishStep
  <2>2. /\ w # p => symrgtbl'[w] = symrgtbl[w] /\ kcpooltbl'[w] = kcpooltbl[w]
        /\ symrgtbl'[p] = NoSymbols
    BY <1>0, <2>1 DEF HeapsInv, RegionsInv, PoolsInv
  <2>3. CASE w = p
    <3>1. \A t \in Symbols : ~(symrgtbl'[w][t].s >= KBASE)
      <4>1. SUFFICES ASSUME NEW t \in Symbols, symrgtbl'[w][t].s >= KBASE PROVE FALSE
        OBVIOUS
      <4>2. symrgtbl'[w][t].s = 0
        BY <2>2, <2>3, EmptyIsNode DEF NoSymbols
      <4>3. 0 >= KBASE
        BY <4>1, <4>2
      <4>4. KBASE \in Nat /\ KBASE > 0
        BY <1>0, BoundsOf
      <4> QED  BY <4>3, <4>4, SMTT(30)
    <3>2. Apart(w)'
      BY <1>1, <3>1 DEF Apart
    <3> QED  BY <3>2
  <2>4. CASE w # p
    <3>1. \A t \in Symbols : symrgtbl'[w][t] = symrgtbl[w][t]
      BY <2>2, <2>4
    <3>2. \A v \in PoolId : kcpooltbl'[w][v] = kcpooltbl[w][v]
      BY <2>2, <2>4
    <3> QED  BY <1>1, <1>3, <3>1, <3>2, NothingNew
  <2> QED  BY <2>3, <2>4
<1>9. CASE IdleStep
  <2>1. /\ \A t \in Symbols : symrgtbl'[w][t] = symrgtbl[w][t]
        /\ \A v \in PoolId : kcpooltbl'[w][v] = kcpooltbl[w][v]
    BY <1>9 DEF IdleStep
  <2> QED  BY <1>1, <1>3, <2>1, NothingNew
<1> QED  BY <1>2, <1>4, <1>5, <1>6, <1>7, <1>8, <1>9

RoomsInv == OwnersInv /\ ApartInv

\* A step that does not end a process with a late slot keeps them so.
LEMMA RoomsStep ==
  ASSUME RoomsInv, [KernelNext]_kernelVars, ~strayed'
  PROVE  RoomsInv'
BY KernelInvStep, GivenStep, DistinctStep, ApartStep DEF RoomsInv, OwnersInv

\* Objects keep their pages to themselves throughout, but for those of processes
\* with a pool that has given out a second slot, until a process ends that has a
\* late slot.
THEOREM RoomsInvariant == KernelSpec => [](strayed \/ RoomsInv)
<1>1. (strayed \/ RoomsInv) /\ [KernelNext]_kernelVars => (strayed \/ RoomsInv)'
  <2> SUFFICES ASSUME strayed \/ RoomsInv, [KernelNext]_kernelVars, ~strayed'
               PROVE  RoomsInv'
    OBVIOUS
  <2>1. ~strayed
    BY Strays
  <2> QED  BY <2>1, RoomsStep
<1>2. KernelInit => strayed \/ RoomsInv
  <2> SUFFICES ASSUME KernelInit PROVE RoomsInv
    OBVIOUS
  <2>1. OwnersInv
    BY InitOwners
  <2>2. \A p \in Proc, r \in Symbols : ~(symrgtbl[p][r].s >= KBASE)
    BY InitObjects
  <2>3. ApartInv
    BY <2>2 DEF ApartInv, Apart
  <2> QED  BY <2>1, <2>3 DEF RoomsInv
<1> QED  BY <1>1, <1>2, PTL DEF KernelSpec
----------------------------------------------------------------------------
(* What a store changes.                                                   *)

\* No process has a pool that has given out a second slot.
LEMMA NotSeveral ==
  ASSUME HeapsInv, OneSlotEach, NEW p \in alive
  PROVE  ~Several(p)
<1> SUFFICES ASSUME NEW k \in PoolId, kcpooltbl[p][k] # NULL,
                    kcpooltbl[p][k].slot_count - kcpooltbl[p][k].free_count > 1
             PROVE  FALSE
  BY DEF Several
<1> DEFINE c == kcpooltbl[p][k].slot_count
           f == kcpooltbl[p][k].free_count
<1>1. c - f <= 1 /\ c - f > 1
  BY DEF OneSlotEach, Pools
<1>2. c \in Nat /\ f \in Nat
  <2>1. p \in Proc
    BY DEF HeapsInv, RegionsInv
  <2>2. PoolOK(kcpooltbl[p][k])
    BY <2>1 DEF HeapsInv, PoolsInv
  <2> QED  BY <2>2 DEF PoolOK, PoolRecord
<1> HIDE DEF c, f
<1> QED  BY <1>1, <1>2, SMTT(30)

\* The regions and kernel objects of such a process.
LEMMA KernelPlace ==
  ASSUME RoomsInv, OneSlotEach, NEW p \in alive, NEW r \in Symbols, ~(symrgtbl[p][r].s < KBASE)
  PROVE  /\ p \in Proc /\ symrgtbl[p][r] \in Nodes /\ symrgtbl[p][r].s >= KBASE
         /\ WithinPages(symrgtbl[p][r])
         /\ PagesOf(symrgtbl[p][r]) \subseteq given[p] /\ PagesOf(symrgtbl[p][r]) \subseteq kpt
         /\ Apart(p)
<1>1. HeapsInv /\ GivenInv /\ ApartInv
  BY DEF RoomsInv, OwnersInv, KernelInv
<1>2. p \in Proc /\ symrgtbl[p][r] \in Nodes
  BY <1>1 DEF HeapsInv, RegionsInv
<1>3. symrgtbl[p][r].s \in Nat /\ KBASE \in Nat
  BY <1>1, <1>2, BoundsOf DEF Nodes
<1>4. symrgtbl[p][r].s >= KBASE
  BY <1>3, SMTT(30)
<1>5. ~Several(p)
  BY <1>1, NotSeveral
<1>6. Apart(p)
  BY <1>1, <1>2, <1>5 DEF ApartInv
<1> QED  BY <1>1, <1>2, <1>4, <1>5, <1>6, AllAreMapped DEF Apart

\* Two kernel objects have no byte in common.
LEMMA KernelApart ==
  ASSUME RoomsInv, OneSlotEach, NEW p \in alive, NEW q \in alive, NEW r \in Symbols, NEW s \in Symbols,
         ~(symrgtbl[p][r].s < KBASE), ~(symrgtbl[q][s].s < KBASE), p # q \/ r # s,
         NEW a \in Bytes(symrgtbl[p][r])
  PROVE  a \notin Bytes(symrgtbl[q][s])
<1> SUFFICES ASSUME a \in Bytes(symrgtbl[q][s]) PROVE FALSE
  OBVIOUS
<1> DEFINE f == kernel_fpn_from_vaddr(a)
<1>1. /\ p \in Proc /\ f \in PagesOf(symrgtbl[p][r]) /\ PagesOf(symrgtbl[p][r]) \subseteq given[p]
      /\ symrgtbl[p][r].s >= KBASE /\ Apart(p)
  BY KernelPlace DEF WithinPages
<1>2. /\ q \in Proc /\ f \in PagesOf(symrgtbl[q][s]) /\ PagesOf(symrgtbl[q][s]) \subseteq given[q]
      /\ symrgtbl[q][s].s >= KBASE
  BY KernelPlace DEF WithinPages
<1> HIDE DEF f
<1>3. CASE p # q
  <2>1. given[p] \cap given[q] = {}
    BY <1>1, <1>2, <1>3 DEF RoomsInv, OwnersInv, GivenInv
  <2> QED  BY <1>1, <1>2, <2>1
<1>4. CASE p = q /\ r # s
  BY <1>1, <1>2, <1>4 DEF Apart
<1> QED  BY <1>3, <1>4

\* An address that the kernel's page table translates is no user address.
LEMMA NotLow ==
  ASSUME RoomsInv, NEW p \in Proc, NEW r \in Symbols, NEW o \in Nat, kernel_access(p, r, o)
  PROVE  ~(symrgtbl[p][r].s < KBASE) /\ o < symrgtbl[p][r].e - symrgtbl[p][r].s
<1>1. HeapsInv /\ FramesInv
  BY DEF RoomsInv, OwnersInv, KernelInv
<1> DEFINE s == symrgtbl[p][r].s
           e == symrgtbl[p][r].e
           f == kernel_fpn_from_vaddr(symrgtbl[p][r].s + o)
<1>2. symrgtbl[p][r] \in Nodes /\ kpt \subseteq Frame
  BY <1>1 DEF HeapsInv, RegionsInv, FramesInv
<1>3. s \in Nat /\ e \in Nat /\ KBASE \in Nat /\ PAGESZ \in Nat \ {0}
  BY <1>1, <1>2, BoundsOf DEF Nodes
<1>4. o <= e - s - 1 /\ f \in kpt
  BY DEF kernel_access, kernel_region_valid
<1>5. f \in Nat
  <2>1. f \in Frame
    BY <1>2, <1>4
  <2> HIDE DEF f
  <2> QED  BY <1>1, <2>1, BoundsOf, SMTT(30) DEF Frame, Frames
<1>6. f = ((s + o) - KBASE) \div PAGESZ
  BY DEF kernel_fpn_from_vaddr
<1>7. s < KBASE => e < KBASE
  <2> SUFFICES ASSUME s < KBASE PROVE e < KBASE
    OBVIOUS
  <2>1. /\ HeapOK(freerg[p], symrgtbl[p], sbrk[p], lost[p]) /\ symrgtbl[p] \in [Symbols -> Nodes]
    BY <1>1 DEF HeapsInv, RegionsInv
  <2>2. r \in Low(symrgtbl[p])
    BY <2>1 DEF Low
  <2>3. e <= sbrk[p] /\ sbrk[p] \in Nat /\ sbrk[p] < KBASE
    BY <2>1, <2>2 DEF HeapOK
  <2> HIDE DEF e
  <2> QED  BY <1>3, <2>3, SMTT(30)
<1> HIDE DEF s, e, f
<1>8. ~(s < KBASE)
  <2> SUFFICES ASSUME s < KBASE PROVE FALSE
    OBVIOUS
  <2>1. e < KBASE
    BY <1>7
  <2> DEFINE x == (s + o) - KBASE
  <2>2. x \in Int /\ x < 0
    BY <1>3, <1>4, <2>1, SMTT(30)
  <2> HIDE DEF x
  <2>3. x \div PAGESZ < 0
    BY <1>3, <2>2, SMTT(30)
  <2>4. f = x \div PAGESZ
    BY <1>6 DEF x
  <2> QED  BY <1>5, <2>3, <2>4, SMTT(30)
<1>9. o < e - s
  BY <1>3, <1>4, SMTT(30)
<1> QED  BY <1>8, <1>9 DEF s, e

\* Object r of p is changed as StoresAreExact says, and it is the only one.
Exact(p, r) ==
  \/ \E s \in Symbols : /\ s \in HeapSymbols(p) <=> r \notin HeapSymbols(p)
                        /\ TakenFrom(Contents(p, r), Contents(p, r)', Contents(p, s))
  \/ /\ r \in HeapSymbols(p)
     /\ \E i \in DOMAIN Contents(p, r) : \A j \in DOMAIN Contents(p, r) \ {i} :
          Contents(p, r)'[j] = Contents(p, r)[j]

OnlyThis(p, r) == \A q \in alive : \A s \in Changed(q) : q = p /\ s = r /\ Exact(q, s)

\* A process that still has an object after a step has lost no frame.
LEMMA GivenStays ==
  ASSUME OwnersInv, [KernelNext]_kernelVars, NEW p \in Proc, NEW r \in Symbols, symrgtbl'[p][r].s >= KBASE
  PROVE  given[p] \subseteq given'[p]
<1>0. HeapsInv /\ FramesInv /\ PlacesInv /\ GivenInv
  BY DEF OwnersInv, KernelInv
<1>1. HeapStep \/ RegionStep \/ CreateStep \/ SlotStep \/ FinishStep \/ IdleStep
  BY <1>0, KernelSteps
<1>2. given \in [Proc -> SUBSET Frame]
  BY <1>0 DEF FramesInv
<1>3. CASE HeapStep \/ SlotStep \/ IdleStep
  <2>1. HeapStep => UNCHANGED given
    BY DEF HeapStep
  <2>2. SlotStep => UNCHANGED given
    <3>1. ASSUME NEW q, NEW s, NEW k, NEW x, NEW y, SlotBy(q, s, k, x, y) PROVE UNCHANGED given
      BY <3>1 DEF SlotBy
    <3> QED  BY <3>1 DEF SlotStep
  <2>3. IdleStep => UNCHANGED given
    BY DEF IdleStep
  <2> QED  BY <1>3, <2>1, <2>2, <2>3
<1>4. CASE RegionStep
  BY <1>2, <1>4 DEF RegionStep
<1>5. CASE CreateStep
  BY <1>2, <1>5 DEF CreateStep
<1>6. CASE FinishStep
  <2>1. PICK q \in Proc : given' = [given EXCEPT ![q] = {}] /\ symrgtbl' = [symrgtbl EXCEPT ![q] = NoSymbols]
    BY <1>6 DEF FinishStep
  <2>2. CASE q = p
    <3>1. symrgtbl'[p][r].s = 0
      BY <1>0, <2>1, <2>2, EmptyIsNode DEF NoSymbols, HeapsInv, RegionsInv
    <3>2. 0 >= KBASE
      BY <3>1
    <3>3. KBASE \in Nat /\ KBASE > 0
      BY <1>0, BoundsOf
    <3> QED  BY <3>2, <3>3, SMTT(30)
  <2>3. CASE q # p
    BY <1>2, <2>1, <2>3
  <2> QED  BY <2>2, <2>3
<1> QED  BY <1>1, <1>3, <1>4, <1>5, <1>6

\* Memory that is given out belonged to no object.
LEMMA FreshKeeps ==
  ASSUME RoomsInv, RoomsInv', OneSlotEach, [KernelNext]_kernelVars, FreshBytes, Symbols' = Symbols,
         NEW p \in alive, NEW r \in Changed(p)
  PROVE  FALSE
<1>1. HeapsInv /\ HeapsInv' /\ GivenInv' /\ FramesInv'
  BY DEF RoomsInv, OwnersInv, KernelInv
<1>2. p \in Proc
  BY <1>1 DEF HeapsInv, RegionsInv
<1> DEFINE rg == symrgtbl[p][r]
<1>3. r \in Symbols /\ symrgtbl'[p][r] = rg /\ rg \in Nodes
  BY <1>1, <1>2, ChangedByte
<1>4. CASE rg.s < KBASE
  <2>1. PICK a \in Bytes(rg) : ubyte'[p][a] # ubyte[p][a]
    BY <1>1, <1>2, <1>4, ChangedByte
  <2>2. a \in 0 .. sbrk[p] - 1
    BY <1>1, <1>2, <1>3, <1>4, UserPlace
  <2>3. sbrk[p] \in Nat /\ sbrk'[p] \in Nat
    BY <1>1, <1>2 DEF HeapsInv, RegionsInv
  <2>4. HeapOK(freerg'[p], symrgtbl'[p], sbrk'[p], lost'[p]) /\ symrgtbl'[p] \in [Symbols -> Nodes]
    BY <1>1, <1>2 DEF HeapsInv, RegionsInv
  <2>5. r \in Low(symrgtbl'[p])
    BY <1>3, <1>4, <2>4 DEF Low
  <2>6. rg.e <= sbrk'[p]
    BY <1>3, <2>4, <2>5 DEF HeapOK
  <2>7. a \in 0 .. sbrk'[p] - 1
    <3> DEFINE s == rg.s
               e == rg.e
               t == sbrk'[p]
    <3>1. a \in s .. e - 1 /\ s \in Nat /\ e \in Nat /\ t \in Nat /\ e <= t
      BY <1>3, <2>3, <2>6 DEF Bytes, Nodes
    <3> HIDE DEF s, e, t
    <3>2. a \in 0 .. t - 1
      BY <3>1, SMTT(30)
    <3> QED  BY <3>2 DEF t
  <2> DEFINE M == UNION {{q} \X (sbrk[q] .. sbrk'[q] - 1) : q \in Proc}
  <2>8. PICK more \in [M -> bounds.value] :
          ubyte' = [q \in Proc |-> [x \in 0 .. sbrk'[q] - 1 |->
                      IF <<q, x>> \in DOMAIN more THEN more[<<q, x>>] ELSE ubyte[q][x]]]
    BY DEF FreshBytes
  <2>9. a \notin sbrk[p] .. sbrk'[p] - 1
    BY <2>2, <2>3, SMTT(30)
  <2>10. <<p, a>> \notin M
    <3> SUFFICES ASSUME NEW q \in Proc, <<p, a>> \in {q} \X (sbrk[q] .. sbrk'[q] - 1) PROVE FALSE
      OBVIOUS
    <3> QED  BY <2>9
  <2>11. DOMAIN more = M
    BY <2>8
  <2> HIDE DEF M
  <2>12. ubyte'[p] = [x \in 0 .. sbrk'[p] - 1 |->
                        IF <<p, x>> \in DOMAIN more THEN more[<<p, x>>] ELSE ubyte[p][x]]
    BY <1>2, <2>8
  <2>13. ubyte'[p][a] = ubyte[p][a]
    BY <2>7, <2>10, <2>11, <2>12
  <2> QED  BY <2>1, <2>13
<1>5. CASE ~(rg.s < KBASE)
  <2>1. PICK a \in Bytes(rg) : kbyte'[a - KBASE] # kbyte[a - KBASE]
    BY <1>1, <1>2, <1>5, ChangedByte
  <2>2. rg.s >= KBASE /\ WithinPages(rg) /\ PagesOf(rg) \subseteq kpt
    BY <1>3, <1>5, KernelPlace
  <2>3. a \in Nat /\ a >= KBASE
    BY <1>1, <1>3, <2>2, KernelByte
  <2> DEFINE f == kernel_fpn_from_vaddr(a)
  <2>4. f \in PagesOf(rg)
    BY <2>2 DEF WithinPages
  <2>5. f \in kpt
    BY <2>2, <2>4
  <2>6. f \in kpt'
    <3>1. f \in given[p]
      BY <1>3, <1>5, <2>4, KernelPlace
    <3>2. given[p] \subseteq given'[p]
      BY <1>2, <1>3, <2>2, GivenStays DEF RoomsInv
    <3>3. given'[p] \subseteq kpt'
      BY <1>1, <1>2 DEF GivenInv
    <3> QED  BY <3>1, <3>2, <3>3
  <2>7. kpt \in SUBSET Nat /\ kpt' \in SUBSET Nat
    <3>1. kpt \subseteq Frame /\ kpt' \subseteq Frame'
      BY DEF RoomsInv, OwnersInv, KernelInv, FramesInv
    <3>2. bounds.frames \in Nat /\ bounds'.frames \in Nat
      BY <1>1, KernelAssumption DEF HeapsInv, RegionsInv
    <3>3. Frame \subseteq Nat /\ Frame' \subseteq Nat
      BY <3>2, SMTT(30) DEF Frame, Frames
    <3> QED  BY <3>1, <3>3
  <2>8. a - KBASE \in Physical(kpt') /\ a - KBASE \notin Physical(kpt' \ kpt)
    <3>1. kpt' \ kpt \in SUBSET Nat
      BY <2>7
    <3> QED  BY <2>3, <2>5, <2>6, <2>7, <3>1, PhysicalFrame
  <2>9. PICK any \in [Physical(kpt' \ kpt) -> bounds.value] :
          kbyte' = [x \in Physical(kpt') |-> IF x \in DOMAIN any THEN any[x] ELSE kbyte[x]]
    BY DEF FreshBytes
  <2>10. kbyte'[a - KBASE] = kbyte[a - KBASE]
    <3> HIDE DEF f
    <3> DEFINE x == a - KBASE
    <3>1. x \in Physical(kpt') /\ x \notin DOMAIN any
      BY <2>8, <2>9
    <3> HIDE DEF x
    <3>2. kbyte'[x] = kbyte[x]
      BY <2>9, <3>1
    <3> QED  BY <3>2 DEF x
  <2> QED  BY <2>1, <2>10
<1> QED  BY <1>4, <1>5

\* A store leaves regions and processes as they are.
LEMMA StoreKeeps ==
  ASSUME RoomsInv, UNCHANGED kernelVars
  PROVE  /\ HeapsInv /\ alive \subseteq Proc /\ kpt \in SUBSET Nat
         /\ symrgtbl' = symrgtbl /\ Symbols' = Symbols
         /\ \A p \in Proc, r \in Symbols : symrgtbl[p][r] \in Nodes
<1>1. HeapsInv /\ FramesInv
  BY DEF RoomsInv, OwnersInv, KernelInv
<1>2. symrgtbl' = symrgtbl
  BY DEF kernelVars, vars, heapVars
<1>3. alive \subseteq Proc /\ \A p \in Proc, r \in Symbols : symrgtbl[p][r] \in Nodes
  BY <1>1 DEF HeapsInv, RegionsInv
<1>4. Frame \subseteq Nat
  BY <1>1, BoundsOf, SMTT(30) DEF Frame, Frames
<1>5. kpt \in SUBSET Nat
  BY <1>1, <1>4 DEF FramesInv
<1> QED  BY <1>1, <1>2, <1>3, <1>5 DEF Symbols

\* libwrite() changes one byte of one region.
LEMMA WriteExact ==
  ASSUME RoomsInv, BytesInv, NEW p \in Proc, NEW r \in Symbols, NEW o \in Nat, NEW d, libwrite(p, r, o, d)
  PROVE  OnlyThis(p, r)
<1> DEFINE rg == symrgtbl[p][r]
           v == user_vaddr(p, r, o)
<1>0. UNCHANGED kernelVars /\ kbyte' = kbyte /\ ubyte' = [ubyte EXCEPT ![p][v] = d] /\ user_access(p, r, o)
  BY DEF libwrite
<1>1. /\ HeapsInv /\ alive \subseteq Proc /\ symrgtbl' = symrgtbl /\ Symbols' = Symbols
      /\ rg \in Nodes
  BY <1>0, StoreKeeps
<1>2. rg.s < KBASE /\ o \in 0 .. rg.e - rg.s - 1
  <2>1. rg.s < KBASE /\ o < rg.e - rg.s
    BY <1>0 DEF user_access
  <2> DEFINE s == rg.s
             e == rg.e
  <2>2. s \in Nat /\ e \in Nat /\ o < e - s
    BY <1>1, <2>1 DEF Nodes
  <2> HIDE DEF s, e
  <2>3. o \in 0 .. e - s - 1
    BY <2>2, SMTT(30)
  <2> QED  BY <2>1, <2>3 DEF s, e
<1>3. v = rg.s + o
  BY DEF user_vaddr
<1>4. v \in Bytes(rg)
  <2> HIDE DEF rg, v
  <2> QED  BY <1>1, <1>2, <1>3, OffsetOf
<1>5. /\ \A q \in Proc : q # p => ubyte'[q] = ubyte[q]
      /\ \A a \in 0 .. sbrk[p] - 1 : a # v => ubyte'[p][a] = ubyte[p][a]
  <2> HIDE DEF v
  <2> QED  BY <1>0, BytesAt
<1> HIDE DEF v
<1>6. Exact(p, r)
  <2>1. r \in HeapSymbols(p)
    BY <1>2 DEF HeapSymbols
  <2>2. /\ Contents(p, r) = UserBytes(ubyte[p], rg)
        /\ Contents(p, r)' = UserBytes(ubyte'[p], rg)
    BY <1>1, <1>2, ContentsAre
  <2>3. DOMAIN Contents(p, r) = 0 .. rg.e - rg.s - 1
    BY <2>2 DEF UserBytes
  <2>4. ASSUME NEW j \in 0 .. rg.e - rg.s - 1, j # o
        PROVE  Contents(p, r)'[j] = Contents(p, r)[j]
    <3>1. rg.s + j \in 0 .. sbrk[p] - 1
      <4>1. rg.s + j \in Bytes(rg)
        <5> HIDE DEF rg
        <5> QED  BY <1>1, OffsetOf
      <4> QED  BY <1>1, <1>2, <4>1, UserPlace
    <3>2. rg.s + j # rg.s + o
      <4> DEFINE s == rg.s
                 e == rg.e
      <4>1. s \in Nat /\ e \in Nat /\ j \in 0 .. e - s - 1
        BY <1>1 DEF Nodes
      <4> HIDE DEF s, e
      <4>2. s + j # s + o
        BY <2>4, <4>1, SMTT(30)
      <4> QED  BY <4>2 DEF s
    <3>3. ubyte'[p][rg.s + j] = ubyte[p][rg.s + j]
      BY <1>3, <1>5, <3>1, <3>2
    <3> QED  BY <2>2, <3>3 DEF UserBytes
  <2> QED  BY <1>2, <2>1, <2>3, <2>4 DEF Exact
<1>7. ASSUME NEW q \in alive, NEW s \in Changed(q)
      PROVE  q = p /\ s = r
  <2>1. q \in Proc /\ s \in Symbols
    BY <1>1, ChangedByte
  <2>2. symrgtbl[q][s].s < KBASE
    BY <1>0, <1>1, <2>1, ChangedByte
  <2>3. PICK a \in Bytes(symrgtbl[q][s]) : ubyte'[q][a] # ubyte[q][a]
    BY <1>1, <2>1, <2>2, ChangedByte
  <2>4. q = p
    BY <1>5, <2>1, <2>3
  <2>5. a \in 0 .. sbrk[p] - 1
    BY <1>1, <2>1, <2>2, <2>4, UserPlace
  <2>6. a = v
    BY <1>5, <2>3, <2>4, <2>5
  <2>7. s = r
    BY <1>1, <1>2, <1>4, <2>1, <2>2, <2>3, <2>4, <2>6, UserPlace
  <2> QED  BY <2>4, <2>7
<1> QED  BY <1>6, <1>7 DEF OnlyThis

\* libkmem_copy_from_user() changes one kernel object, by bytes of a user region.
LEMMA CopyFromExact ==
  ASSUME RoomsInv, BytesInv, OneSlotEach, NEW p \in Proc, NEW source \in Symbols, NEW r \in Symbols,
         NEW o \in Nat, NEW n \in Nat \ {0}, libkmem_copy_from_user(p, source, r, o, n)
  PROVE  OnlyThis(p, r)
<1> DEFINE rg == symrgtbl[p][r]
           src == symrgtbl[p][source]
           first == kernel_translate_vaddr(p, r, o)
<1>0. /\ UNCHANGED kernelVars /\ ubyte' = ubyte /\ p \in alive
      /\ \A idx \in 0 .. n - 1 : user_access(p, source, o + idx) /\ kernel_access(p, r, o + idx)
      /\ kbyte' = [x \in DOMAIN kbyte |-> IF x \in first .. first + n - 1
                                         THEN ubyte[p][user_vaddr(p, source, o + x - first)] ELSE kbyte[x]]
  BY DEF libkmem_copy_from_user
<1>1. /\ HeapsInv /\ alive \subseteq Proc /\ symrgtbl' = symrgtbl /\ Symbols' = Symbols
      /\ rg \in Nodes /\ src \in Nodes /\ kpt \in SUBSET Nat /\ KBASE \in Nat
  BY <1>0, StoreKeeps, BoundsOf
<1>2. n - 1 \in 0 .. n - 1 /\ o + (n - 1) \in Nat
  BY SMTT(30)
<1>3. ~(rg.s < KBASE) /\ o + (n - 1) < rg.e - rg.s
  BY <1>0, <1>2, NotLow
<1>4. src.s < KBASE /\ o + (n - 1) < src.e - src.s
  BY <1>0, <1>2 DEF user_access
<1>5. first = rg.s + (o - KBASE)
  BY DEF kernel_translate_vaddr
<1>6. \A x : x \in DOMAIN kbyte =>
        kbyte'[x] = IF x \in first .. first + n - 1 THEN ubyte[p][src.s + (o + (x - first))] ELSE kbyte[x]
  BY <1>0 DEF user_vaddr
<1> HIDE DEF first
<1>7. ASSUME NEW q \in alive, NEW s \in Symbols, ~(symrgtbl[q][s].s < KBASE),
             NEW a \in Bytes(symrgtbl[q][s])
      PROVE  a \in Nat /\ a - KBASE \in DOMAIN kbyte
  <2>1. /\ symrgtbl[q][s] \in Nodes /\ symrgtbl[q][s].s >= KBASE /\ WithinPages(symrgtbl[q][s])
        /\ PagesOf(symrgtbl[q][s]) \subseteq kpt
    BY <1>7, KernelPlace
  <2>2. a \in Nat /\ a >= KBASE
    BY <1>1, <2>1, KernelByte
  <2>3. kernel_fpn_from_vaddr(a) \in kpt
    BY <2>1 DEF WithinPages
  <2>4. a - KBASE \in Physical(kpt)
    BY <1>1, <2>2, <2>3, PhysicalFrame
  <2> QED  BY <2>2, <2>4, BytesAt
<1>8. ASSUME NEW q \in alive, NEW s \in Changed(q)
      PROVE  q = p /\ s = r
  <2>1. q \in Proc /\ s \in Symbols
    BY <1>1, ChangedByte
  <2>2. ~(symrgtbl[q][s].s < KBASE)
    BY <1>0, <1>1, <2>1, ChangedByte
  <2>3. PICK a \in Bytes(symrgtbl[q][s]) : kbyte'[a - KBASE] # kbyte[a - KBASE]
    BY <1>1, <2>1, <2>2, ChangedByte
  <2>4. a \in Nat /\ a - KBASE \in DOMAIN kbyte
    BY <1>7, <2>1, <2>2
  <2>5. a - KBASE \in first .. first + n - 1
    BY <1>6, <2>3, <2>4
  <2>6. a \in Bytes(rg)
    <3> HIDE DEF rg
    <3> QED  BY <1>1, <1>3, <1>5, <2>4, <2>5, RunIn
  <2> QED  BY <1>0, <1>3, <2>1, <2>2, <2>3, <2>6, KernelApart
<1>9. ASSUME NEW i \in 0 .. rg.e - rg.s - 1
      PROVE  kbyte'[(rg.s + i) - KBASE] = IF i \in o .. o + n - 1 THEN ubyte[p][src.s + i]
                                          ELSE kbyte[(rg.s + i) - KBASE]
  <2> DEFINE x == (rg.s + i) - KBASE
  <2>1. rg.s + i \in Bytes(rg) /\ i \in Nat
    <3> HIDE DEF rg
    <3> QED  BY <1>1, OffsetOf
  <2>2. x \in DOMAIN kbyte
    BY <1>0, <1>3, <1>7, <2>1
  <2>3. /\ x \in first .. first + n - 1 <=> i \in o .. o + n - 1
        /\ src.s + (o + (x - first)) = src.s + i
    <3> DEFINE s == rg.s
               e == rg.e
               t == src.s
    <3>1. s \in Nat /\ e \in Nat /\ t \in Nat /\ first = s + (o - KBASE) /\ i \in Nat
      BY <1>1, <1>5, <2>1 DEF Nodes
    <3> HIDE DEF s, e, t
    <3>2. /\ (s + i) - KBASE \in first .. first + n - 1 <=> i \in o .. o + n - 1
          /\ t + (o + (((s + i) - KBASE) - first)) = t + i
      BY <1>1, <3>1, SMTT(30)
    <3> QED  BY <3>2 DEF s, e, t
  <2>4. kbyte'[x] = IF x \in first .. first + n - 1 THEN ubyte[p][src.s + (o + (x - first))] ELSE kbyte[x]
    BY <1>6, <2>2
  <2> HIDE DEF rg, src
  <2> QED  BY <2>3, <2>4
<1>10. Exact(p, r)
  <2>1. /\ Contents(p, r) = KernelBytes(kbyte, rg)
        /\ Contents(p, r)' = KernelBytes(kbyte', rg)
    BY <1>1, <1>3, ContentsAre
  <2>2. Contents(p, source) = UserBytes(ubyte[p], src)
    BY <1>1, <1>4, ContentsAre
  <2>3. source \in HeapSymbols(p) /\ r \notin HeapSymbols(p)
    BY <1>3, <1>4 DEF HeapSymbols
  <2> HIDE DEF rg, src
  <2>4. o + n <= rg.e - rg.s /\ o + n <= src.e - src.s
    <3> DEFINE s == rg.s
               e == rg.e
               t == src.s
               u == src.e
    <3>1. /\ s \in Nat /\ e \in Nat /\ t \in Nat /\ u \in Nat
          /\ o + (n - 1) < e - s /\ o + (n - 1) < u - t
      BY <1>1, <1>3, <1>4 DEF Nodes
    <3> HIDE DEF s, e, t, u
    <3>2. o + n <= e - s /\ o + n <= u - t
      BY <3>1, SMTT(30)
    <3> QED  BY <3>2 DEF s, e, t, u
  <2>5. TakenFrom(KernelBytes(kbyte, rg), KernelBytes(kbyte', rg), UserBytes(ubyte[p], src))
    BY <1>1, <1>9, <2>4, KernelTaken
  <2> QED  BY <2>1, <2>2, <2>3, <2>5 DEF Exact
<1> QED  BY <1>8, <1>10 DEF OnlyThis

\* libkmem_copy_to_user() changes one user region, by bytes of a kernel object.
LEMMA CopyToExact ==
  ASSUME RoomsInv, BytesInv, NEW p \in Proc, NEW source \in Symbols, NEW r \in Symbols,
         NEW o \in Nat, NEW n \in Nat \ {0}, libkmem_copy_to_user(p, source, r, o, n)
  PROVE  OnlyThis(p, r)
<1> DEFINE rg == symrgtbl[p][r]
           src == symrgtbl[p][source]
           first == user_vaddr(p, r, o)
           mem == [x \in DOMAIN ubyte[p] |-> IF x \in first .. first + n - 1
                     THEN kbyte[kernel_translate_vaddr(p, source, o + x - first)] ELSE ubyte[p][x]]
<1>0. /\ UNCHANGED kernelVars /\ kbyte' = kbyte /\ ubyte' = [ubyte EXCEPT ![p] = mem]
      /\ \A idx \in 0 .. n - 1 : kernel_access(p, source, o + idx) /\ user_access(p, r, o + idx)
  BY DEF libkmem_copy_to_user
<1>1. /\ HeapsInv /\ alive \subseteq Proc /\ symrgtbl' = symrgtbl /\ Symbols' = Symbols
      /\ rg \in Nodes /\ src \in Nodes /\ KBASE \in Nat
  BY <1>0, StoreKeeps, BoundsOf
<1>2. n - 1 \in 0 .. n - 1 /\ o + (n - 1) \in Nat
  BY SMTT(30)
<1>3. ~(src.s < KBASE) /\ o + (n - 1) < src.e - src.s
  BY <1>0, <1>2, NotLow
<1>4. rg.s < KBASE /\ o + (n - 1) < rg.e - rg.s
  BY <1>0, <1>2 DEF user_access
<1>5. first = rg.s + (o - 0)
  <2>1. o = o - 0
    BY SMTT(30)
  <2> QED  BY <2>1 DEF user_vaddr
<1>6. DOMAIN ubyte[p] = 0 .. sbrk[p] - 1
  BY BytesAt
<1>7. \A x : x \in 0 .. sbrk[p] - 1 =>
        mem[x] = IF x \in first .. first + n - 1 THEN kbyte[src.s + ((o + (x - first)) - KBASE)]
                 ELSE ubyte[p][x]
  BY <1>6 DEF kernel_translate_vaddr
<1>8. BytesOf(mem, 0 .. sbrk[p] - 1)
  BY <1>6 DEF BytesOf
<1> HIDE DEF first, mem
<1>9. ubyte'[p] = mem /\ \A q \in Proc : q # p => ubyte'[q] = ubyte[q]
  BY <1>0, <1>8, UserCopied
<1>10. ASSUME NEW s \in Symbols, symrgtbl[p][s].s < KBASE, NEW a \in Bytes(symrgtbl[p][s])
       PROVE  a \in 0 .. sbrk[p] - 1 /\ a \in Nat
  <2>1. a \in 0 .. sbrk[p] - 1
    BY <1>1, <1>10, UserPlace
  <2>2. sbrk[p] \in Nat
    BY <1>1 DEF HeapsInv, RegionsInv
  <2>3. a \in Nat
    BY <2>1, <2>2, SMTT(30)
  <2> QED  BY <2>1, <2>3
<1>11. ASSUME NEW q \in alive, NEW s \in Changed(q)
       PROVE  q = p /\ s = r
  <2>1. q \in Proc /\ s \in Symbols
    BY <1>1, ChangedByte
  <2>2. symrgtbl[q][s].s < KBASE
    BY <1>0, <1>1, <2>1, ChangedByte
  <2>3. PICK a \in Bytes(symrgtbl[q][s]) : ubyte'[q][a] # ubyte[q][a]
    BY <1>1, <2>1, <2>2, ChangedByte
  <2>4. q = p
    BY <1>9, <2>1, <2>3
  <2>5. a \in 0 .. sbrk[p] - 1 /\ a \in Nat
    BY <1>10, <2>1, <2>2, <2>4
  <2>6. a \in first .. first + n - 1
    BY <1>7, <1>9, <2>3, <2>4, <2>5
  <2>7. a - 0 \in first .. first + n - 1
    <3>1. a - 0 = a
      BY <2>5, SMTT(30)
    <3> QED  BY <2>6, <3>1
  <2>8. a \in Bytes(rg)
    <3> HIDE DEF rg
    <3>1. 0 \in Nat
      OBVIOUS
    <3> QED  BY <1>1, <1>4, <1>5, <2>5, <2>7, <3>1, RunIn
  <2>9. s = r
    BY <1>1, <1>4, <2>1, <2>2, <2>3, <2>4, <2>8, UserPlace
  <2> QED  BY <2>4, <2>9
<1>12. ASSUME NEW i \in 0 .. rg.e - rg.s - 1
       PROVE  ubyte'[p][rg.s + i] = IF i \in o .. o + n - 1 THEN kbyte[(src.s + i) - KBASE]
                                    ELSE ubyte[p][rg.s + i]
  <2> DEFINE x == rg.s + i
  <2>1. x \in Bytes(rg) /\ i \in Nat
    <3> HIDE DEF rg
    <3> QED  BY <1>1, OffsetOf
  <2>2. x \in 0 .. sbrk[p] - 1
    BY <1>4, <1>10, <2>1
  <2>3. /\ x \in first .. first + n - 1 <=> i \in o .. o + n - 1
        /\ src.s + ((o + (x - first)) - KBASE) = (src.s + i) - KBASE
    <3> DEFINE s == rg.s
               e == rg.e
               t == src.s
    <3>1. s \in Nat /\ e \in Nat /\ t \in Nat /\ first = s + (o - 0) /\ i \in Nat
      BY <1>1, <1>5, <2>1 DEF Nodes
    <3> HIDE DEF s, e, t
    <3>2. /\ s + i \in first .. first + n - 1 <=> i \in o .. o + n - 1
          /\ t + ((o + ((s + i) - first)) - KBASE) = (t + i) - KBASE
      BY <1>1, <3>1, SMTT(30)
    <3> QED  BY <3>2 DEF s, e, t
  <2>4. mem[x] = IF x \in first .. first + n - 1 THEN kbyte[src.s + ((o + (x - first)) - KBASE)]
                 ELSE ubyte[p][x]
    BY <1>7, <2>2
  <2> HIDE DEF rg, src
  <2> QED  BY <1>9, <2>3, <2>4
<1>13. Exact(p, r)
  <2>1. /\ Contents(p, r) = UserBytes(ubyte[p], rg)
        /\ Contents(p, r)' = UserBytes(ubyte'[p], rg)
    BY <1>1, <1>4, ContentsAre
  <2>2. Contents(p, source) = KernelBytes(kbyte, src)
    BY <1>1, <1>3, ContentsAre
  <2>3. source \notin HeapSymbols(p) /\ r \in HeapSymbols(p)
    BY <1>3, <1>4 DEF HeapSymbols
  <2> HIDE DEF rg, src
  <2>4. o + n <= rg.e - rg.s /\ o + n <= src.e - src.s
    <3> DEFINE s == rg.s
               e == rg.e
               t == src.s
               u == src.e
    <3>1. /\ s \in Nat /\ e \in Nat /\ t \in Nat /\ u \in Nat
          /\ o + (n - 1) < e - s /\ o + (n - 1) < u - t
      BY <1>1, <1>3, <1>4 DEF Nodes
    <3> HIDE DEF s, e, t, u
    <3>2. o + n <= e - s /\ o + n <= u - t
      BY <3>1, SMTT(30)
    <3> QED  BY <3>2 DEF s, e, t, u
  <2>5. TakenFrom(UserBytes(ubyte[p], rg), UserBytes(ubyte'[p], rg), KernelBytes(kbyte, src))
    BY <1>1, <1>12, <2>4, UserTaken
  <2> QED  BY <2>1, <2>2, <2>3, <2>5 DEF Exact
<1> QED  BY <1>11, <1>13 DEF OnlyThis

\* A step changes one object at most, and that as StoresAreExact says.
LEMMA ExactStep ==
  ASSUME RoomsInv, RoomsInv', BytesInv, OneSlotEach, [CopyNext]_copyVars
  PROVE  \/ \A q \in alive : Changed(q) = {}
         \/ \E p \in Proc, r \in Symbols : OnlyThis(p, r)
<1>0. HeapsInv
  BY DEF RoomsInv, OwnersInv, KernelInv
<1>1. CASE KernelNext /\ FreshBytes
  <2>1. Symbols' = Symbols
    BY <1>0, <1>1, StepKeepsHeaps
  <2> QED  BY <1>1, <2>1, FreshKeeps
<1>2. ASSUME NEW p \in Proc, store(p)
      PROVE  \E r \in Symbols : OnlyThis(p, r)
  <2>1. PICK r \in Symbols, o \in 0 .. bounds.copy - 1 :
          \/ \E data \in bounds.value : libwrite(p, r, o, data)
          \/ \E source \in Symbols, n \in 1 .. bounds.copy :
               \/ libkmem_copy_from_user(p, source, r, o, n)
               \/ libkmem_copy_to_user(p, source, r, o, n)
    BY <1>2 DEF store
  <2>2. bounds.copy \in Nat
    BY <1>0, CopyAssumption DEF HeapsInv, RegionsInv
  <2>3. o \in Nat /\ \A n \in 1 .. bounds.copy : n \in Nat \ {0}
    BY <2>2, SMTT(30)
  <2>4. ASSUME NEW data \in bounds.value, libwrite(p, r, o, data)
        PROVE  OnlyThis(p, r)
    BY <2>3, <2>4, WriteExact
  <2>5. ASSUME NEW source \in Symbols, NEW n \in 1 .. bounds.copy, libkmem_copy_from_user(p, source, r, o, n)
        PROVE  OnlyThis(p, r)
    BY <2>3, <2>5, CopyFromExact
  <2>6. ASSUME NEW source \in Symbols, NEW n \in 1 .. bounds.copy, libkmem_copy_to_user(p, source, r, o, n)
        PROVE  OnlyThis(p, r)
    BY <2>3, <2>6, CopyToExact
  <2> QED  BY <2>1, <2>4, <2>5, <2>6
<1>3. CASE UNCHANGED copyVars
  <2>1. UNCHANGED <<ubyte, kbyte>> /\ UNCHANGED kernelVars
    BY <1>3 DEF copyVars
  <2>2. Symbols' = Symbols /\ alive \subseteq Proc
    BY <2>1, StoreKeeps
  <2>3. ASSUME NEW q \in alive, NEW s \in Changed(q) PROVE FALSE
    BY <1>0, <2>1, <2>2, ChangedByte
  <2> QED  BY <2>3
<1> QED  BY <1>1, <1>2, <1>3 DEF CopyNext

\* The instructions that store, and those that hand out memory, change the bytes
\* of one object at most, in the way StoresAreExact says.
THEOREM StoresChangeOneObject == CopySpec => StoresAreExact
<1>1. CopySpec => [](strayed \/ RoomsInv)
  BY RoomsInvariant, CopyImplementsKernel, PTL
<1>2. CopySpec => []BytesInv
  BY InitBytes, BytesStep, PTL DEF CopySpec
<1> DEFINE A == ~strayed /\ OneSlotEach =>
       \A p \in alive \cap alive' : \A r \in Changed(p) :
         /\ \A q \in alive \cap alive' : \A s \in Changed(q) : q = p /\ s = r
         /\ \/ \E s \in Symbols : /\ s \in HeapSymbols(p) <=> r \notin HeapSymbols(p)
                                  /\ TakenFrom(Contents(p, r), Contents(p, r)', Contents(p, s))
            \/ /\ r \in HeapSymbols(p)
               /\ \E i \in DOMAIN Contents(p, r) : \A j \in DOMAIN Contents(p, r) \ {i} :
                    Contents(p, r)'[j] = Contents(p, r)[j]
<1>3. ASSUME strayed \/ RoomsInv, BytesInv, [CopyNext]_copyVars
      PROVE  A
  <2> SUFFICES ASSUME ~strayed, OneSlotEach
               PROVE  /\ \A p, q \in alive : \A r \in Changed(p), s \in Changed(q) : p = q /\ r = s
                      /\ \A p \in alive : \A r \in Changed(p) : Exact(p, r)
    BY DEF Exact
  <2>1. RoomsInv /\ HeapsInv
    BY <1>3 DEF RoomsInv, OwnersInv, KernelInv
  <2>2. [KernelNext]_kernelVars
    BY <1>3, CopyStepIsKernelStep
  <2>3. ASSUME NEW p \in alive PROVE ~LateSlot(p)
    <3>1. p \in Proc
      BY <2>1 DEF HeapsInv, RegionsInv
    <3> QED  BY <2>1, <3>1, NotSeveral, NotLate
  <2>4. ~strayed'
    BY <2>2, <2>3, Strays
  <2>5. RoomsInv'
    BY <2>1, <2>2, <2>4, RoomsStep
  <2> QED  BY <1>3, <2>1, <2>5, ExactStep DEF OnlyThis
<1> HIDE DEF A
<1>4. CopySpec => [][A]_copyVars
  BY <1>1, <1>2, <1>3, PTL DEF CopySpec
<1> QED  BY <1>4 DEF StoresAreExact, A
============================================================================
