--------------------------- MODULE PagingProofs ----------------------------
(***************************************************************************)
(* Proofs about Paging, for every set of processes, every number of CPUs,  *)
(* frames, swap slots and pages: however the threads interleave, a frame   *)
(* and a swap slot have one owner, and all of them come back.  With one    *)
(* CPU pages also keep their contents, and the FIFO lists are exact; both  *)
(* fail with two CPUs, as the run paging_race shows.                       *)
(***************************************************************************)
EXTENDS Paging, TLAPS

(***************************************************************************)
(* The operations of queue.c, and the lists built in the same way, on      *)
(* sequences without duplicates.                                           *)
(***************************************************************************)

\* enqueue() adds one element at the end and keeps the queue free of
\* duplicates if the element is new.
LEMMA EnqueueProperties ==
  ASSUME NEW S, NEW q \in Seq(S), NEW p \in S
  PROVE  /\ enqueue(q, p) \in Seq(S)
         /\ Len(enqueue(q, p)) = Len(q) + 1
         /\ Elements(enqueue(q, p)) = Elements(q) \cup {p}
         /\ NoDuplicates(q) /\ p \notin Elements(q) => NoDuplicates(enqueue(q, p))
<1> DEFINE e == enqueue(q, p)
<1>1. /\ e \in Seq(S) /\ Len(e) = Len(q) + 1
      /\ \A i \in 1 .. Len(q) : e[i] = q[i]
      /\ e[Len(q) + 1] = p
  BY DEF enqueue
<1>2. Elements(e) = Elements(q) \cup {p}
  <2>1. 1 .. Len(e) = (1 .. Len(q)) \cup {Len(q) + 1}
    BY <1>1
  <2>2. QED  BY <1>1, <2>1 DEF Elements
<1>3. ASSUME NoDuplicates(q), p \notin Elements(q) PROVE NoDuplicates(e)
  BY <1>1, <1>3 DEF NoDuplicates, Elements
<1> QED  BY <1>1, <1>2, <1>3

\* The shift loop of queue.c and of finish_proc() removes one position.
LEMMA ShiftOutProperties ==
  ASSUME NEW S, NEW q \in Seq(S), NEW i \in 1 .. Len(q)
  PROVE  /\ ShiftOut(q, i) \in Seq(S)
         /\ Len(ShiftOut(q, i)) = Len(q) - 1
         /\ NoDuplicates(q) => /\ NoDuplicates(ShiftOut(q, i))
                               /\ Elements(ShiftOut(q, i)) = Elements(q) \ {q[i]}
<1> DEFINE s == ShiftOut(q, i)
<1>1. /\ Len(q) \in Nat /\ Len(q) - 1 \in Nat
      /\ \A j \in 1 .. Len(q) : q[j] \in S
  OBVIOUS
<1>2. s \in [1 .. Len(q) - 1 -> S]
  BY <1>1 DEF ShiftOut
<1>3. s \in Seq(S) /\ Len(s) = Len(q) - 1
  BY <1>1, <1>2
<1>4. \A j \in 1 .. Len(q) - 1 : s[j] = IF j < i THEN q[j] ELSE q[j + 1]
  BY DEF ShiftOut
<1>5. ASSUME NoDuplicates(q) PROVE NoDuplicates(s)
  <2> SUFFICES ASSUME NEW j \in 1 .. Len(q) - 1, NEW k \in 1 .. Len(q) - 1, s[j] = s[k]
               PROVE  j = k
    BY <1>3 DEF NoDuplicates
  <2> QED  BY <1>1, <1>4, <1>5 DEF NoDuplicates
<1>6. ASSUME NoDuplicates(q) PROVE Elements(s) = Elements(q) \ {q[i]}
  <2>1. ASSUME NEW j \in 1 .. Len(q) - 1 PROVE s[j] \in Elements(q) \ {q[i]}
    <3>1. CASE j < i
      BY <1>1, <1>4, <1>6, <3>1 DEF NoDuplicates, Elements
    <3>2. CASE ~(j < i)
      <4>1. s[j] = q[j + 1] /\ j + 1 \in 1 .. Len(q) /\ j + 1 # i
        BY <1>1, <1>4, <3>2
      <4>2. QED  BY <1>6, <4>1 DEF NoDuplicates, Elements
    <3> QED  BY <3>1, <3>2
  <2>2. ASSUME NEW k \in 1 .. Len(q), q[k] # q[i]
        PROVE  \E j \in 1 .. Len(q) - 1 : s[j] = q[k]
    <3>1. CASE k < i
      <4>1. k \in 1 .. Len(q) - 1 /\ s[k] = q[k]
        BY <1>1, <1>4, <3>1
      <4> QED  BY <4>1
    <3>2. CASE k > i
      <4>1. k - 1 \in 1 .. Len(q) - 1 /\ ~(k - 1 < i) /\ (k - 1) + 1 = k
        BY <1>1, <3>2
      <4>2. s[k - 1] = q[k]
        BY <1>4, <4>1
      <4> QED  BY <4>1, <4>2
    <3> QED  BY <2>2, <3>1, <3>2
  <2>3. Elements(s) = {s[j] : j \in 1 .. Len(q) - 1}
    BY <1>3 DEF Elements
  <2> HIDE DEF s
  <2>4. ASSUME NEW x \in Elements(s) PROVE x \in Elements(q) \ {q[i]}
    BY <2>1, <2>3
  <2>5. ASSUME NEW x \in Elements(q), x # q[i] PROVE x \in Elements(s)
    <3>1. PICK k \in 1 .. Len(q) : x = q[k]
      BY DEF Elements
    <3> QED  BY <2>2, <2>3, <2>5, <3>1
  <2> QED  BY <2>4, <2>5
<1> QED  BY <1>3, <1>5, <1>6

\* purgequeue() removes the one occurrence of p, or does nothing.
LEMMA PurgeProperties ==
  ASSUME NEW S, NEW q \in Seq(S), NEW p, NoDuplicates(q)
  PROVE  /\ purgequeue(q, p) \in Seq(S)
         /\ Len(purgequeue(q, p)) <= Len(q)
         /\ NoDuplicates(purgequeue(q, p))
         /\ Elements(purgequeue(q, p)) = Elements(q) \ {p}
<1>1. CASE p \notin Elements(q)
  BY <1>1 DEF purgequeue
<1>2. CASE p \in Elements(q)
  <2> DEFINE i == CHOOSE k \in 1 .. Len(q) : FirstAt(q, p, k)
  <2>1. PICK k \in 1 .. Len(q) : q[k] = p
    BY <1>2 DEF Elements
  <2>2. FirstAt(q, p, k)
    BY <2>1 DEF FirstAt, NoDuplicates
  <2>3. i \in 1 .. Len(q) /\ q[i] = p
    BY <2>2 DEF FirstAt
  <2>4. purgequeue(q, p) = ShiftOut(q, i)
    BY <1>2 DEF purgequeue
  <2> HIDE DEF i
  <2>5. /\ ShiftOut(q, i) \in Seq(S)
        /\ Len(ShiftOut(q, i)) = Len(q) - 1
        /\ NoDuplicates(ShiftOut(q, i))
        /\ Elements(ShiftOut(q, i)) = Elements(q) \ {q[i]}
    BY <2>3, ShiftOutProperties
  <2> QED  BY <2>3, <2>4, <2>5
<1> QED  BY <1>1, <1>2

\* Taking the first element off a list, as release_frame_list() and
\* vmap_page_range() do.
LEMMA TailProperties ==
  ASSUME NEW S, NEW q \in Seq(S), q # << >>
  PROVE  /\ Head(q) \in S /\ Head(q) \in Elements(q)
         /\ Tail(q) \in Seq(S)
         /\ Len(Tail(q)) = Len(q) - 1
         /\ Len(q) \in Nat \ {0}
         /\ Elements(q) = Elements(Tail(q)) \cup {Head(q)}
         /\ NoDuplicates(q) => NoDuplicates(Tail(q)) /\ Head(q) \notin Elements(Tail(q))
<1> DEFINE t == Tail(q)
<1>1. /\ Len(q) \in Nat \ {0} /\ t \in Seq(S) /\ Len(t) = Len(q) - 1
      /\ Head(q) = q[1] /\ \A i \in 1 .. Len(q) : q[i] \in S
      /\ \A i \in 1 .. Len(q) - 1 : t[i] = q[i + 1]
  OBVIOUS
<1> HIDE DEF t
<1>2. ASSUME NEW x \in Elements(t) PROVE \E i \in 2 .. Len(q) : q[i] = x
  <2>1. PICK i \in 1 .. Len(q) - 1 : x = t[i]
    BY <1>1 DEF Elements
  <2>2. i + 1 \in 2 .. Len(q) /\ q[i + 1] = x
    BY <1>1, <2>1
  <2> QED  BY <2>2
<1>3. ASSUME NEW i \in 1 .. Len(q), i # 1 PROVE q[i] \in Elements(t)
  <2>1. i - 1 \in 1 .. Len(t) /\ (i - 1) + 1 = i
    BY <1>1, <1>3
  <2>2. t[i - 1] = q[i]
    BY <1>1, <2>1
  <2> QED  BY <2>1, <2>2 DEF Elements
<1>4. Elements(q) = Elements(t) \cup {Head(q)}
  <2>1. Elements(t) \cup {Head(q)} \subseteq Elements(q)
    BY <1>1, <1>2 DEF Elements
  <2>2. Elements(q) \subseteq Elements(t) \cup {Head(q)}
    BY <1>1, <1>3 DEF Elements
  <2> QED  BY <2>1, <2>2
<1>5. ASSUME NoDuplicates(q) PROVE NoDuplicates(t) /\ Head(q) \notin Elements(t)
  <2>1. NoDuplicates(t)
    BY <1>1, <1>5 DEF NoDuplicates
  <2>2. Head(q) \notin Elements(t)
    BY <1>1, <1>2, <1>5 DEF NoDuplicates
  <2> QED  BY <2>1, <2>2
<1> QED  BY <1>1, <1>4, <1>5 DEF t

----------------------------------------------------------------------------
(***************************************************************************)
(* The invariant.                                                          *)
(***************************************************************************)

\* Where a thread holds queue_lock, a slot it has taken, a frame it took from a
\* victim, and where it searches for a frame or swaps a page in.
LockedPcs == {"victim_read", "victim_detach", "swap_copy", "pte_clear", "pte_swap"}
SlotPcs   == LockedPcs \cup {"victim_lock", "put_slot"}
SwapPcs   == SlotPcs \cup {"slot"}
InPcs     == {"in_copy", "in_free", "in_set"}
FramePcs  == InPcs \cup {"pte_swap"}
VictimPcs == {"swap_copy", "pte_clear", "pte_swap"}
MapPcs    == {"map", "enlist_read", "enlist_write"}
AwayPcs   == {"new", "collect_lock", "collect", "dead"}

\* queue_lock is held by the thread that is between taking and releasing it.
QueueLocked == \A p \in Proc : pc[p] \in LockedPcs <=> queue_lock = p

\* The instruction a thread is in and the frames it has in its hands fit the place
\* where it is.  The frames are different from each other and from the one it is
\* about to get from a victim.
ThreadFits(p) ==
  /\ pc[p] \in {"frame", "release", "map"} => inst[p].op = "inc"
  /\ pc[p] \in {"lock", "pte", "fpn", "mem"} \cup InPcs => inst[p].op \in {"read", "write"}
  /\ pc[p] \in AwayPcs \cup {"idle"} => inst[p].op = "none"
  /\ pc[p] \in SwapPcs \cup {"enlist_read", "enlist_write"} => inst[p].op # "none"
  /\ inst[p].op \in {"read", "write"} => inst[p].pgn \in Page
  /\ inst[p].op = "inc" => inst[p].n \in 1 .. sbrk[p] /\ Len(hand[p]) <= inst[p].n
  /\ inst[p].op = "inc" /\ pc[p] # "map" /\ pc[p] # "release" => Len(hand[p]) < inst[p].n
  /\ inst[p].op # "inc" => hand[p] = << >>
  /\ pc[p] = "map" => hand[p] # << >>
  /\ NoDuplicates(hand[p])
  /\ pc[p] = "pte_swap" => fpn[p] \notin Elements(hand[p])
  /\ pc[p] \in FramePcs => fpn[p] \in Frame
  /\ pc[p] \in SlotPcs => swpfpn[p] \in Slot

\* The processes known to the search for a victim are not on their way out, and
\* the list it has read is not emptied before it takes the last node off.
ListsStay ==
  /\ NoDuplicates(running_list)
  /\ \A p \in Elements(running_list) : pc[p] \notin AwayPcs
  /\ \A p \in Proc :
       pc[p] = "victim_detach" =>
         idx[p] <= Len(running_list) /\ fifo[Searched(p)] # << >>

\* The first page of a process that has never had a frame.
FirstNew(p) ==
  IF inst[p].op # "inc" THEN sbrk[p]
  ELSE IF pc[p] \in MapPcs THEN NextPage(p)
  ELSE sbrk[p] - inst[p].n

\* Nobody changes an entry another thread relies on: new pages are not mapped
\* before their owner maps them, and a page on its way in stays swapped ...
TablesFit ==
  \A p \in Proc :
    /\ \A g \in Page : g >= FirstNew(p) => pt[p][g] = None
    /\ inst[p].op \in {"read", "write"} /\ pc[p] \in SwapPcs \cup InPcs =>
         pt[p][inst[p].pgn].st = "swapped"
    /\ pc[p] = "dead" => \A g \in Page : pt[p][g] = None

\* ... and a victim stays where it was until its entry is changed.
VictimFits(p) ==
  pc[p] \in VictimPcs =>
    /\ vic[p][1] = p \/ vic[p][1] \in Elements(running_list)
    /\ vic[p][2] \in Page
    /\ pc[p] # "pte_swap" => Maps(vic[p][1], vic[p][2], fpn[p])
    /\ pc[p] = "pte_swap" => /\ pt[vic[p][1]][vic[p][2]] = None
                             /\ vic[p][2] < FirstNew(vic[p][1])

PagingInv ==
  /\ PagingTypeOK /\ QueueLocked /\ ListsStay /\ TablesFit
  /\ \A p \in Proc : ThreadFits(p) /\ VictimFits(p)
  /\ FrameHasOneOwner /\ SlotHasOneOwner

\* A step of the thread of p leaves the locals of the others alone.
OthersStay(p) ==
  \A q \in Proc \ {p} :
    /\ pc'[q] = pc[q] /\ inst'[q] = inst[q] /\ sbrk'[q] = sbrk[q]
    /\ hand'[q] = hand[q] /\ fpn'[q] = fpn[q] /\ swpfpn'[q] = swpfpn[q]
    /\ vic'[q] = vic[q] /\ idx'[q] = idx[q]
----------------------------------------------------------------------------
USE ZenonT(30)
USE DEF At, goto, freeVars, dataVars, tableVars, lockVars, swapVars, localVars,
        LockedPcs, SlotPcs, SwapPcs, InPcs, FramePcs, VictimPcs, MapPcs, AwayPcs

\* What a step may use of the invariant, and what it has to show of it afterwards:
\* the two are cited where PagingInv would otherwise be unfolded.
LEMMA InvGives ==
  ASSUME PagingInv
  PROVE  /\ PagingTypeOK /\ QueueLocked /\ ListsStay /\ TablesFit
         /\ \A p \in Proc : ThreadFits(p) /\ VictimFits(p)
         /\ FrameHasOneOwner /\ SlotHasOneOwner
BY DEF PagingInv

\* The invariant after a step.
LEMMA InvFollows ==
  ASSUME PagingTypeOK', QueueLocked', ListsStay', TablesFit',
         \A p \in Proc : ThreadFits(p)' /\ VictimFits(p)',
         FrameHasOneOwner', SlotHasOneOwner'
  PROVE  PagingInv'
BY DEF PagingInv

\* Entries of the three kinds differ, and tell what they hold.
LEMMA PteFacts ==
  /\ None.st = "none" /\ None \in Pte
  /\ \A f \in Frame : Present(f).st = "present" /\ Present(f).n = f /\ Present(f) \in Pte
  /\ \A s \in Slot : Swapped(s).st = "swapped" /\ Swapped(s).n = s /\ Swapped(s) \in Pte
  /\ \A e \in Pte : /\ e.st \in {"none", "present", "swapped"}
                    /\ e.st = "none" => e = None
                    /\ e.st = "present" => e = Present(e.n) /\ e.n \in Frame
                    /\ e.st = "swapped" => e = Swapped(e.n) /\ e.n \in Slot
<1>1. None.st = "none" /\ None \in Pte
  BY DEF None, Pte
<1>2. ASSUME NEW f \in Frame
      PROVE  Present(f).st = "present" /\ Present(f).n = f /\ Present(f) \in Pte
  BY DEF Present, Pte
<1>3. ASSUME NEW s \in Slot
      PROVE  Swapped(s).st = "swapped" /\ Swapped(s).n = s /\ Swapped(s) \in Pte
  BY DEF Swapped, Pte
<1>4. ASSUME NEW e \in Pte
      PROVE  /\ e.st \in {"none", "present", "swapped"}
             /\ e.st = "none" => e = None
             /\ e.st = "present" => e = Present(e.n) /\ e.n \in Frame
             /\ e.st = "swapped" => e = Swapped(e.n) /\ e.n \in Slot
  BY SMTT(30) DEF Pte, None, Present, Swapped
<1> QED  BY <1>1, <1>2, <1>3, <1>4

\* What an entry holds is a number.
LEMMA PteNumber ==
  \A e \in Pte : e.n \in Nat
<1>1. None.n \in Nat
  BY DEF None
<1>2. \A f \in Frame : f \in Nat
  BY PagingAssumption, SMTT(30) DEF Frame, Frames
<1>3. \A s \in Slot : s \in Nat
  BY PagingAssumption, SMTT(30) DEF Slot, Frames
<1> QED  BY <1>1, <1>2, <1>3, PteFacts

\* A step that moves no frame: the lists, the tables and the frames in hand stay.
LEMMA FramesStay ==
  ASSUME FrameHasOneOwner, ram_free' = ram_free,
         \A q \in Proc, f \in Frame : Holds(q, f)' <=> Holds(q, f),
         \A q \in Proc, g \in Page, f \in Frame : Maps(q, g, f)' <=> Maps(q, g, f)
  PROVE  FrameHasOneOwner'
BY SMTT(30) DEF FrameHasOneOwner

\* The same for the slots of the swap device.
LEMMA SlotsStay ==
  ASSUME SlotHasOneOwner, swp_free' = swp_free,
         \A q \in Proc, s \in Slot : HoldsSlot(q, s)' <=> HoldsSlot(q, s),
         \A q \in Proc, g \in Page, s \in Slot : SwappedTo(q, g, s)' <=> SwappedTo(q, g, s)
  PROVE  SlotHasOneOwner'
BY SMTT(30) DEF SlotHasOneOwner

\* What a thread relies on about itself, if nothing of it changes.
LEMMA ThreadStays ==
  ASSUME PagingInv, NEW p \in Proc, OthersStay(p)
  PROVE  \A q \in Proc \ {p} : ThreadFits(q)' /\ FirstNew(q)' = FirstNew(q)
<1> SUFFICES ASSUME NEW q \in Proc \ {p} PROVE ThreadFits(q)' /\ FirstNew(q)' = FirstNew(q)
  OBVIOUS
<1>1. /\ pc'[q] = pc[q] /\ inst'[q] = inst[q] /\ sbrk'[q] = sbrk[q]
      /\ hand'[q] = hand[q] /\ fpn'[q] = fpn[q] /\ swpfpn'[q] = swpfpn[q]
  BY DEF OthersStay
<1>2. ThreadFits(q)
  BY InvGives
<1>3. ThreadFits(q)'
  BY <1>1, <1>2 DEF ThreadFits
<1>4. FirstNew(q)' = FirstNew(q)
  BY <1>1 DEF FirstNew, NextPage
<1> QED  BY <1>3, <1>4

\* What a table of a process holds for a page is an entry.
LEMMA EntryIsPte ==
  ASSUME PagingInv, NEW p \in Proc, NEW g \in Page
  PROVE  pt[p][g] \in Pte
<1>1. pt \in [Proc -> [Page -> Pte]]
  BY InvGives DEF PagingTypeOK
<1> QED  BY <1>1, SMTT(30)

\* Pages are numbered by integers, before and after a step.
LEMMA FirstNewIsInt ==
  ASSUME PagingTypeOK, PagingTypeOK', NEW p \in Proc
  PROVE  FirstNew(p) \in Int /\ FirstNew(p)' \in Int
<1>1. sbrk[p] \in 0 .. MaxPages /\ inst[p].n \in Nat /\ hand[p] \in Seq(Frame)
  BY DEF PagingTypeOK, Inst
<1>2. sbrk'[p] \in 0 .. MaxPages /\ inst'[p].n \in Nat /\ hand'[p] \in Seq(Frame)
  BY DEF PagingTypeOK, Inst
<1>3. FirstNew(p) \in Int
  BY <1>1, PagingAssumption, SMTT(30) DEF FirstNew, NextPage
<1>4. FirstNew(p)' \in Int
  BY <1>2, PagingAssumption, SMTT(30) DEF FirstNew, NextPage
<1> QED  BY <1>3, <1>4

\* A step outside the search for a victim that changes no entry but those nobody
\* else relies on: what the threads rely on is still true.
LEMMA VictimsStay ==
  ASSUME PagingInv, NEW p \in Proc, OthersStay(p), running_list' = running_list,
         PagingTypeOK', pc'[p] \notin VictimPcs,
         pc[p] \in AwayPcs \/ FirstNew(p) <= FirstNew(p)',
         \A v \in Proc, g \in Page :
           \/ pt'[v][g] = pt[v][g]
           \/ v = p /\ (pt[p][g].st = "swapped" \/ g >= FirstNew(p) \/ pc[p] \in AwayPcs)
  PROVE  \A q \in Proc : VictimFits(q)'
<1> SUFFICES ASSUME NEW q \in Proc, pc'[q] \in VictimPcs PROVE VictimFits(q)'
  BY DEF VictimFits
<1>1. /\ q # p /\ pc'[q] = pc[q] /\ vic'[q] = vic[q] /\ fpn'[q] = fpn[q]
  BY DEF OthersStay
<1>2. VictimFits(q) /\ vic[q][1] \in Proc /\ vic[q][2] \in Nat
  BY InvGives DEF PagingTypeOK
<1> DEFINE v == vic[q][1]
           g == vic[q][2]
<1>3. g \in Page /\ (v = q \/ v \in Elements(running_list))
  BY <1>1, <1>2 DEF VictimFits
<1>4. pt[v][g] \in Pte /\ (pc[q] = "pte_swap" => pt[v][g] = None)
  <2>1. pt \in [Proc -> [Page -> Pte]]
    BY InvGives DEF PagingTypeOK
  <2>2. pc[q] = "pte_swap" => pt[v][g] = None
    BY <1>1, <1>2 DEF VictimFits
  <2> QED  BY <1>2, <1>3, <2>1, <2>2
<1>5. pc[q] # "pte_swap" => Maps(v, g, fpn[q])
  BY <1>1, <1>2 DEF VictimFits
<1>6. /\ pt[v][g].st # "swapped"
      /\ pc[q] # "pte_swap" => pt[v][g] # None
  BY <1>4, <1>5, PteFacts, SMTT(30) DEF Maps, Present, None
<1>7. v = p => pc[p] \notin AwayPcs
  BY <1>1, <1>3, InvGives DEF ListsStay
<1>8. \A r \in Proc :
        /\ FirstNew(r) \in Int /\ FirstNew(r)' \in Int
        /\ (r = p => pc[p] \notin AwayPcs) => FirstNew(r) <= FirstNew(r)'
  BY FirstNewIsInt, ThreadStays, InvGives, SMTT(30)
<1>9. v = p => g < FirstNew(p)
  <2>1. pc[q] = "pte_swap" => g < FirstNew(v)
    BY <1>1, <1>2 DEF VictimFits
  <2>2. pc[q] # "pte_swap" /\ v = p => ~(g >= FirstNew(p))
    BY <1>3, <1>6, InvGives, SMTT(30) DEF TablesFit
  <2> QED  BY <1>3, <1>8, <2>1, <2>2, SMTT(30) DEF Page
<1>10. pt'[v][g] = pt[v][g]
  BY <1>2, <1>3, <1>6, <1>7, <1>8, <1>9, SMTT(30) DEF Page
<1>11. g \in Int
  BY <1>2, SMTT(30)
<1> QED  BY <1>1, <1>2, <1>7, <1>8, <1>10, <1>11, SMTT(30) DEF VictimFits, Maps

\* The search for a victim visits processes, and nobody else is in running_list.
LEMMA SearchedIsProc ==
  ASSUME PagingTypeOK
  PROVE  /\ Elements(running_list) \subseteq Proc
         /\ \A p \in Proc :
              idx[p] <= Len(running_list) =>
                /\ Searched(p) \in Proc
                /\ Searched(p) = p \/ Searched(p) \in Elements(running_list)
<1>1. running_list \in Seq(Proc) /\ idx \in [Proc -> Nat]
  BY DEF PagingTypeOK
<1>2. \A i \in 1 .. Len(running_list) : running_list[i] \in Proc
  BY <1>1, SMTT(30)
<1> QED  BY <1>1, <1>2, SMTT(30) DEF Elements, Searched

\* A step that changes no entry, and what it leaves alone: the tables, ...
LEMMA TablesStill ==
  ASSUME PagingInv, NEW p \in Proc, OthersStay(p), PagingTypeOK', pt' = pt,
         FirstNew(p) <= FirstNew(p)' \/ \A g \in Page : pt[p][g] = None,
         pc'[p] \in SwapPcs \cup InPcs /\ inst'[p].op \in {"read", "write"} =>
           pt[p][inst'[p].pgn].st = "swapped",
         pc'[p] = "dead" => \A g \in Page : pt[p][g] = None
  PROVE  TablesFit'
<1>1. \A q \in Proc : /\ FirstNew(q) \in Int /\ FirstNew(q)' \in Int
                      /\ q # p => FirstNew(q)' = FirstNew(q)
  BY ThreadStays, FirstNewIsInt, InvGives
<1>2. \A q \in Proc, g \in Page : g >= FirstNew(q)' => pt[q][g] = None
  BY <1>1, InvGives, SMTT(30) DEF TablesFit, Page
<1>3. \A q \in Proc : q # p => inst'[q] = inst[q] /\ pc'[q] = pc[q]
  BY DEF OthersStay
<1> QED  BY <1>2, <1>3, InvGives, SMTT(30) DEF TablesFit

\* ... the owners of the frames, if p has the same in its hands, ...
LEMMA FramesStill ==
  ASSUME PagingInv, NEW p \in Proc, OthersStay(p), ram_free' = ram_free, pt' = pt,
         hand'[p] = hand[p], pc[p] \in FramePcs <=> pc'[p] \in FramePcs,
         pc[p] \in FramePcs => fpn'[p] = fpn[p]
  PROVE  FrameHasOneOwner'
<1>1. \A q \in Proc, f \in Frame : Holds(q, f)' <=> Holds(q, f)
  BY DEF OthersStay, Holds
<1>2. \A q \in Proc, g \in Page, f \in Frame : Maps(q, g, f)' <=> Maps(q, g, f)
  BY DEF Maps
<1> QED  BY <1>1, <1>2, FramesStay, InvGives

\* ... and the owners of the slots.
LEMMA SlotsStill ==
  ASSUME PagingInv, NEW p \in Proc, OthersStay(p), swp_free' = swp_free, pt' = pt,
         pc[p] \in SlotPcs <=> pc'[p] \in SlotPcs, pc[p] \in SlotPcs => swpfpn'[p] = swpfpn[p],
         pc[p] # "in_set", pc'[p] # "in_set"
  PROVE  SlotHasOneOwner'
<1>1. \A q \in Proc, s \in Slot : HoldsSlot(q, s)' <=> HoldsSlot(q, s)
  BY DEF OthersStay, HoldsSlot
<1>2. \A q \in Proc, g \in Page, s \in Slot : SwappedTo(q, g, s)' <=> SwappedTo(q, g, s)
  BY DEF OthersStay, SwappedTo
<1> QED  BY <1>1, <1>2, SlotsStay, InvGives

\* A step that moves no frame, no slot and no entry.
LEMMA StillStep ==
  ASSUME PagingInv, NEW p \in Proc, OthersStay(p), PagingTypeOK', ThreadFits(p)', QueueLocked',
         ListsStay', \A q \in Proc : VictimFits(q)',
         UNCHANGED <<ram_free, swp_free, pt>>, hand'[p] = hand[p],
         pc[p] \in FramePcs <=> pc'[p] \in FramePcs, pc[p] \in FramePcs => fpn'[p] = fpn[p],
         pc[p] \in SlotPcs <=> pc'[p] \in SlotPcs, pc[p] \in SlotPcs => swpfpn'[p] = swpfpn[p],
         pc[p] # "in_set", pc'[p] # "in_set",
         FirstNew(p) <= FirstNew(p)' \/ \A g \in Page : pt[p][g] = None,
         pc'[p] \in SwapPcs \cup InPcs /\ inst'[p].op \in {"read", "write"} =>
           pt[p][inst'[p].pgn].st = "swapped",
         pc'[p] = "dead" => \A g \in Page : pt[p][g] = None
  PROVE  PagingInv'
<1>1. TablesFit'
  BY TablesStill
<1>2. \A q \in Proc : ThreadFits(q)'
  BY ThreadStays
<1>3. FrameHasOneOwner'
  BY FramesStill
<1>4. SlotHasOneOwner'
  BY SlotsStill
<1> QED  BY <1>1, <1>2, <1>3, <1>4, InvGives, InvFollows

\* The search for a victim goes on as before if p is not in it and stays where it
\* is known, and no list is emptied.
LEMMA ListsStill ==
  ASSUME PagingInv, NEW p \in Proc, OthersStay(p), running_list' = running_list,
         \A q \in Proc : pc[q] \notin AwayPcs /\ fifo[q] # << >> => fifo'[q] # << >>,
         pc'[p] # "victim_detach", pc[p] \notin AwayPcs => pc'[p] \notin AwayPcs
  PROVE  ListsStay'
<1>1. \A q \in Elements(running_list) : q \in Proc /\ pc'[q] \notin AwayPcs
  BY SearchedIsProc, InvGives DEF ListsStay, OthersStay
<1>2. ASSUME NEW q \in Proc, pc'[q] = "victim_detach"
      PROVE  idx'[q] <= Len(running_list) /\ fifo'[Searched(q)'] # << >>
  <2>1. q # p /\ pc[q] = "victim_detach" /\ idx'[q] = idx[q]
    BY <1>2 DEF OthersStay
  <2>2. Searched(q)' = Searched(q)
    BY <2>1 DEF Searched
  <2>3. Searched(q) \in Proc /\ pc[Searched(q)] \notin AwayPcs
    BY <2>1, SearchedIsProc, InvGives DEF ListsStay
  <2> QED  BY <2>1, <2>2, <2>3, InvGives DEF ListsStay
<1> QED  BY <1>1, <1>2, InvGives DEF ListsStay

\* A step outside all this, of a thread that stays in the system and takes no list
\* away.
LEMMA QuietStep ==
  ASSUME PagingInv, NEW p \in Proc, OthersStay(p), PagingTypeOK', ThreadFits(p)',
         UNCHANGED <<ram_free, swp_free, pt, running_list, queue_lock>>,
         hand'[p] = hand[p],
         \A q \in Proc : fifo[q] # << >> => fifo'[q] # << >>,
         pc[p] \notin SlotPcs \cup InPcs \cup AwayPcs,
         pc'[p] \notin SlotPcs \cup InPcs \cup AwayPcs,
         FirstNew(p) <= FirstNew(p)',
         pc'[p] = "slot" /\ inst'[p].op \in {"read", "write"} =>
           pt[p][inst'[p].pgn].st = "swapped"
  PROVE  PagingInv'
<1>1. QueueLocked'
  BY InvGives DEF QueueLocked, OthersStay
<1>2. ListsStay'
  BY ListsStill
<1>3. \A q \in Proc : VictimFits(q)'
  BY VictimsStay
<1> QED  BY <1>1, <1>2, <1>3, StillStep

\* An instruction that returns leaves its thread idle.
LEMMA ReturnFacts ==
  ASSUME PagingTypeOK, NEW p \in Proc, Return(p)
  PROVE  /\ pc' \in [Proc -> Pcs] /\ pc'[p] = "idle"
         /\ inst' \in [Proc -> Inst] /\ inst'[p].op = "none"
         /\ mmvm_lock' \in Proc \cup {NULL}
         /\ \A q \in Proc \ {p} : pc'[q] = pc[q] /\ inst'[q] = inst[q]
<1>1. NoInst \in Inst /\ NoInst.op = "none"
  BY DEF NoInst, Inst
<1>2. pc' = [pc EXCEPT ![p] = "idle"] /\ inst' = [inst EXCEPT ![p] = NoInst]
  BY DEF Return
<1>3. pc \in [Proc -> Pcs] /\ inst \in [Proc -> Inst] /\ "idle" \in Pcs
  BY DEF PagingTypeOK, Pcs
<1>4. mmvm_lock' \in Proc \cup {NULL}
  BY DEF Return, PagingTypeOK
<1> QED  BY <1>1, <1>2, <1>3, <1>4

\* Nobody else is past the lock when p is, and nobody at all when it is free.
LEMMA OneSearches ==
  ASSUME PagingInv
  PROVE  /\ queue_lock = NULL => \A q \in Proc : pc[q] \notin LockedPcs
         /\ \A p, q \in Proc : pc[p] \in LockedPcs /\ pc[q] \in LockedPcs => p = q
BY PagingAssumption, InvGives DEF QueueLocked

\* A thread that changes only its place, between places where nothing is held.
LEMMA PlaceChanges ==
  ASSUME PagingInv, NEW p \in Proc, NEW l \in Pcs, pc' = [pc EXCEPT ![p] = l],
         UNCHANGED <<inst, hand, sbrk, fpn, swpfpn, vic, idx>>
  PROVE  /\ pc' \in [Proc -> Pcs] /\ pc'[p] = l
         /\ OthersStay(p)
         /\ (pc[p] \in MapPcs <=> l \in MapPcs) => FirstNew(p)' = FirstNew(p)
<1>1. pc \in [Proc -> Pcs]
  BY InvGives DEF PagingTypeOK
<1>2. OthersStay(p)
  BY <1>1 DEF OthersStay
<1>3. (pc[p] \in MapPcs <=> l \in MapPcs) => FirstNew(p)' = FirstNew(p)
  BY <1>1 DEF FirstNew, NextPage
<1> QED  BY <1>1, <1>2, <1>3

\* The entry of the page a thread is bringing in.
LEMMA PageComingIn ==
  ASSUME PagingInv, NEW p \in Proc, pc[p] \in InPcs
  PROVE  /\ inst[p].op \in {"read", "write"} /\ inst[p].pgn \in Page
         /\ pt[p][inst[p].pgn] = Swapped(req_swpoff(p)) /\ req_swpoff(p) \in Slot
         /\ fpn[p] \in Frame /\ hand[p] = << >>
<1>1. /\ inst[p].op \in {"read", "write"} /\ inst[p].pgn \in Page
      /\ fpn[p] \in Frame /\ hand[p] = << >>
  BY InvGives DEF ThreadFits
<1>2. pt[p][inst[p].pgn] \in Pte /\ pt[p][inst[p].pgn].st = "swapped"
  BY <1>1, InvGives DEF PagingTypeOK, TablesFit
<1> QED  BY <1>1, <1>2, PteFacts DEF req_swpoff

(***************************************************************************)
(* A slot or a frame moves.                                                *)
(***************************************************************************)

\* The owner of slot s, as SlotHasOneOwner has it.
SlotOwned(s) ==
  /\ swp_free[s] \in {0, 1}
  /\ swp_free[s] = 1 => \A p \in Proc : ~HoldsSlot(p, s) /\ \A g \in Page : ~SwappedTo(p, g, s)
  /\ swp_free[s] = 0 => \E p \in Proc : HoldsSlot(p, s) \/ \E g \in Page : SwappedTo(p, g, s)
  /\ \A p, q \in Proc : HoldsSlot(p, s) /\ HoldsSlot(q, s) => p = q
  /\ \A p, q \in Proc, g \in Page : ~(HoldsSlot(p, s) /\ SwappedTo(q, g, s))
  /\ \A p, q \in Proc, g, h \in Page : SwappedTo(p, g, s) /\ SwappedTo(q, h, s) => p = q /\ g = h

\* It is enough to look at the slot that moves.
LEMMA SlotMoves ==
  ASSUME SlotHasOneOwner, NEW t \in Slot, SlotOwned(t)',
         \A s \in Slot \ {t} :
           /\ swp_free'[s] = swp_free[s]
           /\ \A q \in Proc : HoldsSlot(q, s)' <=> HoldsSlot(q, s)
           /\ \A q \in Proc, g \in Page : SwappedTo(q, g, s)' <=> SwappedTo(q, g, s)
  PROVE  SlotHasOneOwner'
<1> SUFFICES ASSUME NEW s \in Slot PROVE SlotOwned(s)'
  BY DEF SlotHasOneOwner, SlotOwned
<1>1. CASE s = t
  BY <1>1
<1>2. CASE s # t
  <2>1. SlotOwned(s)
    BY DEF SlotHasOneOwner, SlotOwned
  <2> QED  BY <1>2, <2>1, SMTT(30) DEF SlotOwned
<1> QED  BY <1>1, <1>2

\* A slot that comes back to the list was not in it.
LEMMA SlotComesBack ==
  ASSUME PagingInv, NEW t \in Slot, swp_free' = MEMPHY_put_freefp(swp_free, t),
         \E p \in Proc : HoldsSlot(p, t) \/ \E g \in Page : SwappedTo(p, g, t),
         \A q \in Proc : ~HoldsSlot(q, t)' /\ \A g \in Page : ~SwappedTo(q, g, t)',
         \A s \in Slot \ {t} :
           /\ \A q \in Proc : HoldsSlot(q, s)' <=> HoldsSlot(q, s)
           /\ \A q \in Proc, g \in Page : SwappedTo(q, g, s)' <=> SwappedTo(q, g, s)
  PROVE  swp_free' \in [Slot -> Nat] /\ SlotHasOneOwner'
<1>1. swp_free \in [Slot -> Nat] /\ SlotHasOneOwner
  BY InvGives DEF PagingTypeOK
<1>2. swp_free[t] \in {0, 1} /\ swp_free[t] # 1
  BY <1>1 DEF SlotHasOneOwner
<1>3. swp_free' \in [Slot -> Nat] /\ swp_free'[t] = 1 /\ \A s \in Slot \ {t} : swp_free'[s] = swp_free[s]
  BY <1>1, <1>2, SMTT(30) DEF MEMPHY_put_freefp
<1>4. SlotOwned(t)'
  BY <1>3, SMTT(30) DEF SlotOwned
<1> QED  BY <1>1, <1>3, <1>4, SlotMoves

\* The owner of frame f, as FrameHasOneOwner has it.
FrameOwned(f) ==
  /\ ram_free[f] \in {0, 1}
  /\ ram_free[f] = 1 => \A p \in Proc : ~Holds(p, f) /\ \A g \in Page : ~Maps(p, g, f)
  /\ ram_free[f] = 0 => \E p \in Proc : Holds(p, f) \/ \E g \in Page : Maps(p, g, f)
  /\ \A p, q \in Proc : Holds(p, f) /\ Holds(q, f) => p = q
  /\ \A p, q \in Proc, g \in Page : ~(Holds(p, f) /\ Maps(q, g, f))
  /\ \A p, q \in Proc, g, h \in Page : Maps(p, g, f) /\ Maps(q, h, f) => p = q /\ g = h

\* It is enough to look at the frame that moves.
LEMMA FrameMoves ==
  ASSUME FrameHasOneOwner, NEW t \in Frame, FrameOwned(t)',
         \A f \in Frame \ {t} :
           /\ ram_free'[f] = ram_free[f]
           /\ \A q \in Proc : Holds(q, f)' <=> Holds(q, f)
           /\ \A q \in Proc, g \in Page : Maps(q, g, f)' <=> Maps(q, g, f)
  PROVE  FrameHasOneOwner'
<1> SUFFICES ASSUME NEW f \in Frame PROVE FrameOwned(f)'
  BY DEF FrameHasOneOwner, FrameOwned
<1>1. CASE f = t
  BY <1>1
<1>2. CASE f # t
  <2>1. FrameOwned(f)
    BY DEF FrameHasOneOwner, FrameOwned
  <2> QED  BY <1>2, <2>1, SMTT(30) DEF FrameOwned
<1> QED  BY <1>1, <1>2

\* A frame that comes back to the list was not in it.
LEMMA FrameComesBack ==
  ASSUME PagingInv, NEW t \in Frame, ram_free' = MEMPHY_put_freefp(ram_free, t),
         \E p \in Proc : Holds(p, t) \/ \E g \in Page : Maps(p, g, t),
         \A q \in Proc : ~Holds(q, t)' /\ \A g \in Page : ~Maps(q, g, t)',
         \A f \in Frame \ {t} :
           /\ \A q \in Proc : Holds(q, f)' <=> Holds(q, f)
           /\ \A q \in Proc, g \in Page : Maps(q, g, f)' <=> Maps(q, g, f)
  PROVE  ram_free' \in [Frame -> Nat] /\ FrameHasOneOwner'
<1>1. ram_free \in [Frame -> Nat] /\ FrameHasOneOwner
  BY InvGives DEF PagingTypeOK
<1>2. ram_free[t] \in {0, 1} /\ ram_free[t] # 1
  BY <1>1 DEF FrameHasOneOwner
<1>3. ram_free' \in [Frame -> Nat] /\ ram_free'[t] = 1 /\ \A f \in Frame \ {t} : ram_free'[f] = ram_free[f]
  BY <1>1, <1>2, SMTT(30) DEF MEMPHY_put_freefp
<1>4. FrameOwned(t)'
  BY <1>3, SMTT(30) DEF FrameOwned
<1> QED  BY <1>1, <1>3, <1>4, FrameMoves

----------------------------------------------------------------------------
(* The steps that move neither a frame nor a slot keep the invariant.      *)

\* inc_vma_limit() moves the break before it has a frame: the new pages stay unmapped.
LEMMA IncVmaLimitKeepsInv ==
  ASSUME PagingInv, NEW p \in Proc, inc_vma_limit(p)
  PROVE  PagingInv'
<1>1. PICK n \in 1 .. MaxInc :
        /\ sbrk[p] + n <= MaxPages
        /\ inst' = [inst EXCEPT ![p] = [op |-> "inc", io |-> FALSE, pgn |-> 0, n |-> n, val |-> NULL]]
        /\ sbrk' = [sbrk EXCEPT ![p] = @ + n]
  BY DEF inc_vma_limit
<1>2. n \in Nat /\ sbrk \in [Proc -> 0 .. MaxPages] /\ sbrk[p] \in Nat
  <2>1. sbrk \in [Proc -> 0 .. MaxPages]
    BY InvGives DEF PagingTypeOK
  <2>2. n \in Nat /\ 0 .. MaxPages \subseteq Nat
    BY PagingAssumption, SMTT(30)
  <2> QED  BY <2>1, <2>2
<1>3. inst' \in [Proc -> Inst] /\ inst'[p].op = "inc" /\ inst'[p].n = n
  BY <1>1, <1>2, InvGives DEF PagingTypeOK, Inst
<1>4. sbrk' \in [Proc -> 0 .. MaxPages] /\ sbrk'[p] = sbrk[p] + n
  BY <1>1, <1>2, PagingAssumption, SMTT(30)
<1>5. pc' \in [Proc -> Pcs] /\ pc'[p] = "frame" /\ pc[p] = "idle"
  BY InvGives DEF inc_vma_limit, PagingTypeOK, Pcs
<1>6. PagingTypeOK'
  BY <1>3, <1>4, <1>5, InvGives DEF inc_vma_limit, PagingTypeOK
<1>7. OthersStay(p)
  BY <1>1, InvGives DEF inc_vma_limit, PagingTypeOK, OthersStay
<1>8. ThreadFits(p) /\ hand'[p] = hand[p] /\ hand[p] = << >> /\ inst[p].op = "none"
  BY <1>5, InvGives DEF inc_vma_limit, ThreadFits
<1>9. ThreadFits(p)'
  BY <1>2, <1>3, <1>4, <1>5, <1>8, SMTT(30) DEF ThreadFits
<1>10. FirstNew(p) <= FirstNew(p)'
  BY <1>2, <1>3, <1>4, <1>5, <1>8, SMTT(30) DEF FirstNew
<1>11. UNCHANGED <<ram_free, swp_free, pt, running_list, queue_lock, hand, fifo>>
  BY DEF inc_vma_limit
<1> QED  BY <1>5, <1>6, <1>7, <1>8, <1>9, <1>10, <1>11, QuietStep

\* An instruction that reads or writes a byte starts: it holds no frame.
LEMMA StartAccessKeepsInv ==
  ASSUME PagingInv, NEW p \in Proc, NEW io \in BOOLEAN, StartAccess(p, io)
  PROVE  PagingInv'
<1>1. PICK g \in Page, v \in Value \cup {NULL} :
        inst' = [inst EXCEPT ![p] = [op |-> IF v = NULL THEN "read" ELSE "write",
                                     io |-> io, pgn |-> g, n |-> 0, val |-> v]]
  BY DEF StartAccess
<1>2. inst' \in [Proc -> Inst] /\ inst'[p].op \in {"read", "write"} /\ inst'[p].pgn = g
  BY <1>1, InvGives, SMTT(30) DEF PagingTypeOK, Inst, Page
<1>3. pc' \in [Proc -> Pcs] /\ pc'[p] \in {"pte", "lock"} /\ pc[p] = "idle"
  BY InvGives DEF StartAccess, PagingTypeOK, Pcs
<1>4. PagingTypeOK'
  BY <1>2, <1>3, InvGives DEF StartAccess, PagingTypeOK
<1>5. OthersStay(p)
  BY <1>1, InvGives DEF StartAccess, PagingTypeOK, OthersStay
<1>6. ThreadFits(p) /\ hand'[p] = hand[p] /\ hand[p] = << >>
  BY <1>3, InvGives DEF StartAccess, ThreadFits
<1>7. ThreadFits(p)'
  BY <1>2, <1>3, <1>6 DEF ThreadFits
<1>8. FirstNew(p) <= FirstNew(p)'
  <2>1. inst[p].op = "none" /\ sbrk' = sbrk
    BY <1>3, InvGives DEF StartAccess, ThreadFits
  <2>2. FirstNew(p)' = FirstNew(p)
    BY <1>2, <2>1 DEF FirstNew
  <2> QED  BY <1>4, <2>2, FirstNewIsInt, InvGives, SMTT(30)
<1>9. UNCHANGED <<ram_free, swp_free, pt, running_list, queue_lock, hand, fifo>>
  BY DEF StartAccess
<1> QED  BY <1>3, <1>4, <1>5, <1>6, <1>7, <1>8, <1>9, QuietStep

\* Taking mmvm_lock, as __read() and __write() do, moves nothing.
LEMMA AccessLockKeepsInv ==
  ASSUME PagingInv, NEW p \in Proc, access_lock(p)
  PROVE  PagingInv'
<1>1. pc' \in [Proc -> Pcs] /\ pc'[p] = "pte" /\ pc[p] = "lock"
  BY InvGives DEF access_lock, PagingTypeOK, Pcs
<1>2. PagingTypeOK'
  BY <1>1, InvGives DEF access_lock, PagingTypeOK
<1>3. OthersStay(p)
  BY InvGives DEF access_lock, PagingTypeOK, OthersStay
<1>4. ThreadFits(p)'
  BY <1>1, InvGives DEF access_lock, ThreadFits
<1>5. FirstNew(p)' = FirstNew(p)
  BY <1>1 DEF FirstNew, NextPage, access_lock
<1>6. FirstNew(p) <= FirstNew(p)'
  BY <1>2, <1>5, FirstNewIsInt, InvGives, SMTT(30)
<1>7. UNCHANGED <<ram_free, swp_free, pt, running_list, queue_lock, hand, fifo>>
  BY DEF access_lock
<1> QED  BY <1>1, <1>2, <1>3, <1>4, <1>6, <1>7, QuietStep

\* enlist_pgn_node() reads the head of the list: nothing moves.
LEMMA EnlistReadKeepsInv ==
  ASSUME PagingInv, NEW p \in Proc, enlist_read(p)
  PROVE  PagingInv'
<1>1. pc' \in [Proc -> Pcs] /\ pc'[p] = "enlist_write" /\ pc[p] = "enlist_read"
  BY InvGives DEF enlist_read, PagingTypeOK, Pcs
<1>2. PagingTypeOK'
  BY <1>1, InvGives DEF enlist_read, PagingTypeOK
<1>3. OthersStay(p)
  BY InvGives DEF enlist_read, PagingTypeOK, OthersStay
<1>4. ThreadFits(p)'
  BY <1>1, InvGives DEF enlist_read, ThreadFits
<1>5. FirstNew(p)' = FirstNew(p)
  BY <1>1 DEF FirstNew, NextPage, enlist_read
<1>6. FirstNew(p) <= FirstNew(p)'
  BY <1>2, <1>5, FirstNewIsInt, InvGives, SMTT(30)
<1>7. UNCHANGED <<ram_free, swp_free, pt, running_list, queue_lock, hand, fifo>>
  BY DEF enlist_read
<1> QED  BY <1>1, <1>2, <1>3, <1>4, <1>6, <1>7, QuietStep

\* pg_getpage() reads the frame number of the entry it has found present.
LEMMA GetpageFpnKeepsInv ==
  ASSUME PagingInv, NEW p \in Proc, getpage_fpn(p)
  PROVE  PagingInv'
<1>1. pc' \in [Proc -> Pcs] /\ pc'[p] = "mem" /\ pc[p] = "fpn"
  BY InvGives DEF getpage_fpn, PagingTypeOK, Pcs
<1>2. fpn' \in [Proc -> Nat]
  <2>1. inst[p].pgn \in Page
    BY <1>1, InvGives DEF ThreadFits
  <2>2. pt[p][inst[p].pgn] \in Pte
    BY <2>1, EntryIsPte
  <2>3. pt[p][inst[p].pgn].n \in Nat
    BY <2>2, PteNumber
  <2> QED  BY <2>3, InvGives DEF getpage_fpn, PTE_FPN, PagingTypeOK
<1>3. PagingTypeOK'
  BY <1>1, <1>2, InvGives DEF getpage_fpn, PagingTypeOK
<1>4. OthersStay(p)
  BY InvGives DEF getpage_fpn, PagingTypeOK, OthersStay
<1>5. ThreadFits(p)'
  BY <1>1, InvGives DEF getpage_fpn, ThreadFits
<1>6. FirstNew(p)' = FirstNew(p)
  BY <1>1 DEF FirstNew, NextPage, getpage_fpn
<1>7. FirstNew(p) <= FirstNew(p)'
  BY <1>3, <1>6, FirstNewIsInt, InvGives, SMTT(30)
<1>8. UNCHANGED <<ram_free, swp_free, pt, running_list, queue_lock, hand, fifo>>
  BY DEF getpage_fpn
<1> QED  BY <1>1, <1>3, <1>4, <1>5, <1>7, <1>8, QuietStep

\* The page that is put in a list.
LEMMA EnlistedIsPage ==
  ASSUME PagingInv, NEW p \in Proc, pc[p] = "enlist_write"
  PROVE  /\ hand[p] \in Seq(Frame) /\ Len(hand[p]) \in Nat /\ sbrk[p] \in 0 .. MaxPages
         /\ inst[p].op \in {"inc", "read", "write"}
         /\ inst[p].op = "inc" => Len(hand[p]) < sbrk[p]
         /\ inst[p].op # "inc" => inst[p].pgn \in Page /\ hand[p] = << >>
         /\ EnlistedPage(p) \in Page
<1>1. /\ hand[p] \in Seq(Frame) /\ sbrk[p] \in 0 .. MaxPages /\ ThreadFits(p)
      /\ inst[p].op \in {"none", "inc", "read", "write"} /\ inst[p].n \in Nat
  BY InvGives DEF PagingTypeOK, Inst
<1>2. Len(hand[p]) \in Nat
  BY <1>1, SMTT(30)
<1>3. /\ inst[p].op \in {"inc", "read", "write"}
      /\ inst[p].op = "inc" => Len(hand[p]) < sbrk[p]
      /\ inst[p].op # "inc" => inst[p].pgn \in Page /\ hand[p] = << >>
  BY <1>1, <1>2, PagingAssumption, SMTT(30) DEF ThreadFits
<1>4. EnlistedPage(p) \in Page
  BY <1>1, <1>2, <1>3, PagingAssumption, SMTT(30) DEF EnlistedPage, NextPage, Page
<1> QED  BY <1>1, <1>2, <1>3, <1>4

\* enlist_pgn_node() puts the page at the head of the list of its owner.
LEMMA EnlistWriteKeepsInv ==
  ASSUME PagingInv, NEW p \in Proc, enlist_write(p)
  PROVE  PagingInv'
<1>1. /\ pc[p] = "enlist_write" /\ hand' = hand /\ sbrk' = sbrk
      /\ fifo' = [fifo EXCEPT ![p] = <<EnlistedPage(p)>> \o @]
  BY DEF enlist_write
<1>2. PagingTypeOK /\ ThreadFits(p) /\ fifo \in [Proc -> Seq(Page)]
  BY InvGives DEF PagingTypeOK
<1>3. /\ hand[p] \in Seq(Frame) /\ Len(hand[p]) \in Nat /\ sbrk[p] \in 0 .. MaxPages
      /\ inst[p].op \in {"inc", "read", "write"}
      /\ inst[p].op = "inc" => Len(hand[p]) < sbrk[p]
      /\ inst[p].op # "inc" => inst[p].pgn \in Page /\ hand[p] = << >>
  BY <1>1, EnlistedIsPage
<1>4. EnlistedPage(p) \in Page
  BY <1>1, EnlistedIsPage
<1>5. /\ fifo' \in [Proc -> Seq(Page)]
      /\ \A q \in Proc : fifo[q] # << >> => fifo'[q] # << >>
  <2>1. <<EnlistedPage(p)>> \o fifo[p] \in Seq(Page) \ {<< >>}
    BY <1>2, <1>4, SMTT(30)
  <2> QED  BY <1>1, <1>2, <2>1
<1>6. /\ pc' \in [Proc -> Pcs] /\ inst' \in [Proc -> Inst] /\ mmvm_lock' \in Proc \cup {NULL}
      /\ \A q \in Proc \ {p} : pc'[q] = pc[q] /\ inst'[q] = inst[q]
      /\ \/ pc'[p] = "fpn" /\ inst'[p] = inst[p] /\ inst[p].op # "inc"
         \/ pc'[p] = "map" /\ inst'[p] = inst[p] /\ inst[p].op = "inc" /\ hand[p] # << >>
         \/ pc'[p] = "idle" /\ inst'[p].op = "none" /\ inst[p].op = "inc" /\ hand[p] = << >>
  <2>1. CASE inst[p].op # "inc" /\ Continue(p, "fpn")
    BY <1>2, <2>1 DEF Continue, PagingTypeOK, Pcs
  <2>2. CASE inst[p].op = "inc" /\ hand[p] # << >> /\ Continue(p, "map")
    BY <1>2, <2>2 DEF Continue, PagingTypeOK, Pcs
  <2>3. CASE inst[p].op = "inc" /\ hand[p] = << >> /\ Return(p)
    BY <1>2, <2>3, ReturnFacts
  <2> QED  BY <2>1, <2>2, <2>3 DEF enlist_write
<1>7. corrupt' \in BOOLEAN /\ head' \in [Proc -> BOOLEAN]
  BY <1>2 DEF enlist_write, PagingTypeOK
<1>8. PagingTypeOK'
  BY <1>2, <1>5, <1>6, <1>7 DEF enlist_write, PagingTypeOK
<1>9. OthersStay(p)
  BY <1>1, <1>6 DEF enlist_write, OthersStay
<1>10. ThreadFits(p)'
  BY <1>1, <1>2, <1>3, <1>6 DEF ThreadFits
<1>11. FirstNew(p) <= FirstNew(p)'
  BY <1>1, <1>2, <1>3, <1>6, SMTT(30) DEF FirstNew, NextPage
<1> QED  BY <1>1, <1>5, <1>6, <1>8, <1>9, <1>10, <1>11, QuietStep DEF enlist_write

\* pg_getpage() reads the entry: it stops, goes on, or looks for a frame.
LEMMA GetpagePteKeepsInv ==
  ASSUME PagingInv, NEW p \in Proc, getpage_pte(p)
  PROVE  PagingInv'
<1>1. pc[p] = "pte" /\ hand' = hand /\ sbrk' = sbrk /\ PagingTypeOK /\ ThreadFits(p)
  BY InvGives DEF getpage_pte
<1>2. /\ pc' \in [Proc -> Pcs] /\ inst' \in [Proc -> Inst] /\ mmvm_lock' \in Proc \cup {NULL}
      /\ \A q \in Proc \ {p} : pc'[q] = pc[q] /\ inst'[q] = inst[q]
      /\ \/ pc'[p] = "fpn" /\ inst'[p] = inst[p]
         \/ pc'[p] = "slot" /\ inst'[p] = inst[p] /\ pt[p][inst[p].pgn].st = "swapped"
         \/ pc'[p] = "idle" /\ inst'[p].op = "none"
  <2>1. CASE Continue(p, "fpn")
    BY <1>1, <2>1 DEF Continue, PagingTypeOK, Pcs
  <2>2. CASE pt[p][inst[p].pgn].st = "swapped" /\ Continue(p, "slot")
    BY <1>1, <2>2 DEF Continue, PagingTypeOK, Pcs
  <2>3. CASE Return(p)
    BY <1>1, <2>3, ReturnFacts
  <2> QED  BY <2>1, <2>2, <2>3 DEF getpage_pte
<1>3. PagingTypeOK'
  BY <1>1, <1>2 DEF getpage_pte, PagingTypeOK
<1>4. OthersStay(p)
  BY <1>1, <1>2 DEF getpage_pte, OthersStay
<1>5. inst[p].op \in {"read", "write"} /\ inst[p].pgn \in Page /\ hand[p] = << >>
  BY <1>1 DEF ThreadFits
<1>6. ThreadFits(p)'
  BY <1>1, <1>2, <1>5 DEF ThreadFits
<1>7. FirstNew(p)' = FirstNew(p)
  BY <1>1, <1>2, <1>5 DEF FirstNew
<1>8. FirstNew(p) <= FirstNew(p)'
  BY <1>1, <1>3, <1>7, FirstNewIsInt, SMTT(30)
<1>9. UNCHANGED <<ram_free, swp_free, pt, running_list, queue_lock, hand, fifo>>
  BY DEF getpage_pte
<1> QED  BY <1>1, <1>2, <1>3, <1>4, <1>6, <1>8, <1>9, QuietStep

\* The end of an access to a page.
LEMMA AccessEnds ==
  ASSUME PagingInv, NEW p \in Proc, pc[p] = "mem", Return(p), ram' \in [Frame -> Value \cup {NULL}],
         mem' \in [Proc -> [Page -> Value \cup {NULL}]], fpn' = [fpn EXCEPT ![p] = 0],
         UNCHANGED <<freeVars, swp, tableVars, running_list, queue_lock, hand, head, swapVars, corrupt>>
  PROVE  PagingInv'
<1>1. PagingTypeOK /\ ThreadFits(p)
  BY InvGives
<1>2. /\ pc' \in [Proc -> Pcs] /\ inst' \in [Proc -> Inst] /\ mmvm_lock' \in Proc \cup {NULL}
      /\ \A q \in Proc \ {p} : pc'[q] = pc[q] /\ inst'[q] = inst[q]
      /\ pc'[p] = "idle" /\ inst'[p].op = "none"
  BY <1>1, ReturnFacts
<1>3. PagingTypeOK'
  BY <1>1, <1>2 DEF PagingTypeOK
<1>4. OthersStay(p)
  BY <1>1, <1>2 DEF OthersStay, PagingTypeOK
<1>5. inst[p].op \in {"read", "write"} /\ hand[p] = << >>
  BY <1>1 DEF ThreadFits
<1>6. ThreadFits(p)'
  BY <1>1, <1>2, <1>5 DEF ThreadFits
<1>7. FirstNew(p)' = FirstNew(p)
  BY <1>1, <1>2, <1>5 DEF FirstNew
<1>8. UNCHANGED <<ram_free, swp_free, pt, running_list, queue_lock, hand, fifo>>
  OBVIOUS
<1>9. FirstNew(p) <= FirstNew(p)'
  BY <1>1, <1>3, <1>7, FirstNewIsInt, SMTT(30)
<1> QED  BY <1>2, <1>3, <1>4, <1>6, <1>8, <1>9, QuietStep

\* pg_getval() ends the read of a byte.
LEMMA GetvalKeepsInv ==
  ASSUME PagingInv, NEW p \in Proc, pg_getval(p)
  PROVE  PagingInv'
BY AccessEnds, InvGives DEF pg_getval, PagingTypeOK

\* pg_setval() ends the write of a byte.
LEMMA SetvalKeepsInv ==
  ASSUME PagingInv, NEW p \in Proc, pg_setval(p)
  PROVE  PagingInv'
<1>1. /\ ram \in [Frame -> Value \cup {NULL}] /\ mem \in [Proc -> [Page -> Value \cup {NULL}]]
      /\ inst[p].val \in Value \cup {NULL}
  BY InvGives DEF PagingTypeOK, Inst
<1>2. /\ ram' \in [Frame -> Value \cup {NULL}] /\ mem' \in [Proc -> [Page -> Value \cup {NULL}]]
  BY <1>1, SMTT(30) DEF pg_setval, MEMPHY_write
<1> QED  BY <1>2, AccessEnds DEF pg_setval

(***************************************************************************)
(* A process comes and goes: nobody is in the search for a victim, or p is *)
(* not known to it.                                                        *)
(***************************************************************************)

\* The loader puts a process into the list the search for a victim walks.
LEMMA AddProcKeepsInv ==
  ASSUME PagingInv, NEW p \in Proc, add_proc(p)
  PROVE  PagingInv'
<1>1. /\ pc[p] = "new" /\ queue_lock = NULL /\ running_list' = enqueue(running_list, p)
      /\ pc' = [pc EXCEPT ![p] = "idle"] /\ "idle" \in Pcs
      /\ UNCHANGED <<inst, hand, sbrk, fpn, swpfpn, vic, idx>>
  BY DEF add_proc, Pcs
<1>2. /\ pc' \in [Proc -> Pcs] /\ pc'[p] = "idle" /\ OthersStay(p)
      /\ FirstNew(p)' = FirstNew(p)
  BY <1>1, PlaceChanges
<1>3. running_list \in Seq(Proc) /\ NoDuplicates(running_list) /\ p \notin Elements(running_list)
  BY <1>1, InvGives DEF PagingTypeOK, ListsStay
<1>4. /\ running_list' \in Seq(Proc) /\ NoDuplicates(running_list')
      /\ Elements(running_list') = Elements(running_list) \cup {p}
  BY <1>1, <1>3, EnqueueProperties
<1>5. PagingTypeOK'
  BY <1>2, <1>4, InvGives DEF add_proc, PagingTypeOK
<1>6. \A q \in Proc : pc[q] \notin LockedPcs /\ pc'[q] \notin LockedPcs
  BY <1>1, <1>2, OneSearches DEF OthersStay
<1>7. QueueLocked' /\ \A q \in Proc : VictimFits(q)'
  BY <1>1, <1>6, PagingAssumption DEF QueueLocked, VictimFits, add_proc
<1>8. ListsStay'
  <2>1. Elements(running_list) \subseteq Proc
    BY SearchedIsProc, InvGives
  <2>2. \A q \in Elements(running_list)' : pc'[q] \notin AwayPcs
    BY <1>2, <1>4, <2>1, InvGives DEF ListsStay, OthersStay
  <2> QED  BY <1>4, <1>6, <2>2 DEF ListsStay
<1>9. ThreadFits(p)'
  BY <1>1, <1>2, InvGives DEF ThreadFits
<1>10. FirstNew(p) <= FirstNew(p)'
  BY <1>2, <1>5, FirstNewIsInt, InvGives, SMTT(30)
<1>11. UNCHANGED <<ram_free, swp_free, pt, hand>>
  BY DEF add_proc
<1> QED  BY <1>1, <1>2, <1>5, <1>7, <1>8, <1>9, <1>10, <1>11, StillStep

\* finish_proc() takes a process out of that list, and nobody is searching.
LEMMA FinishProcKeepsInv ==
  ASSUME PagingInv, NEW p \in Proc, finish_proc(p)
  PROVE  PagingInv'
<1>1. /\ pc[p] = "idle" /\ queue_lock = NULL /\ running_list' = purgequeue(running_list, p)
      /\ pc' = [pc EXCEPT ![p] = "collect_lock"] /\ "collect_lock" \in Pcs
      /\ UNCHANGED <<inst, hand, sbrk, fpn, swpfpn, vic, idx>>
  BY DEF finish_proc, Pcs
<1>2. /\ pc' \in [Proc -> Pcs] /\ pc'[p] = "collect_lock" /\ OthersStay(p)
      /\ FirstNew(p)' = FirstNew(p)
  BY <1>1, PlaceChanges
<1>3. running_list \in Seq(Proc) /\ NoDuplicates(running_list)
  BY InvGives DEF PagingTypeOK, ListsStay
<1>4. /\ running_list' \in Seq(Proc) /\ NoDuplicates(running_list')
      /\ Elements(running_list') = Elements(running_list) \ {p}
  BY <1>1, <1>3, PurgeProperties
<1>5. PagingTypeOK'
  BY <1>2, <1>4, InvGives DEF finish_proc, PagingTypeOK
<1>6. \A q \in Proc : pc[q] \notin LockedPcs /\ pc'[q] \notin LockedPcs
  BY <1>1, <1>2, OneSearches DEF OthersStay
<1>7. QueueLocked' /\ \A q \in Proc : VictimFits(q)'
  BY <1>1, <1>6, PagingAssumption DEF QueueLocked, VictimFits, finish_proc
<1>8. ListsStay'
  <2>1. Elements(running_list) \subseteq Proc
    BY SearchedIsProc, InvGives
  <2>2. \A q \in Elements(running_list)' : pc'[q] \notin AwayPcs
    BY <1>2, <1>4, <2>1, InvGives DEF ListsStay, OthersStay
  <2> QED  BY <1>4, <1>6, <2>2 DEF ListsStay
<1>9. ThreadFits(p)'
  BY <1>1, <1>2, InvGives DEF ThreadFits
<1>10. FirstNew(p) <= FirstNew(p)'
  BY <1>2, <1>5, FirstNewIsInt, InvGives, SMTT(30)
<1>11. UNCHANGED <<ram_free, swp_free, pt, hand>>
  BY DEF finish_proc
<1> QED  BY <1>1, <1>2, <1>5, <1>7, <1>8, <1>9, <1>10, <1>11, StillStep

\* free_pcb_memph() starts when the process is out of the list.
LEMMA CollectLockKeepsInv ==
  ASSUME PagingInv, NEW p \in Proc, collect_lock(p)
  PROVE  PagingInv'
<1>1. /\ pc[p] = "collect_lock" /\ pc' = [pc EXCEPT ![p] = "collect"] /\ "collect" \in Pcs
      /\ UNCHANGED <<inst, hand, sbrk, fpn, swpfpn, vic, idx, fifo, running_list, queue_lock, pt>>
  BY DEF collect_lock, Pcs
<1>2. /\ pc' \in [Proc -> Pcs] /\ pc'[p] = "collect" /\ OthersStay(p)
      /\ FirstNew(p)' = FirstNew(p)
  BY <1>1, PlaceChanges
<1>3. PagingTypeOK'
  BY <1>2, InvGives DEF collect_lock, PagingTypeOK
<1>4. QueueLocked'
  BY <1>1, <1>2, InvGives DEF QueueLocked, OthersStay
<1>5. FirstNew(p) <= FirstNew(p)'
  BY <1>2, <1>3, FirstNewIsInt, InvGives, SMTT(30)
<1>6. ListsStay' /\ \A q \in Proc : VictimFits(q)'
  BY <1>1, <1>2, <1>3, <1>5, ListsStill, VictimsStay
<1>7. ThreadFits(p)'
  BY <1>1, <1>2, InvGives DEF ThreadFits
<1> QED  BY <1>1, <1>2, <1>3, <1>4, <1>5, <1>6, <1>7, StillStep DEF collect_lock

\* free_pcb_memph() ends when no entry of the table is left.
LEMMA CollectEndKeepsInv ==
  ASSUME PagingInv, NEW p \in Proc, collect_end(p)
  PROVE  PagingInv'
<1>1. /\ pc[p] = "collect" /\ pc' = [pc EXCEPT ![p] = "dead"]
      /\ fifo' = [fifo EXCEPT ![p] = << >>] /\ sbrk' = [sbrk EXCEPT ![p] = 0]
      /\ UNCHANGED <<inst, hand, fpn, swpfpn, vic, idx, running_list, queue_lock, pt>>
      /\ \A g \in Page : pt[p][g] = None
  BY DEF collect_end
<1>2. /\ pc \in [Proc -> Pcs] /\ "dead" \in Pcs
      /\ fifo \in [Proc -> Seq(Page)] /\ sbrk \in [Proc -> 0 .. MaxPages]
  BY InvGives DEF PagingTypeOK, Pcs
<1>3. pc' \in [Proc -> Pcs] /\ pc'[p] = "dead"
  BY <1>1, <1>2
<1>4. fifo' \in [Proc -> Seq(Page)] /\ sbrk' \in [Proc -> 0 .. MaxPages] /\ sbrk'[p] = 0
  BY <1>1, <1>2, PagingAssumption, SMTT(30)
<1>5. mmvm_lock' \in Proc \cup {NULL}
  BY DEF collect_end
<1>6. PagingTypeOK'
  BY <1>3, <1>4, <1>5, InvGives DEF collect_end, PagingTypeOK
<1>7. OthersStay(p)
  BY <1>1, <1>2 DEF OthersStay
<1>8. ThreadFits(p)' /\ inst[p].op = "none"
  BY <1>1, <1>3, InvGives DEF ThreadFits
<1>9. QueueLocked'
  BY <1>1, <1>3, <1>7, InvGives DEF QueueLocked, OthersStay
<1>10. ListsStay' /\ \A q \in Proc : VictimFits(q)'
  <2>1. \A q \in Proc : pc[q] \notin AwayPcs /\ fifo[q] # << >> => fifo'[q] # << >>
    BY <1>1, <1>2
  <2> QED  BY <1>1, <1>3, <1>6, <1>7, <2>1, ListsStill, VictimsStay
<1> QED  BY <1>1, <1>3, <1>6, <1>7, <1>8, <1>9, <1>10, StillStep DEF collect_end

----------------------------------------------------------------------------
(* The search for a victim, the copies, and the steps that move a slot of  *)
(* the swap device keep the invariant.                                     *)

\* find_victim_page() starts its walk with queue_lock in its hands.
LEMMA VictimLockKeepsInv ==
  ASSUME PagingInv, NEW p \in Proc, victim_lock(p)
  PROVE  PagingInv'
<1>1. /\ pc[p] = "victim_lock" /\ pc' = [pc EXCEPT ![p] = "victim_read"] /\ "victim_read" \in Pcs
      /\ queue_lock = NULL /\ queue_lock' = p
      /\ UNCHANGED <<inst, hand, sbrk, fpn, swpfpn, vic, idx, fifo, running_list, pt>>
  BY DEF victim_lock, Pcs
<1>2. /\ pc' \in [Proc -> Pcs] /\ pc'[p] = "victim_read" /\ OthersStay(p)
      /\ FirstNew(p)' = FirstNew(p)
  BY <1>1, PlaceChanges
<1>3. PagingTypeOK'
  BY <1>2, InvGives DEF victim_lock, PagingTypeOK
<1>4. QueueLocked'
  BY <1>1, <1>2, OneSearches DEF QueueLocked, OthersStay
<1>5. FirstNew(p) <= FirstNew(p)'
  BY <1>2, <1>3, FirstNewIsInt, InvGives, SMTT(30)
<1>6. ListsStay' /\ \A q \in Proc : VictimFits(q)'
  BY <1>1, <1>2, <1>3, <1>5, ListsStill, VictimsStay
<1>7. ThreadFits(p)'
  BY <1>1, <1>2, InvGives DEF ThreadFits
<1>8. inst[p].op \in {"read", "write"} => pt[p][inst[p].pgn].st = "swapped"
  BY <1>1, InvGives DEF TablesFit
<1> QED  BY <1>1, <1>2, <1>3, <1>4, <1>5, <1>6, <1>7, <1>8, StillStep DEF victim_lock

\* find_victim_page() reads the list of a process, and moves on or gives up.
LEMMA VictimReadKeepsInv ==
  ASSUME PagingInv, NEW p \in Proc, victim_read(p)
  PROVE  PagingInv'
<1>1. /\ pc[p] = "victim_read"
      /\ UNCHANGED <<inst, hand, sbrk, fpn, swpfpn, vic, fifo, running_list, pt>>
  BY DEF victim_read
<1>2. pc \in [Proc -> Pcs] /\ idx \in [Proc -> Nat] /\ single \in [Proc -> BOOLEAN]
  BY InvGives DEF PagingTypeOK
<1>3. \A q \in Proc \ {p} : pc[q] \notin LockedPcs
  BY <1>1, OneSearches
<1>4. /\ pc' \in [Proc -> Pcs] /\ idx' \in [Proc -> Nat] /\ single' \in [Proc -> BOOLEAN]
      /\ queue_lock' \in Proc \cup {NULL}
      /\ \A q \in Proc \ {p} : pc'[q] = pc[q] /\ idx'[q] = idx[q]
      /\ \/ pc'[p] = "put_slot" /\ queue_lock' = NULL
         \/ pc'[p] = "victim_read" /\ queue_lock' = queue_lock
         \/ /\ pc'[p] = "victim_detach" /\ queue_lock' = queue_lock /\ idx' = idx
            /\ idx[p] <= Len(running_list) /\ fifo[Searched(p)] # << >>
  <2>1. {"put_slot", "victim_detach"} \subseteq Pcs /\ queue_lock \in Proc \cup {NULL}
    BY InvGives DEF Pcs, PagingTypeOK
  <2>2. CASE queue_lock' = NULL /\ idx' = [idx EXCEPT ![p] = 0] /\ goto(p, "put_slot") /\ single' = single
    BY <1>2, <2>1, <2>2
  <2>3. CASE idx' = [idx EXCEPT ![p] = @ + 1] /\ UNCHANGED <<queue_lock, single, pc>>
    BY <1>1, <1>2, <2>1, <2>3, SMTT(30)
  <2>4. CASE /\ idx[p] <= Len(running_list) /\ fifo[Searched(p)] # << >>
             /\ single' = [single EXCEPT ![p] = Len(fifo[Searched(p)]) = 1]
             /\ goto(p, "victim_detach") /\ UNCHANGED <<queue_lock, idx>>
    BY <1>2, <2>1, <2>4
  <2> QED  BY <2>2, <2>3, <2>4 DEF victim_read
<1>5. PagingTypeOK'
  BY <1>4, InvGives DEF victim_read, PagingTypeOK
<1>6. OthersStay(p)
  BY <1>1, <1>4 DEF OthersStay
<1>7. QueueLocked' /\ \A q \in Proc : VictimFits(q)'
  <2>1. queue_lock = p
    BY <1>1, InvGives DEF QueueLocked
  <2> QED  BY <1>3, <1>4, <2>1, PagingAssumption DEF QueueLocked, VictimFits
<1>8. ListsStay'
  <2>1. Elements(running_list) \subseteq Proc
    BY SearchedIsProc, InvGives
  <2>2. \A q \in Elements(running_list) : pc'[q] \notin AwayPcs
    BY <1>4, <2>1, InvGives DEF ListsStay
  <2>3. \A q \in Proc : pc'[q] = "victim_detach" =>
          idx'[q] <= Len(running_list) /\ fifo[IF idx'[q] = 0 THEN q ELSE running_list[idx'[q]]] # << >>
    BY <1>3, <1>4 DEF Searched
  <2> QED  BY <1>1, <2>2, <2>3, InvGives DEF ListsStay, Searched
<1>9. ThreadFits(p)'
  BY <1>1, <1>4, InvGives DEF ThreadFits
<1>10. FirstNew(p)' = FirstNew(p)
  BY <1>1, <1>4 DEF FirstNew, NextPage
<1>11. FirstNew(p) <= FirstNew(p)'
  BY <1>5, <1>10, FirstNewIsInt, InvGives, SMTT(30)
<1>12. inst[p].op \in {"read", "write"} => pt[p][inst[p].pgn].st = "swapped"
  BY <1>1, InvGives DEF TablesFit
<1> QED  BY <1>1, <1>4, <1>5, <1>6, <1>7, <1>8, <1>9, <1>11, <1>12, StillStep DEF victim_read

\* find_victim_page() takes the last node off the list it has read: a page that is
\* mapped becomes the victim, and it stays mapped where it was.
LEMMA VictimDetachKeepsInv ==
  ASSUME PagingInv, NEW p \in Proc, victim_detach(p)
  PROVE  PagingInv'
<1> DEFINE v == Searched(p)
           g == fifo[v][Len(fifo[v])]
<1>1. /\ pc[p] = "victim_detach"
      /\ fifo' = [fifo EXCEPT ![v] = IF single[p] THEN << >> ELSE SubSeq(@, 1, Len(@) - 1)]
      /\ UNCHANGED <<inst, hand, sbrk, swpfpn, running_list, pt, queue_lock, ram_free, swp_free>>
  BY DEF victim_detach
<1>2. /\ pc \in [Proc -> Pcs] /\ idx \in [Proc -> Nat] /\ single \in [Proc -> BOOLEAN]
      /\ fpn \in [Proc -> Nat] /\ vic \in [Proc -> Proc \X Nat] /\ fifo \in [Proc -> Seq(Page)]
  BY InvGives DEF PagingTypeOK
<1>3. \A q \in Proc \ {p} : pc[q] \notin LockedPcs
  BY <1>1, OneSearches
<1>4. /\ v \in Proc /\ (v = p \/ v \in Elements(running_list))
      /\ fifo[v] # << >>
  BY <1>1, SearchedIsProc, InvGives DEF ListsStay
<1>5. fifo[v] \in Seq(Page) /\ Len(fifo[v]) \in Nat \ {0} /\ g \in Page
  <2>1. fifo[v] \in Seq(Page)
    BY <1>2, <1>4
  <2>2. Len(fifo[v]) \in Nat \ {0}
    BY <1>4, <2>1, SMTT(30)
  <2> QED  BY <2>1, <2>2, SMTT(30)
<1>6. fifo' \in [Proc -> Seq(Page)]
  <2>1. SubSeq(fifo[v], 1, Len(fifo[v]) - 1) \in Seq(Page)
    BY <1>5, SMTT(30)
  <2> QED  BY <1>1, <1>2, <1>4, <2>1, SMTT(30)
<1>7. pt[v][g] \in Pte /\ g \in Nat
  <2>1. pt[v][g] \in Pte
    BY <1>4, <1>5, EntryIsPte
  <2>2. g \in Nat
    BY <1>5, PagingAssumption, SMTT(30) DEF Page
  <2> QED  BY <2>1, <2>2
<1>8. /\ pc' \in [Proc -> Pcs] /\ idx' \in [Proc -> Nat] /\ single' \in [Proc -> BOOLEAN]
      /\ fpn' \in [Proc -> Nat] /\ vic' \in [Proc -> Proc \X Nat]
      /\ \A q \in Proc \ {p} : pc'[q] = pc[q] /\ idx'[q] = idx[q] /\ fpn'[q] = fpn[q] /\ vic'[q] = vic[q]
      /\ \/ /\ pc'[p] = "swap_copy" /\ pt[v][g] = Present(fpn'[p])
            /\ vic'[p] = <<v, g>>
         \/ pc'[p] = "victim_read"
  <2>1. {"swap_copy", "victim_read"} \subseteq Pcs
    BY DEF Pcs
  <2>2. single' \in [Proc -> BOOLEAN]
    BY <1>2 DEF victim_detach
  <2>3. CASE /\ pt[v][g].st = "present" /\ vic' = [vic EXCEPT ![p] = <<v, g>>]
             /\ fpn' = [fpn EXCEPT ![p] = PTE_FPN(pt[v][g])]
             /\ idx' = [idx EXCEPT ![p] = 0] /\ goto(p, "swap_copy")
    <3>1. pt[v][g] = Present(pt[v][g].n) /\ pt[v][g].n \in Nat
      BY <1>7, <2>3, PteFacts, PteNumber
    <3>2. fpn' \in [Proc -> Nat] /\ pt[v][g] = Present(fpn'[p])
      BY <1>2, <2>3, <3>1 DEF PTE_FPN
    <3>3. vic' \in [Proc -> Proc \X Nat] /\ vic'[p] = <<v, g>>
      BY <1>2, <1>4, <1>7, <2>3
    <3> QED  BY <1>2, <2>1, <2>2, <2>3, <3>2, <3>3
  <2>4. CASE goto(p, "victim_read") /\ UNCHANGED <<vic, fpn, idx>>
    BY <1>2, <2>1, <2>2, <2>4
  <2> QED  BY <2>3, <2>4 DEF victim_detach
<1>9. PagingTypeOK'
  BY <1>6, <1>8, InvGives DEF victim_detach, PagingTypeOK
<1>10. OthersStay(p)
  BY <1>1, <1>8 DEF OthersStay
<1>11. QueueLocked'
  BY <1>1, <1>8, InvGives DEF QueueLocked
<1>12. \A q \in Proc : VictimFits(q)'
  <2>1. \A q \in Proc \ {p} : VictimFits(q)'
    BY <1>3, <1>8 DEF VictimFits
  <2>2. CASE pc'[p] = "victim_read"
    BY <2>1, <2>2 DEF VictimFits
  <2>3. CASE pc'[p] = "swap_copy" /\ pt[v][g] = Present(fpn'[p]) /\ vic'[p] = <<v, g>>
    <3>1. vic'[p][1] = v /\ vic'[p][2] = g
      BY <2>3, SMTT(30)
    <3>2. VictimFits(p)'
      BY <1>1, <1>4, <1>5, <2>3, <3>1 DEF VictimFits, Maps
    <3> QED  BY <2>1, <3>2
  <2> QED  BY <1>8, <2>2, <2>3
<1>13. ListsStay'
  <2>1. Elements(running_list) \subseteq Proc
    BY SearchedIsProc, InvGives
  <2>2. \A q \in Elements(running_list) : pc'[q] \notin AwayPcs
    BY <1>8, <2>1, InvGives DEF ListsStay
  <2>3. \A q \in Proc : pc'[q] # "victim_detach"
    BY <1>3, <1>8
  <2> QED  BY <1>1, <2>2, <2>3, InvGives DEF ListsStay
<1>14. ThreadFits(p)'
  BY <1>1, <1>8, InvGives DEF ThreadFits
<1>15. FirstNew(p)' = FirstNew(p)
  BY <1>1, <1>8 DEF FirstNew, NextPage
<1>16. FirstNew(p) <= FirstNew(p)'
  BY <1>9, <1>15, FirstNewIsInt, InvGives, SMTT(30)
<1>17. inst[p].op \in {"read", "write"} => pt[p][inst[p].pgn].st = "swapped"
  BY <1>1, InvGives DEF TablesFit
<1> QED  BY <1>1, <1>8, <1>9, <1>10, <1>11, <1>12, <1>13, <1>14, <1>16, <1>17, StillStep

\* The copy of the victim to the swap device changes no entry.
LEMMA SwapCopyKeepsInv ==
  ASSUME PagingInv, NEW p \in Proc, swap_copy(p)
  PROVE  PagingInv'
<1>1. /\ pc[p] = "swap_copy" /\ pc' = [pc EXCEPT ![p] = "pte_clear"] /\ "pte_clear" \in Pcs
      /\ UNCHANGED <<inst, hand, sbrk, fpn, swpfpn, vic, idx, fifo, running_list, pt, queue_lock,
                     ram_free, swp_free>>
  BY DEF swap_copy, Pcs
<1>2. /\ pc' \in [Proc -> Pcs] /\ pc'[p] = "pte_clear" /\ OthersStay(p)
      /\ FirstNew(p)' = FirstNew(p)
  BY <1>1, PlaceChanges
<1>3. VictimFits(p) /\ ThreadFits(p) /\ vic[p][1] \in Proc
  BY InvGives DEF PagingTypeOK
<1>4. fpn[p] \in Frame /\ swpfpn[p] \in Slot
  <2>1. vic[p][2] \in Page /\ Maps(vic[p][1], vic[p][2], fpn[p])
    BY <1>1, <1>3 DEF VictimFits
  <2>2. pt[vic[p][1]][vic[p][2]] \in Pte
    BY <1>3, <2>1, EntryIsPte
  <2>3. fpn[p] \in Frame
    BY <2>1, <2>2, PteFacts, SMTT(30) DEF Maps, Present
  <2> QED  BY <1>1, <1>3, <2>3 DEF ThreadFits
<1>5. swp' \in [Slot -> Value \cup {NULL}]
  BY <1>4, InvGives DEF swap_copy, __swap_cp_page, MEMPHY_write, PagingTypeOK
<1>6. PagingTypeOK'
  BY <1>2, <1>5, InvGives DEF swap_copy, PagingTypeOK
<1>7. QueueLocked'
  BY <1>1, <1>2, InvGives DEF QueueLocked, OthersStay
<1>8. ListsStay'
  BY <1>1, <1>2, ListsStill
<1>9. \A q \in Proc : VictimFits(q)'
  <2>1. \A q \in Proc \ {p} : pc[q] \notin LockedPcs
    BY <1>1, OneSearches
  <2>2. VictimFits(p)'
    BY <1>1, <1>2, <1>3 DEF VictimFits, Maps
  <2> QED  BY <1>2, <2>1, <2>2 DEF VictimFits, OthersStay
<1>10. ThreadFits(p)'
  BY <1>1, <1>2, <1>3 DEF ThreadFits
<1>11. inst[p].op \in {"read", "write"} => pt[p][inst[p].pgn].st = "swapped"
  BY <1>1, InvGives DEF TablesFit
<1>12. FirstNew(p) <= FirstNew(p)'
  BY <1>2, <1>6, FirstNewIsInt, InvGives, SMTT(30)
<1> QED  BY <1>1, <1>2, <1>6, <1>7, <1>8, <1>9, <1>10, <1>11, <1>12, StillStep

\* The copy of a swapped page into its new frame changes no entry.
LEMMA GetpageCopyKeepsInv ==
  ASSUME PagingInv, NEW p \in Proc, getpage_copy(p)
  PROVE  PagingInv'
<1>1. /\ pc[p] = "in_copy" /\ pc' = [pc EXCEPT ![p] = "in_free"] /\ "in_free" \in Pcs
      /\ UNCHANGED <<inst, hand, sbrk, fpn, swpfpn, vic, idx, fifo, running_list, pt, queue_lock,
                     ram_free, swp_free>>
  BY DEF getpage_copy, Pcs
<1>2. /\ pc' \in [Proc -> Pcs] /\ pc'[p] = "in_free" /\ OthersStay(p)
      /\ FirstNew(p)' = FirstNew(p)
  BY <1>1, PlaceChanges
<1>3. fpn[p] \in Frame /\ req_swpoff(p) \in Slot /\ pt[p][inst[p].pgn] = Swapped(req_swpoff(p))
  BY <1>1, PageComingIn
<1>4. ram' \in [Frame -> Value \cup {NULL}]
  BY <1>3, InvGives DEF getpage_copy, __swap_cp_page, MEMPHY_write, PagingTypeOK
<1>5. PagingTypeOK'
  BY <1>2, <1>4, InvGives DEF getpage_copy, PagingTypeOK
<1>6. QueueLocked'
  BY <1>1, <1>2, InvGives DEF QueueLocked, OthersStay
<1>7. FirstNew(p) <= FirstNew(p)'
  BY <1>2, <1>5, FirstNewIsInt, InvGives, SMTT(30)
<1>8. ListsStay' /\ \A q \in Proc : VictimFits(q)'
  BY <1>1, <1>2, <1>5, <1>7, ListsStill, VictimsStay
<1>9. ThreadFits(p)'
  BY <1>1, <1>2, InvGives DEF ThreadFits
<1>10. pt[p][inst[p].pgn].st = "swapped"
  BY <1>3, SMTT(30) DEF Swapped
<1> QED  BY <1>1, <1>2, <1>5, <1>6, <1>7, <1>8, <1>9, <1>10, StillStep

(***************************************************************************)
(* Steps that move a slot of the swap device.                              *)
(***************************************************************************)

\* What is left of a thread when swap_out_victim_page() has no frame for it.
LEMMA SwapOutFailsFacts ==
  ASSUME PagingInv, NEW p \in Proc, pc[p] \in {"slot", "put_slot"}, SwapOutFails(p),
         UNCHANGED <<hand, sbrk>>
  PROVE  /\ pc' \in [Proc -> Pcs] /\ inst' \in [Proc -> Inst] /\ mmvm_lock' \in Proc \cup {NULL}
         /\ \A q \in Proc \ {p} : pc'[q] = pc[q] /\ inst'[q] = inst[q]
         /\ pc'[p] \in {"release", "idle"} /\ ThreadFits(p)' /\ FirstNew(p)' = FirstNew(p)
<1>1. PagingTypeOK /\ ThreadFits(p)
  BY InvGives
<1>2. CASE inst[p].op = "inc" /\ Continue(p, "release")
  <2>1. /\ pc' \in [Proc -> Pcs] /\ inst' = inst /\ mmvm_lock' \in Proc \cup {NULL}
        /\ inst \in [Proc -> Inst] /\ \A q \in Proc \ {p} : pc'[q] = pc[q]
        /\ pc'[p] = "release"
    BY <1>1, <1>2 DEF Continue, PagingTypeOK, Pcs
  <2>2. ThreadFits(p)'
    BY <1>1, <1>2, <2>1 DEF ThreadFits
  <2>3. FirstNew(p)' = FirstNew(p)
    BY <2>1 DEF FirstNew, NextPage
  <2> QED  BY <2>1, <2>2, <2>3
<1>3. CASE inst[p].op # "inc" /\ Return(p)
  <2>1. /\ pc' \in [Proc -> Pcs] /\ inst' \in [Proc -> Inst] /\ mmvm_lock' \in Proc \cup {NULL}
        /\ \A q \in Proc \ {p} : pc'[q] = pc[q] /\ inst'[q] = inst[q]
        /\ pc'[p] = "idle" /\ inst'[p].op = "none"
    BY <1>1, <1>3, ReturnFacts
  <2>2. ThreadFits(p)'
    BY <1>1, <1>3, <2>1 DEF ThreadFits
  <2>3. FirstNew(p)' = FirstNew(p)
    BY <1>3, <2>1 DEF FirstNew, NextPage
  <2> QED  BY <2>1, <2>2, <2>3
<1> QED  BY <1>2, <1>3 DEF SwapOutFails

\* swap_out_victim_page() takes a slot nobody has, or fails.
LEMMA SwapGetSlotKeepsInv ==
  ASSUME PagingInv, NEW p \in Proc, swap_get_slot(p)
  PROVE  PagingInv'
<1>1. /\ pc[p] = "slot"
      /\ UNCHANGED <<hand, sbrk, fpn, vic, idx, fifo, running_list, pt, queue_lock, ram_free>>
  BY DEF swap_get_slot
<1>2. CASE SwapOutFails(p) /\ UNCHANGED <<swp_free, swpfpn>>
  <2>1. /\ pc' \in [Proc -> Pcs] /\ inst' \in [Proc -> Inst] /\ mmvm_lock' \in Proc \cup {NULL}
        /\ \A q \in Proc \ {p} : pc'[q] = pc[q] /\ inst'[q] = inst[q]
        /\ pc'[p] \in {"release", "idle"} /\ ThreadFits(p)' /\ FirstNew(p)' = FirstNew(p)
    BY <1>1, <1>2, SwapOutFailsFacts
  <2>2. PagingTypeOK'
    BY <1>2, <2>1, InvGives DEF swap_get_slot, PagingTypeOK
  <2>3. OthersStay(p)
    BY <1>1, <1>2, <2>1 DEF OthersStay
  <2>4. FirstNew(p) <= FirstNew(p)'
    BY <2>1, <2>2, FirstNewIsInt, InvGives, SMTT(30)
  <2> QED  BY <1>1, <1>2, <2>1, <2>2, <2>3, <2>4, QuietStep
<1>3. ASSUME NEW t \in Slot, IsFree(swp_free, t), swp_free' = MEMPHY_get_freefp(swp_free, t),
             swpfpn' = [swpfpn EXCEPT ![p] = t], Continue(p, "victim_lock")
      PROVE  PagingInv'
  <2>1. /\ swp_free \in [Slot -> Nat] /\ swpfpn \in [Proc -> Nat] /\ pc \in [Proc -> Pcs]
        /\ swp_free[t] \in {0, 1} /\ t \in Nat
    <3>1. swp_free[t] \in {0, 1}
      BY InvGives DEF SlotHasOneOwner
    <3>2. t \in Nat
      BY PagingAssumption, SMTT(30) DEF Slot, Frames
    <3> QED  BY <3>1, <3>2, InvGives DEF PagingTypeOK
  <2>2. /\ swp_free[t] = 1 /\ swp_free'[t] = 0 /\ swp_free' \in [Slot -> Nat]
        /\ \A s \in Slot \ {t} : swp_free'[s] = swp_free[s]
    BY <1>3, <2>1, SMTT(30) DEF IsFree, MEMPHY_get_freefp
  <2>3. /\ pc' \in [Proc -> Pcs] /\ pc'[p] = "victim_lock" /\ inst' = inst /\ mmvm_lock' = mmvm_lock
        /\ swpfpn' \in [Proc -> Nat] /\ swpfpn'[p] = t
        /\ \A q \in Proc \ {p} : pc'[q] = pc[q] /\ swpfpn'[q] = swpfpn[q]
    BY <1>3, <2>1 DEF Continue, Pcs
  <2>4. PagingTypeOK'
    BY <2>2, <2>3, InvGives DEF swap_get_slot, PagingTypeOK
  <2>5. OthersStay(p)
    BY <1>1, <2>3 DEF OthersStay
  <2>6. ThreadFits(p)'
    BY <1>1, <2>3, InvGives DEF ThreadFits
  <2>7. FirstNew(p)' = FirstNew(p)
    BY <1>1, <2>3 DEF FirstNew, NextPage
  <2>8. FirstNew(p) <= FirstNew(p)'
    BY <2>4, <2>7, FirstNewIsInt, InvGives, SMTT(30)
  <2>9. QueueLocked'
    BY <1>1, <2>3, InvGives DEF QueueLocked
  <2>10. ListsStay' /\ \A q \in Proc : VictimFits(q)'
    BY <1>1, <2>3, <2>4, <2>5, <2>8, ListsStill, VictimsStay
  <2>11. inst[p].op \in {"read", "write"} => pt[p][inst[p].pgn].st = "swapped"
    BY <1>1, InvGives DEF TablesFit
  <2>12. TablesFit'
    BY <1>1, <2>3, <2>4, <2>5, <2>8, <2>11, TablesStill
  <2>13. FrameHasOneOwner'
    BY <1>1, <2>3, <2>5, FramesStill
  <2>14. SlotHasOneOwner'
    <3>1. \A q \in Proc, g \in Page, s \in Slot : SwappedTo(q, g, s)' <=> SwappedTo(q, g, s)
      BY <1>1, <2>3 DEF SwappedTo
    <3>2. \A q \in Proc, s \in Slot \ {t} : HoldsSlot(q, s)' <=> HoldsSlot(q, s)
      BY <1>1, <2>3 DEF HoldsSlot
    <3>3. \A q \in Proc : HoldsSlot(q, t)' <=> q = p
      <4>1. \A q \in Proc : ~HoldsSlot(q, t)
        BY <2>2, InvGives DEF SlotHasOneOwner
      <4> QED  BY <2>3, <4>1 DEF HoldsSlot
    <3>4. \A q \in Proc, g \in Page : ~SwappedTo(q, g, t)
      BY <2>2, InvGives DEF SlotHasOneOwner
    <3>5. SlotOwned(t)'
      BY <2>2, <3>1, <3>3, <3>4, SMTT(30) DEF SlotOwned
    <3> QED  BY <2>2, <3>1, <3>2, <3>5, SlotMoves, InvGives
  <2> QED  BY <2>4, <2>5, <2>6, <2>9, <2>10, <2>12, <2>13, <2>14, ThreadStays, InvGives, InvFollows
<1> QED  BY <1>2, <1>3 DEF swap_get_slot

\* swap_out_victim_page() gives the slot back when it has found no victim.
LEMMA SwapPutSlotKeepsInv ==
  ASSUME PagingInv, NEW p \in Proc, swap_put_slot(p)
  PROVE  PagingInv'
<1>1. /\ pc[p] = "put_slot" /\ swp_free' = MEMPHY_put_freefp(swp_free, swpfpn[p])
      /\ swpfpn' = [swpfpn EXCEPT ![p] = 0] /\ SwapOutFails(p)
      /\ UNCHANGED <<hand, sbrk, fpn, vic, idx, fifo, running_list, pt, queue_lock, ram_free>>
  BY DEF swap_put_slot
<1>2. /\ pc' \in [Proc -> Pcs] /\ inst' \in [Proc -> Inst] /\ mmvm_lock' \in Proc \cup {NULL}
      /\ \A q \in Proc \ {p} : pc'[q] = pc[q] /\ inst'[q] = inst[q]
      /\ pc'[p] \in {"release", "idle"} /\ ThreadFits(p)' /\ FirstNew(p)' = FirstNew(p)
  BY <1>1, SwapOutFailsFacts
<1>3. swpfpn[p] \in Slot
  BY <1>1, InvGives DEF ThreadFits
<1>4. swpfpn' \in [Proc -> Nat] /\ \A q \in Proc \ {p} : swpfpn'[q] = swpfpn[q]
  BY <1>1, InvGives DEF PagingTypeOK
<1>5. swp_free' \in [Slot -> Nat] /\ SlotHasOneOwner'
  <2>1. HoldsSlot(p, swpfpn[p])
    BY <1>1 DEF HoldsSlot
  <2>2. \A q \in Proc : HoldsSlot(q, swpfpn[p]) => q = p
    BY <1>3, <2>1, InvGives DEF SlotHasOneOwner
  <2>3. \A q \in Proc, g \in Page : ~SwappedTo(q, g, swpfpn[p])
    BY <1>3, <2>1, InvGives DEF SlotHasOneOwner
  <2>4. \A s \in Slot, q \in Proc : HoldsSlot(q, s)' <=> q # p /\ HoldsSlot(q, s)
    BY <1>2, <1>4 DEF HoldsSlot
  <2>5. \A s \in Slot, q \in Proc, g \in Page : SwappedTo(q, g, s)' <=> SwappedTo(q, g, s)
    BY <1>1, <1>2 DEF SwappedTo
  <2>6. \A s \in Slot \ {swpfpn[p]} : ~HoldsSlot(p, s)
    BY DEF HoldsSlot
  <2>7. PICK t \in Slot : t = swpfpn[p]
    BY <1>3
  <2> QED  BY <1>1, <2>1, <2>2, <2>3, <2>4, <2>5, <2>6, <2>7, SlotComesBack
<1>6. PagingTypeOK'
  BY <1>2, <1>4, <1>5, InvGives DEF swap_put_slot, PagingTypeOK
<1>7. OthersStay(p)
  BY <1>1, <1>2, <1>4 DEF OthersStay
<1>8. FirstNew(p) <= FirstNew(p)'
  BY <1>2, <1>6, FirstNewIsInt, InvGives, SMTT(30)
<1>9. QueueLocked'
  BY <1>1, <1>2, InvGives DEF QueueLocked
<1>10. ListsStay' /\ \A q \in Proc : VictimFits(q)'
  BY <1>1, <1>2, <1>6, <1>7, <1>8, ListsStill, VictimsStay
<1>11. TablesFit'
  BY <1>1, <1>2, <1>6, <1>7, <1>8, TablesStill
<1>12. FrameHasOneOwner'
  BY <1>1, <1>2, <1>7, FramesStill
<1> QED  BY <1>2, <1>5, <1>6, <1>7, <1>9, <1>10, <1>11, <1>12, ThreadStays, InvGives, InvFollows

\* pg_getpage() gives the slot of the page it has brought in back.
LEMMA GetpagePutSlotKeepsInv ==
  ASSUME PagingInv, NEW p \in Proc, getpage_put_slot(p)
  PROVE  PagingInv'
<1>1. /\ pc[p] = "in_free" /\ pc' = [pc EXCEPT ![p] = "in_set"] /\ "in_set" \in Pcs
      /\ swp_free' = MEMPHY_put_freefp(swp_free, req_swpoff(p))
      /\ UNCHANGED <<inst, hand, sbrk, fpn, swpfpn, vic, idx, fifo, running_list, pt, queue_lock,
                     ram_free>>
  BY DEF getpage_put_slot, Pcs
<1>2. /\ pc' \in [Proc -> Pcs] /\ pc'[p] = "in_set" /\ OthersStay(p)
      /\ FirstNew(p)' = FirstNew(p)
  BY <1>1, PlaceChanges
<1>3. PICK t \in Slot : t = req_swpoff(p) /\ pt[p][inst[p].pgn] = Swapped(t) /\ inst[p].pgn \in Page
  BY <1>1, PageComingIn
<1>4. swp_free' \in [Slot -> Nat] /\ SlotHasOneOwner'
  <2>1. SwappedTo(p, inst[p].pgn, t)
    BY <1>1, <1>3 DEF SwappedTo
  <2>2. \A q \in Proc : ~HoldsSlot(q, t)
    BY <1>3, <2>1, InvGives DEF SlotHasOneOwner
  <2>3. \A q \in Proc, g \in Page : SwappedTo(q, g, t) => q = p /\ g = inst[p].pgn
    BY <1>3, <2>1, InvGives DEF SlotHasOneOwner
  <2>4. \A s \in Slot, q \in Proc : HoldsSlot(q, s)' <=> HoldsSlot(q, s)
    BY <1>1, <1>2 DEF HoldsSlot, OthersStay
  <2>5. \A s \in Slot, q \in Proc, g \in Page :
          SwappedTo(q, g, s)' <=> SwappedTo(q, g, s) /\ ~(q = p /\ g = inst[p].pgn)
    BY <1>1, <1>2 DEF SwappedTo, OthersStay
  <2>6. \A s \in Slot \ {t} : ~SwappedTo(p, inst[p].pgn, s)
    BY <1>3, PteFacts, SMTT(30) DEF SwappedTo
  <2>7. \A q \in Proc : ~HoldsSlot(q, t)' /\ \A g \in Page : ~SwappedTo(q, g, t)'
    BY <2>2, <2>3, <2>4, <2>5
  <2>8. \A s \in Slot \ {t}, q \in Proc, g \in Page : SwappedTo(q, g, s)' <=> SwappedTo(q, g, s)
    BY <2>5, <2>6
  <2> QED  BY <1>1, <1>3, <2>1, <2>4, <2>7, <2>8, SlotComesBack
<1>5. PagingTypeOK'
  BY <1>2, <1>4, InvGives DEF getpage_put_slot, PagingTypeOK
<1>6. FirstNew(p) <= FirstNew(p)'
  BY <1>2, <1>5, FirstNewIsInt, InvGives, SMTT(30)
<1>7. QueueLocked'
  BY <1>1, <1>2, InvGives DEF QueueLocked, OthersStay
<1>8. ListsStay' /\ \A q \in Proc : VictimFits(q)'
  BY <1>1, <1>2, <1>5, <1>6, ListsStill, VictimsStay
<1>9. pt[p][inst[p].pgn].st = "swapped"
  BY <1>3, PteFacts, SMTT(30)
<1>10. TablesFit'
  BY <1>1, <1>2, <1>5, <1>6, <1>9, TablesStill
<1>11. FrameHasOneOwner'
  BY <1>1, <1>2, FramesStill
<1>12. ThreadFits(p)'
  BY <1>1, <1>2, InvGives DEF ThreadFits
<1> QED  BY <1>2, <1>4, <1>5, <1>7, <1>8, <1>10, <1>11, <1>12, ThreadStays, InvGives, InvFollows
----------------------------------------------------------------------------
(* The steps that move a frame keep the invariant.                         *)

\* A thread that grows a heap gets frame f, which it does not have yet.
LEMMA ObtainFacts ==
  ASSUME PagingInv, NEW p \in Proc, NEW f \in Frame, inst[p].op = "inc",
         pc[p] \in {"frame", "pte_swap"}, f \notin Elements(hand[p]), Obtain(p, f),
         UNCHANGED <<inst, sbrk>>
  PROVE  /\ pc' \in [Proc -> Pcs] /\ hand' \in [Proc -> Seq(Frame)]
         /\ \A q \in Proc \ {p} : pc'[q] = pc[q] /\ hand'[q] = hand[q]
         /\ pc'[p] \in {"map", "frame"} /\ Elements(hand'[p]) = Elements(hand[p]) \cup {f}
         /\ ThreadFits(p)' /\ FirstNew(p)' = FirstNew(p)
<1>1. /\ PagingTypeOK /\ ThreadFits(p)
      /\ hand' = [hand EXCEPT ![p] = Append(@, f)]
      /\ pc' = [pc EXCEPT ![p] = IF Len(hand[p]) + 1 = inst[p].n THEN "map" ELSE "frame"]
  BY InvGives DEF Obtain
<1>2. hand \in [Proc -> Seq(Frame)] /\ pc \in [Proc -> Pcs]
  BY <1>1 DEF PagingTypeOK
<1>3. hand[p] \in Seq(Frame) /\ Len(hand[p]) \in Nat
  BY <1>2, SMTT(30)
<1>4. inst[p].n \in Nat /\ sbrk[p] \in Nat /\ inst[p].n \in 1 .. sbrk[p] /\ Len(hand[p]) < inst[p].n
  <2>1. inst[p].n \in Nat /\ sbrk[p] \in Nat
    BY <1>1, PagingAssumption, SMTT(30) DEF PagingTypeOK, Inst
  <2> QED  BY <1>1, <2>1 DEF ThreadFits
<1>5. NoDuplicates(hand[p])
  BY <1>1 DEF ThreadFits
<1>6. /\ hand'[p] \in Seq(Frame) /\ Len(hand'[p]) = Len(hand[p]) + 1
      /\ Elements(hand'[p]) = Elements(hand[p]) \cup {f} /\ NoDuplicates(hand'[p])
  BY <1>1, <1>2, <1>3, <1>5, EnqueueProperties, SMTT(30) DEF enqueue
<1>7. hand' \in [Proc -> Seq(Frame)] /\ \A q \in Proc \ {p} : hand'[q] = hand[q]
  BY <1>1, <1>2, <1>6
<1>8. /\ pc' \in [Proc -> Pcs] /\ \A q \in Proc \ {p} : pc'[q] = pc[q]
      /\ pc'[p] = IF Len(hand[p]) + 1 = inst[p].n THEN "map" ELSE "frame"
  BY <1>1, <1>2 DEF Pcs
<1>9. hand'[p] # << >>
  BY <1>3, <1>6, SMTT(30)
<1>10. ThreadFits(p)'
  BY <1>3, <1>4, <1>6, <1>8, <1>9, SMTT(30) DEF ThreadFits
<1>11. FirstNew(p)' = FirstNew(p)
  BY <1>3, <1>4, <1>6, <1>8 DEF FirstNew, NextPage
<1> QED  BY <1>6, <1>7, <1>8, <1>10, <1>11

\* alloc_pages_range() takes a frame nobody has, or looks for a victim.
LEMMA AllocFrameKeepsInv ==
  ASSUME PagingInv, NEW p \in Proc, alloc_frame(p)
  PROVE  PagingInv'
<1>1. /\ pc[p] = "frame" /\ inst[p].op = "inc"
      /\ UNCHANGED <<swp_free, pt, fifo, sbrk, running_list, queue_lock, inst, fpn, swpfpn, vic, idx>>
  BY InvGives DEF alloc_frame, ThreadFits
<1>2. CASE goto(p, "slot") /\ UNCHANGED <<ram_free, hand>>
  <2>1. "slot" \in Pcs
    BY DEF Pcs
  <2>2. /\ pc' \in [Proc -> Pcs] /\ pc'[p] = "slot" /\ OthersStay(p)
        /\ FirstNew(p)' = FirstNew(p)
    BY <1>1, <1>2, <2>1, PlaceChanges
  <2>3. PagingTypeOK'
    BY <1>2, <2>2, InvGives DEF alloc_frame, PagingTypeOK
  <2>4. ThreadFits(p)'
    BY <1>1, <1>2, <2>2, InvGives DEF ThreadFits
  <2>5. FirstNew(p) <= FirstNew(p)'
    BY <2>2, <2>3, FirstNewIsInt, InvGives, SMTT(30)
  <2> QED  BY <1>1, <1>2, <2>2, <2>3, <2>4, <2>5, QuietStep
<1>3. ASSUME NEW t \in Frame, IsFree(ram_free, t), ram_free' = MEMPHY_get_freefp(ram_free, t),
             Obtain(p, t)
      PROVE  PagingInv'
  <2>1. ram_free \in [Frame -> Nat] /\ ram_free[t] \in {0, 1}
    BY InvGives DEF PagingTypeOK, FrameHasOneOwner
  <2>2. /\ ram_free[t] = 1 /\ ram_free'[t] = 0 /\ ram_free' \in [Frame -> Nat]
        /\ \A f \in Frame \ {t} : ram_free'[f] = ram_free[f]
    BY <1>3, <2>1, SMTT(30) DEF IsFree, MEMPHY_get_freefp
  <2>3. \A q \in Proc : ~Holds(q, t) /\ \A g \in Page : ~Maps(q, g, t)
    BY <2>2, InvGives DEF FrameHasOneOwner
  <2>4. t \notin Elements(hand[p])
    BY <2>3 DEF Holds
  <2>5. /\ pc' \in [Proc -> Pcs] /\ hand' \in [Proc -> Seq(Frame)]
        /\ \A q \in Proc \ {p} : pc'[q] = pc[q] /\ hand'[q] = hand[q]
        /\ pc'[p] \in {"map", "frame"} /\ Elements(hand'[p]) = Elements(hand[p]) \cup {t}
        /\ ThreadFits(p)' /\ FirstNew(p)' = FirstNew(p)
    BY <1>1, <1>3, <2>4, ObtainFacts
  <2>6. PagingTypeOK'
    BY <2>2, <2>5, InvGives DEF alloc_frame, PagingTypeOK
  <2>7. OthersStay(p)
    BY <1>1, <2>5 DEF OthersStay
  <2>8. FirstNew(p) <= FirstNew(p)'
    BY <2>5, <2>6, FirstNewIsInt, InvGives, SMTT(30)
  <2>9. QueueLocked'
    BY <1>1, <2>5, InvGives DEF QueueLocked
  <2>10. ListsStay' /\ \A q \in Proc : VictimFits(q)'
    BY <1>1, <2>5, <2>6, <2>7, <2>8, ListsStill, VictimsStay
  <2>11. TablesFit'
    BY <1>1, <2>5, <2>6, <2>7, <2>8, TablesStill
  <2>12. SlotHasOneOwner'
    BY <1>1, <2>5, <2>7, SlotsStill
  <2>13. FrameHasOneOwner'
    <3>1. \A q \in Proc, g \in Page, f \in Frame : Maps(q, g, f)' <=> Maps(q, g, f)
      BY <1>1 DEF Maps
    <3>2. \A q \in Proc, f \in Frame : Holds(q, f)' <=> Holds(q, f) \/ (q = p /\ f = t)
      BY <1>1, <2>5 DEF Holds
    <3>3. FrameOwned(t)'
      BY <2>2, <2>3, <3>1, <3>2, SMTT(30) DEF FrameOwned
    <3> QED  BY <2>2, <3>1, <3>2, <3>3, FrameMoves, InvGives
  <2> QED  BY <2>5, <2>6, <2>7, <2>9, <2>10, <2>11, <2>12, <2>13, ThreadStays, InvGives, InvFollows
<1> QED  BY <1>2, <1>3 DEF alloc_frame

\* release_frame_list() gives back every frame the thread had in its hand.
LEMMA ReleaseFrameListKeepsInv ==
  ASSUME PagingInv, NEW p \in Proc, release_frame_list(p)
  PROVE  PagingInv'
<1>1. /\ pc[p] = "release" /\ inst[p].op = "inc" /\ PagingTypeOK /\ ThreadFits(p)
      /\ UNCHANGED <<swp_free, pt, fifo, sbrk, running_list, queue_lock, fpn, swpfpn, vic, idx>>
  BY InvGives DEF release_frame_list, ThreadFits
<1>2. CASE hand[p] = << >> /\ Return(p) /\ UNCHANGED <<ram_free, hand>>
  <2>1. /\ pc' \in [Proc -> Pcs] /\ inst' \in [Proc -> Inst] /\ mmvm_lock' \in Proc \cup {NULL}
        /\ \A q \in Proc \ {p} : pc'[q] = pc[q] /\ inst'[q] = inst[q]
        /\ pc'[p] = "idle" /\ inst'[p].op = "none"
    BY <1>1, <1>2, ReturnFacts
  <2>2. PagingTypeOK'
    BY <1>2, <2>1, InvGives DEF release_frame_list, PagingTypeOK
  <2>3. OthersStay(p)
    BY <1>1, <1>2, <2>1 DEF OthersStay
  <2>4. ThreadFits(p)'
    BY <1>1, <1>2, <2>1 DEF ThreadFits
  <2>5. FirstNew(p) <= FirstNew(p)'
    <3>1. inst[p].n \in Nat /\ sbrk[p] \in Nat
      BY <1>1, PagingAssumption, SMTT(30) DEF PagingTypeOK, Inst
    <3> QED  BY <1>1, <2>1, <3>1, SMTT(30) DEF FirstNew
  <2> QED  BY <1>1, <1>2, <2>1, <2>2, <2>3, <2>4, <2>5, QuietStep
<1>3. CASE /\ hand[p] # << >> /\ ram_free' = MEMPHY_put_freefp(ram_free, Head(hand[p]))
           /\ hand' = [hand EXCEPT ![p] = Tail(@)] /\ UNCHANGED <<pc, mmvm_lock, inst>>
  <2>1. hand \in [Proc -> Seq(Frame)]
    BY <1>1 DEF PagingTypeOK
  <2>2. hand[p] \in Seq(Frame) /\ NoDuplicates(hand[p])
    BY <1>1, <2>1 DEF ThreadFits
  <2>3. PICK t \in Frame : t = Head(hand[p])
    BY <1>3, <2>2, TailProperties
  <2>4. /\ hand'[p] \in Seq(Frame) /\ Len(hand'[p]) = Len(hand[p]) - 1 /\ Len(hand[p]) \in Nat \ {0}
        /\ Elements(hand[p]) = Elements(hand'[p]) \cup {t} /\ NoDuplicates(hand'[p])
        /\ t \notin Elements(hand'[p])
    BY <1>3, <2>1, <2>2, <2>3, TailProperties
  <2>5. hand' \in [Proc -> Seq(Frame)] /\ \A q \in Proc \ {p} : hand'[q] = hand[q]
    BY <1>3, <2>1, <2>4
  <2>6. OthersStay(p)
    BY <1>1, <1>3, <2>5 DEF OthersStay
  <2>7. ram_free' \in [Frame -> Nat] /\ FrameHasOneOwner'
    <3>1. \A q \in Proc, g \in Page, f \in Frame : Maps(q, g, f)' <=> Maps(q, g, f)
      BY <1>1 DEF Maps
    <3>2. \A q \in Proc, f \in Frame : Holds(q, f)' <=> Holds(q, f) /\ ~(q = p /\ f = t)
      BY <1>1, <1>3, <2>4, <2>5 DEF Holds
    <3>3. Holds(p, t)
      BY <2>4 DEF Holds
    <3>4. \A q \in Proc : (Holds(q, t) => q = p) /\ \A g \in Page : ~Maps(q, g, t)
      BY <3>3, InvGives DEF FrameHasOneOwner
    <3> QED  BY <1>3, <2>3, <3>1, <3>2, <3>3, <3>4, FrameComesBack
  <2>8. PagingTypeOK'
    BY <1>3, <2>5, <2>7, InvGives DEF release_frame_list, PagingTypeOK
  <2>9. ThreadFits(p)'
    <3>1. inst[p].n \in Nat
      BY <1>1 DEF PagingTypeOK, Inst
    <3> QED  BY <1>1, <1>3, <2>4, <3>1, SMTT(30) DEF ThreadFits
  <2>10. FirstNew(p)' = FirstNew(p)
    BY <1>1, <1>3 DEF FirstNew
  <2>11. FirstNew(p) <= FirstNew(p)'
    BY <1>1, <2>8, <2>10, FirstNewIsInt, SMTT(30)
  <2>12. QueueLocked'
    BY <1>1, <1>3, InvGives DEF QueueLocked
  <2>13. ListsStay' /\ \A q \in Proc : VictimFits(q)'
    BY <1>1, <1>3, <2>6, <2>8, <2>11, ListsStill, VictimsStay
  <2>14. TablesFit'
    BY <1>1, <1>3, <2>6, <2>8, <2>11, TablesStill
  <2>15. SlotHasOneOwner'
    BY <1>1, <1>3, <2>6, SlotsStill
  <2> QED  BY <2>6, <2>7, <2>8, <2>9, <2>12, <2>13, <2>14, <2>15, ThreadStays, InvGives, InvFollows
<1> QED  BY <1>2, <1>3 DEF release_frame_list

\* What the threads rely on when one entry of a table changes, which did not hold
\* the page of a thread that brings it in.
LEMMA EntryChanges ==
  ASSUME PagingInv, NEW p \in Proc, OthersStay(p), PagingTypeOK', NEW v \in Proc, NEW g \in Page,
         \A r \in Proc, h \in Page : r # v \/ h # g => pt'[r][h] = pt[r][h],
         FirstNew(p) <= FirstNew(p)', pt'[v][g] = None \/ g < FirstNew(v)',
         \A r \in Proc \ {p} : r = v => pt[v][g].st # "swapped",
         pc'[p] \in SwapPcs \cup InPcs /\ inst'[p].op \in {"read", "write"} =>
           inst'[p].pgn \in Page /\ pt'[p][inst'[p].pgn].st = "swapped",
         pt'[v][g] = None \/ pc'[v] # "dead", pc'[p] # "dead"
  PROVE  TablesFit'
<1>1. \A q \in Proc : /\ FirstNew(q) \in Int /\ FirstNew(q)' \in Int
                      /\ FirstNew(q) <= FirstNew(q)'
  BY ThreadStays, FirstNewIsInt, InvGives, SMTT(30)
<1>2. \A q \in Proc, h \in Page : h >= FirstNew(q)' => pt'[q][h] = None
  <2> SUFFICES ASSUME NEW q \in Proc, NEW h \in Page, h >= FirstNew(q)' PROVE pt'[q][h] = None
    OBVIOUS
  <2>1. h >= FirstNew(q) /\ h \in Int
    BY <1>1, SMTT(30) DEF Page
  <2>2. pt[q][h] = None
    BY <2>1, InvGives DEF TablesFit
  <2>3. CASE q = v /\ h = g
    BY <1>1, <2>1, <2>3, SMTT(30)
  <2> QED  BY <2>2, <2>3
<1>3. \A q \in Proc \ {p} : /\ inst'[q] = inst[q] /\ pc'[q] = pc[q]
                            /\ ThreadFits(q)
  BY InvGives DEF OthersStay
<1>4. \A q \in Proc \ {p} :
        inst[q].op \in {"read", "write"} /\ pc[q] \in SwapPcs \cup InPcs =>
          pt'[q][inst[q].pgn].st = "swapped"
  <2> SUFFICES ASSUME NEW q \in Proc \ {p}, inst[q].op \in {"read", "write"},
                      pc[q] \in SwapPcs \cup InPcs
               PROVE  pt'[q][inst[q].pgn].st = "swapped"
    OBVIOUS
  <2>1. inst[q].pgn \in Page
    BY <1>3 DEF ThreadFits
  <2>2. pt[q][inst[q].pgn].st = "swapped"
    BY InvGives DEF TablesFit
  <2> QED  BY <2>1, <2>2
<1>5. \A q \in Proc : pc'[q] = "dead" => \A h \in Page : pt'[q][h] = None
  BY <1>3, InvGives, SMTT(30) DEF TablesFit
<1>6. \A q \in Proc :
        inst'[q].op \in {"read", "write"} /\ pc'[q] \in SwapPcs \cup InPcs =>
          pt'[q][inst'[q].pgn].st = "swapped"
  <2> SUFFICES ASSUME NEW q \in Proc, inst'[q].op \in {"read", "write"},
                      pc'[q] \in SwapPcs \cup InPcs
               PROVE  pt'[q][inst'[q].pgn].st = "swapped"
    OBVIOUS
  <2> HIDE DEF SwapPcs, InPcs
  <2>1. CASE q = p
    BY <2>1
  <2>2. CASE q # p
    <3>1. q \in Proc \ {p} /\ inst'[q] = inst[q] /\ pc'[q] = pc[q]
      BY <1>3, <2>2
    <3>2. pt'[q][inst[q].pgn].st = "swapped"
      BY <1>4, <3>1
    <3> QED  BY <3>1, <3>2
  <2> QED  BY <2>1, <2>2
<1> QED  BY <1>2, <1>5, <1>6 DEF TablesFit

\* vmap_page_range() maps a new page to the next frame in the hand.
LEMMA PteSetFpnKeepsInv ==
  ASSUME PagingInv, NEW p \in Proc, pte_set_fpn(p)
  PROVE  PagingInv'
<1>1. /\ pc[p] = "map" /\ inst[p].op = "inc" /\ hand[p] # << >> /\ PagingTypeOK /\ ThreadFits(p)
      /\ pt' = [pt EXCEPT ![p][NextPage(p)] = Present(Head(hand[p]))]
      /\ hand' = [hand EXCEPT ![p] = Tail(@)] /\ pc' = [pc EXCEPT ![p] = "enlist_read"]
      /\ UNCHANGED <<ram_free, swp_free, fifo, sbrk, running_list, queue_lock, inst, fpn, swpfpn, vic, idx>>
  BY InvGives DEF pte_set_fpn, ThreadFits
<1>2. /\ hand \in [Proc -> Seq(Frame)] /\ pc \in [Proc -> Pcs] /\ pt \in [Proc -> [Page -> Pte]]
      /\ sbrk[p] \in 0 .. MaxPages /\ inst[p].n \in Nat
  BY <1>1 DEF PagingTypeOK, Inst
<1>3. hand[p] \in Seq(Frame) /\ NoDuplicates(hand[p]) /\ Len(hand[p]) <= inst[p].n /\ inst[p].n <= sbrk[p]
  <2>1. NoDuplicates(hand[p]) /\ inst[p].n \in 1 .. sbrk[p] /\ Len(hand[p]) <= inst[p].n
    BY <1>1 DEF ThreadFits
  <2> QED  BY <1>2, <2>1, SMTT(30)
<1>4. PICK t \in Frame : t = Head(hand[p])
  BY <1>1, <1>3, TailProperties
<1>5. /\ hand'[p] \in Seq(Frame) /\ Len(hand'[p]) = Len(hand[p]) - 1 /\ Len(hand[p]) \in Nat \ {0}
      /\ Elements(hand[p]) = Elements(hand'[p]) \cup {t} /\ NoDuplicates(hand'[p])
      /\ t \notin Elements(hand'[p])
  BY <1>1, <1>2, <1>3, <1>4, TailProperties
<1>6. hand' \in [Proc -> Seq(Frame)] /\ \A q \in Proc \ {p} : hand'[q] = hand[q]
  BY <1>1, <1>2, <1>5
<1>7. PICK g \in Page : g = NextPage(p) /\ g = FirstNew(p)
  BY <1>1, <1>2, <1>3, <1>5, PagingAssumption, SMTT(30) DEF NextPage, Page, FirstNew
<1>8. pt[p][g] = None
  <2>1. g >= FirstNew(p)
    BY <1>7, SMTT(30) DEF Page
  <2> QED  BY <2>1, InvGives DEF TablesFit
<1>9. /\ pt' \in [Proc -> [Page -> Pte]] /\ pt'[p][g] = Present(t)
      /\ \A r \in Proc, h \in Page : r # p \/ h # g => pt'[r][h] = pt[r][h]
  BY <1>1, <1>2, <1>4, <1>7, PteFacts, SMTT(30)
<1>10. /\ pc' \in [Proc -> Pcs] /\ pc'[p] = "enlist_read" /\ \A q \in Proc \ {p} : pc'[q] = pc[q]
  BY <1>1, <1>2 DEF Pcs
<1>11. PagingTypeOK'
  BY <1>6, <1>9, <1>10, InvGives DEF pte_set_fpn, PagingTypeOK
<1>12. OthersStay(p)
  BY <1>1, <1>6, <1>10 DEF OthersStay
<1>13. ThreadFits(p)'
  <2>1. inst[p].n \in 1 .. sbrk[p]
    BY <1>1 DEF ThreadFits
  <2>2. Len(hand'[p]) < inst[p].n /\ Len(hand'[p]) <= inst[p].n
    BY <1>2, <1>3, <1>5, SMTT(30)
  <2> QED  BY <1>1, <1>5, <1>10, <2>1, <2>2 DEF ThreadFits
<1>14. FirstNew(p)' = g + 1 /\ FirstNew(p) <= FirstNew(p)' /\ g < FirstNew(p)'
  <2>1. FirstNew(p)' = NextPage(p)' /\ sbrk' = sbrk
    BY <1>1, <1>10 DEF FirstNew
  <2>2. g \in Int /\ sbrk[p] \in Int
    BY <1>2, PagingAssumption, SMTT(30) DEF Page
  <2> QED  BY <1>5, <1>7, <2>1, <2>2, SMTT(30) DEF NextPage
<1>15. QueueLocked'
  BY <1>1, <1>10, InvGives DEF QueueLocked
<1>16. ListsStay'
  BY <1>1, <1>10, <1>12, ListsStill
<1>17. \A q \in Proc : VictimFits(q)'
  <2>1. g >= FirstNew(p)
    BY <1>7, SMTT(30) DEF Page
  <2>2. \A r \in Proc, h \in Page :
          pt'[r][h] = pt[r][h] \/ (r = p /\ (pt[p][h].st = "swapped" \/ h >= FirstNew(p) \/ pc[p] \in AwayPcs))
    BY <1>9, <2>1
  <2> QED  BY <1>1, <1>10, <1>11, <1>12, <1>14, <2>2, VictimsStay
<1>18. TablesFit'
  <2>1. pc'[p] \notin SwapPcs \cup InPcs /\ pc'[p] # "dead"
    BY <1>10
  <2>2. \A r \in Proc, h \in Page : r # p \/ h # g => pt'[r][h] = pt[r][h]
    BY <1>9
  <2>3. FirstNew(p) <= FirstNew(p)' /\ g < FirstNew(p)'
    BY <1>14
  <2> QED  BY <1>11, <1>12, <2>1, <2>2, <2>3, EntryChanges
<1>19. FrameHasOneOwner'
  <2>1. \A q \in Proc, f \in Frame : Holds(q, f)' <=> Holds(q, f) /\ ~(q = p /\ f = t)
    BY <1>1, <1>5, <1>6, <1>10 DEF Holds
  <2>2. \A q \in Proc, h \in Page, f \in Frame :
          Maps(q, h, f)' <=> Maps(q, h, f) \/ (q = p /\ h = g /\ f = t)
    BY <1>8, <1>9, PteFacts, SMTT(30) DEF Maps
  <2>3. Holds(p, t)
    BY <1>5 DEF Holds
  <2>4. /\ \A q \in Proc : (Holds(q, t) => q = p) /\ \A h \in Page : ~Maps(q, h, t)
        /\ ram_free[t] = 0
    BY <2>3, InvGives DEF FrameHasOneOwner
  <2>5. FrameOwned(t)'
    BY <1>1, <2>1, <2>2, <2>4, SMTT(30) DEF FrameOwned
  <2> QED  BY <1>1, <2>1, <2>2, <2>5, FrameMoves, InvGives
<1>20. SlotHasOneOwner'
  <2>1. \A q \in Proc, s \in Slot : HoldsSlot(q, s)' <=> HoldsSlot(q, s)
    BY <1>1, <1>10 DEF HoldsSlot
  <2>2. \A q \in Proc, h \in Page, s \in Slot : SwappedTo(q, h, s)' <=> SwappedTo(q, h, s)
    BY <1>1, <1>8, <1>9, <1>10, PteFacts, SMTT(30) DEF SwappedTo
  <2> QED  BY <1>1, <2>1, <2>2, SlotsStay, InvGives
<1> QED  BY <1>11, <1>12, <1>13, <1>15, <1>16, <1>17, <1>18, <1>19, <1>20, ThreadStays, InvGives, InvFollows

\* A page loses its frame: only the thread that holds queue_lock does this.
LEMMA PteSetSwapClearKeepsInv ==
  ASSUME PagingInv, NEW p \in Proc, pte_set_swap_clear(p)
  PROVE  PagingInv'
<1>1. /\ pc[p] = "pte_clear" /\ pc' = [pc EXCEPT ![p] = "pte_swap"] /\ "pte_swap" \in Pcs
      /\ pt' = [pt EXCEPT ![vic[p][1]][vic[p][2]] = None]
      /\ UNCHANGED <<ram_free, swp_free, fifo, sbrk, running_list, queue_lock, inst, hand, fpn, swpfpn,
                     vic, idx>>
      /\ VictimFits(p) /\ ThreadFits(p) /\ PagingTypeOK
  BY InvGives DEF pte_set_swap_clear, Pcs
<1>2. /\ pc' \in [Proc -> Pcs] /\ pc'[p] = "pte_swap" /\ OthersStay(p)
      /\ FirstNew(p)' = FirstNew(p)
  BY <1>1, PlaceChanges
<1>3. vic[p][1] \in Proc /\ vic[p][2] \in Page /\ Maps(vic[p][1], vic[p][2], fpn[p])
  BY <1>1 DEF VictimFits, PagingTypeOK
<1>4. PICK v \in Proc, g \in Page : v = vic[p][1] /\ g = vic[p][2]
  BY <1>3
<1>5. /\ pt \in [Proc -> [Page -> Pte]] /\ pt[v][g] = Present(fpn[p])
      /\ v = p \/ v \in Elements(running_list)
  BY <1>1, <1>3, <1>4 DEF PagingTypeOK, Maps, VictimFits
<1>6. PICK t \in Frame : t = fpn[p]
  <2>1. Present(fpn[p]).st = "present" /\ Present(fpn[p]).n = fpn[p]
    BY DEF Present
  <2>2. pt[v][g] \in Pte
    BY <1>5
  <2> QED  BY <1>5, <2>1, <2>2, PteFacts
<1>7. /\ pt' \in [Proc -> [Page -> Pte]] /\ pt'[v][g] = None
      /\ \A r \in Proc, h \in Page : r # v \/ h # g => pt'[r][h] = pt[r][h]
  BY <1>1, <1>4, <1>5, PteFacts, SMTT(30)
<1>8. PagingTypeOK'
  BY <1>2, <1>7, InvGives DEF pte_set_swap_clear, PagingTypeOK
<1>9. FirstNew(p) <= FirstNew(p)'
  BY <1>1, <1>2, <1>8, FirstNewIsInt, SMTT(30)
<1>10. /\ Maps(v, g, t) /\ \A q \in Proc : ~Holds(q, t)
       /\ \A q \in Proc, h \in Page : Maps(q, h, t) => q = v /\ h = g
       /\ ram_free[t] = 0
  <2>1. Maps(v, g, t)
    BY <1>5, <1>6 DEF Maps
  <2> QED  BY <2>1, InvGives DEF FrameHasOneOwner
<1>11. ThreadFits(p)'
  <2>1. t \notin Elements(hand[p])
    BY <1>10 DEF Holds
  <2> QED  BY <1>1, <1>2, <1>6, <2>1 DEF ThreadFits
<1>12. QueueLocked'
  BY <1>1, <1>2, InvGives DEF QueueLocked, OthersStay
<1>13. ListsStay'
  BY <1>1, <1>2, ListsStill
<1>14. pt[v][g] # None /\ pt[v][g].st = "present"
  BY <1>5, <1>6, PteFacts, SMTT(30)
<1>15. \A q \in Proc : VictimFits(q)'
  <2>1. \A q \in Proc \ {p} : pc[q] \notin LockedPcs
    BY <1>1, OneSearches
  <2>2. \A r \in Proc : FirstNew(r)' = FirstNew(r) /\ FirstNew(r) \in Int
    BY <1>1, <1>2, <1>8, ThreadStays, FirstNewIsInt
  <2>3. g < FirstNew(v)'
    <3>1. ~(g >= FirstNew(v))
      BY <1>14, InvGives DEF TablesFit
    <3> QED  BY <2>2, <3>1, SMTT(30) DEF Page
  <2>4. VictimFits(p)'
    <3>1. vic'[p] = vic[p] /\ vic'[p][1] = v /\ vic'[p][2] = g /\ running_list' = running_list
      BY <1>1, <1>4
    <3> QED  BY <1>2, <1>5, <1>7, <2>3, <3>1 DEF VictimFits
  <2> QED  BY <1>2, <2>1, <2>4 DEF VictimFits, OthersStay
<1>16. TablesFit'
  <2>1. pc'[p] \in SwapPcs \cup InPcs /\ inst'[p].op \in {"read", "write"} =>
           inst'[p].pgn \in Page /\ pt'[p][inst'[p].pgn].st = "swapped"
    <3> SUFFICES ASSUME inst[p].op \in {"read", "write"}
                 PROVE  inst[p].pgn \in Page /\ pt'[p][inst[p].pgn].st = "swapped"
      BY <1>1
    <3>1. inst[p].pgn \in Page
      BY <1>1 DEF ThreadFits
    <3>2. pt[p][inst[p].pgn].st = "swapped"
      BY <1>1, InvGives DEF TablesFit
    <3> QED  BY <1>7, <1>14, <3>1, <3>2
  <2>2. \A r \in Proc, h \in Page : r # v \/ h # g => pt'[r][h] = pt[r][h]
    BY <1>7
  <2>3. pc'[p] # "dead" /\ pt'[v][g] = None /\ pt[v][g].st # "swapped"
    BY <1>2, <1>7, <1>14
  <2> QED  BY <1>2, <1>8, <1>9, <2>1, <2>2, <2>3, EntryChanges
<1>17. FrameHasOneOwner'
  <2>1. \A q \in Proc, f \in Frame : Holds(q, f)' <=> Holds(q, f) \/ (q = p /\ f = t)
    BY <1>1, <1>2, <1>6 DEF Holds, OthersStay
  <2>2. \A q \in Proc, h \in Page, f \in Frame :
          Maps(q, h, f)' <=> Maps(q, h, f) /\ ~(q = v /\ h = g)
    BY <1>7, PteFacts, SMTT(30) DEF Maps
  <2>3. \A f \in Frame \ {t} : ~Maps(v, g, f)
    BY <1>5, <1>6, PteFacts, SMTT(30) DEF Maps
  <2>4. FrameOwned(t)'
    BY <1>1, <1>10, <2>1, <2>2, SMTT(30) DEF FrameOwned
  <2> QED  BY <1>1, <2>1, <2>2, <2>3, <2>4, FrameMoves, InvGives
<1>18. SlotHasOneOwner'
  <2>1. \A q \in Proc, s \in Slot : HoldsSlot(q, s)' <=> HoldsSlot(q, s)
    BY <1>1, <1>2 DEF HoldsSlot, OthersStay
  <2>2. \A q \in Proc, h \in Page, s \in Slot : SwappedTo(q, h, s)' <=> SwappedTo(q, h, s)
    BY <1>1, <1>2, <1>7, <1>14, PteFacts, SMTT(30) DEF SwappedTo, OthersStay
  <2> QED  BY <1>1, <2>1, <2>2, SlotsStay, InvGives
<1> QED  BY <1>2, <1>8, <1>11, <1>12, <1>13, <1>15, <1>16, <1>17, <1>18, ThreadStays, InvGives, InvFollows

\* The page is in its slot and the frame is the caller's.
LEMMA PteSetSwapKeepsInv ==
  ASSUME PagingInv, NEW p \in Proc, pte_set_swap(p)
  PROVE  PagingInv'
<1>1. /\ pc[p] = "pte_swap" /\ queue_lock' = NULL
      /\ pt' = [pt EXCEPT ![vic[p][1]][vic[p][2]] = Swapped(swpfpn[p])]
      /\ vic' = [vic EXCEPT ![p] = <<p, 0>>] /\ swpfpn' = [swpfpn EXCEPT ![p] = 0]
      /\ UNCHANGED <<ram_free, swp_free, fifo, sbrk, running_list, inst, idx>>
      /\ VictimFits(p) /\ ThreadFits(p) /\ PagingTypeOK
  BY InvGives DEF pte_set_swap
<1>2. PICK v \in Proc, g \in Page : v = vic[p][1] /\ g = vic[p][2]
  BY <1>1 DEF VictimFits, PagingTypeOK
<1>3. /\ pt[v][g] = None /\ g < FirstNew(v) /\ (v = p \/ v \in Elements(running_list))
  BY <1>1, <1>2 DEF VictimFits
<1>4. PICK t \in Slot : t = swpfpn[p]
  BY <1>1 DEF ThreadFits
<1>5. fpn[p] \in Frame /\ fpn[p] \notin Elements(hand[p])
  BY <1>1 DEF ThreadFits
<1>6. /\ pt \in [Proc -> [Page -> Pte]] /\ vic \in [Proc -> Proc \X Nat] /\ swpfpn \in [Proc -> Nat]
      /\ pc \in [Proc -> Pcs] /\ fpn \in [Proc -> Nat] /\ hand \in [Proc -> Seq(Frame)]
      /\ inst[p].op \in {"none", "inc", "read", "write"}
  BY <1>1 DEF PagingTypeOK, Inst
<1>7. /\ pt' \in [Proc -> [Page -> Pte]] /\ pt'[v][g] = Swapped(t)
      /\ \A r \in Proc, h \in Page : r # v \/ h # g => pt'[r][h] = pt[r][h]
  BY <1>1, <1>2, <1>4, <1>6, PteFacts, SMTT(30)
<1>8. /\ vic' \in [Proc -> Proc \X Nat] /\ \A q \in Proc \ {p} : vic'[q] = vic[q]
      /\ swpfpn' \in [Proc -> Nat] /\ \A q \in Proc \ {p} : swpfpn'[q] = swpfpn[q]
  BY <1>1, <1>6
<1>9. /\ pc' \in [Proc -> Pcs] /\ fpn' \in [Proc -> Nat] /\ hand' \in [Proc -> Seq(Frame)]
      /\ \A q \in Proc \ {p} : pc'[q] = pc[q] /\ fpn'[q] = fpn[q] /\ hand'[q] = hand[q]
      /\ ThreadFits(p)' /\ FirstNew(p)' = FirstNew(p)
      /\ \/ /\ inst[p].op = "inc" /\ pc'[p] \in {"map", "frame"}
            /\ Elements(hand'[p]) = Elements(hand[p]) \cup {fpn[p]}
         \/ /\ inst[p].op \in {"read", "write"} /\ pc'[p] = "in_copy"
            /\ hand' = hand /\ fpn' = fpn
  <2>1. CASE inst[p].op = "inc" /\ Obtain(p, fpn[p]) /\ fpn' = [fpn EXCEPT ![p] = 0]
    <3>1. PICK f \in Frame : f = fpn[p]
      BY <1>5
    <3>2. /\ pc' \in [Proc -> Pcs] /\ hand' \in [Proc -> Seq(Frame)]
          /\ \A q \in Proc \ {p} : pc'[q] = pc[q] /\ hand'[q] = hand[q]
          /\ pc'[p] \in {"map", "frame"} /\ Elements(hand'[p]) = Elements(hand[p]) \cup {f}
          /\ ThreadFits(p)' /\ FirstNew(p)' = FirstNew(p)
      BY <1>1, <1>5, <2>1, <3>1, ObtainFacts
    <3>3. fpn' \in [Proc -> Nat] /\ \A q \in Proc \ {p} : fpn'[q] = fpn[q]
      BY <1>6, <2>1
    <3> QED  BY <2>1, <3>1, <3>2, <3>3
  <2>2. CASE inst[p].op # "inc" /\ goto(p, "in_copy") /\ UNCHANGED <<hand, fpn>>
    <3>1. /\ pc' \in [Proc -> Pcs] /\ pc'[p] = "in_copy" /\ \A q \in Proc \ {p} : pc'[q] = pc[q]
      BY <1>6, <2>2 DEF Pcs
    <3>2. inst[p].op \in {"read", "write"}
      BY <1>1, <1>6, <2>2 DEF ThreadFits
    <3>3. ThreadFits(p)'
      BY <1>1, <2>2, <3>1, <3>2 DEF ThreadFits
    <3>4. FirstNew(p)' = FirstNew(p)
      BY <1>1, <2>2 DEF FirstNew
    <3> QED  BY <1>6, <2>2, <3>1, <3>2, <3>3, <3>4
  <2> QED  BY <2>1, <2>2 DEF pte_set_swap
<1>10. PagingTypeOK'
  <2>1. UNCHANGED <<ram_free, swp_free, ram, swp, mem, fifo, sbrk, running_list, mmvm_lock, inst,
                    idx, single, head, corrupt>>
    BY DEF pte_set_swap
  <2>2. PagingTypeOK /\ queue_lock' \in Proc \cup {NULL}
    BY <1>1
  <2>3. pc' \in [Proc -> Pcs] /\ fpn' \in [Proc -> Nat] /\ hand' \in [Proc -> Seq(Frame)]
    BY <1>9
  <2>4. pt' \in [Proc -> [Page -> Pte]] /\ vic' \in [Proc -> Proc \X Nat] /\ swpfpn' \in [Proc -> Nat]
    BY <1>7, <1>8
  <2> QED  BY <2>1, <2>2, <2>3, <2>4 DEF PagingTypeOK
<1>11. OthersStay(p)
  BY <1>1, <1>8, <1>9 DEF OthersStay
<1>12. FirstNew(p) <= FirstNew(p)'
  BY <1>1, <1>9, <1>10, FirstNewIsInt, SMTT(30)
<1>13. \A q \in Proc \ {p} : pc[q] \notin LockedPcs
  BY <1>1, OneSearches
<1>14. QueueLocked' /\ \A q \in Proc : VictimFits(q)'
  <2>1. \A q \in Proc : pc'[q] \notin LockedPcs
    BY <1>9, <1>13
  <2> QED  BY <1>1, <2>1, PagingAssumption DEF QueueLocked, VictimFits
<1>15. ListsStay'
  BY <1>1, <1>9, <1>11, ListsStill
<1>16. TablesFit'
  <2>1. pc'[p] \in SwapPcs \cup InPcs /\ inst'[p].op \in {"read", "write"} =>
           inst'[p].pgn \in Page /\ pt'[p][inst'[p].pgn].st = "swapped"
    <3> SUFFICES ASSUME inst[p].op \in {"read", "write"}
                 PROVE  inst[p].pgn \in Page /\ pt'[p][inst[p].pgn].st = "swapped"
      BY <1>1
    <3>1. inst[p].pgn \in Page
      BY <1>1 DEF ThreadFits
    <3>2. pt[p][inst[p].pgn].st = "swapped"
      BY <1>1, InvGives DEF TablesFit
    <3> QED  BY <1>3, <1>7, <3>1, <3>2, PteFacts, SMTT(30)
  <2>2. g < FirstNew(v)'
    BY <1>3, <1>9, <1>11, ThreadStays
  <2>3. pc'[v] # "dead" /\ pc'[p] # "dead"
    BY <1>1, <1>3, <1>9, InvGives DEF ListsStay
  <2>4. pt[v][g].st # "swapped"
    BY <1>3, PteFacts
  <2>5. \A r \in Proc, h \in Page : r # v \/ h # g => pt'[r][h] = pt[r][h]
    BY <1>7
  <2> QED  BY <1>10, <1>11, <1>12, <2>1, <2>2, <2>3, <2>4, <2>5, EntryChanges
<1>17. FrameHasOneOwner'
  <2>1. \A q \in Proc, f \in Frame : Holds(q, f)' <=> Holds(q, f)
    BY <1>1, <1>9 DEF Holds
  <2>2. \A q \in Proc, h \in Page, f \in Frame : Maps(q, h, f)' <=> Maps(q, h, f)
    BY <1>3, <1>7, PteFacts, SMTT(30) DEF Maps
  <2> QED  BY <1>1, <2>1, <2>2, FramesStay, InvGives
<1>18. SlotHasOneOwner'
  <2>1. \A q \in Proc, s \in Slot : HoldsSlot(q, s)' <=> HoldsSlot(q, s) /\ ~(q = p /\ s = t)
    BY <1>1, <1>4, <1>8, <1>9 DEF HoldsSlot
  <2>3. v # p => ~(pc[v] = "in_set" /\ inst[v].pgn = g)
    <3> SUFFICES ASSUME pc[v] = "in_set", inst[v].pgn = g PROVE FALSE
      OBVIOUS
    <3>1. pt[v][g] = Swapped(req_swpoff(v)) /\ req_swpoff(v) \in Slot
      BY PageComingIn
    <3> QED  BY <1>3, <3>1, PteFacts
  <2>4. \A q \in Proc, h \in Page, s \in Slot :
          SwappedTo(q, h, s)' <=> SwappedTo(q, h, s) \/ (q = v /\ h = g /\ s = t)
    <3> SUFFICES ASSUME NEW q \in Proc, NEW h \in Page, NEW s \in Slot
                 PROVE  SwappedTo(q, h, s)' <=> SwappedTo(q, h, s) \/ (q = v /\ h = g /\ s = t)
      OBVIOUS
    <3>1. inst' = inst /\ (pc'[q] = "in_set" <=> pc[q] = "in_set")
      BY <1>1, <1>9
    <3>2. CASE q = v /\ h = g
      <4>1. ~SwappedTo(v, g, s)
        BY <1>3, PteFacts DEF SwappedTo
      <4>2. ~(pc[v] = "in_set" /\ inst[v].pgn = g)
        BY <1>1, <2>3
      <4>3. SwappedTo(v, g, s)' <=> s = t
        BY <1>7, <3>1, <3>2, <4>2, PteFacts, SMTT(30) DEF SwappedTo
      <4> QED  BY <3>2, <4>1, <4>3
    <3>3. CASE q # v \/ h # g
      BY <1>7, <3>1, <3>3 DEF SwappedTo
    <3> QED  BY <3>2, <3>3
  <2>5. HoldsSlot(p, t)
    BY <1>1, <1>4 DEF HoldsSlot
  <2>6. /\ \A q \in Proc : (HoldsSlot(q, t) => q = p) /\ \A h \in Page : ~SwappedTo(q, h, t)
        /\ swp_free[t] = 0
    BY <2>5, InvGives DEF SlotHasOneOwner
  <2>7. SlotOwned(t)'
    BY <1>1, <2>1, <2>4, <2>6, SMTT(30) DEF SlotOwned
  <2> QED  BY <1>1, <2>1, <2>4, <2>7, SlotMoves, InvGives
<1> QED  BY <1>9, <1>10, <1>11, <1>14, <1>15, <1>16, <1>17, <1>18, ThreadStays, InvGives, InvFollows

\* The page that was in swap has its frame.
LEMMA GetpageSetKeepsInv ==
  ASSUME PagingInv, NEW p \in Proc, getpage_set(p)
  PROVE  PagingInv'
<1>1. /\ pc[p] = "in_set" /\ pt' = [pt EXCEPT ![p][inst[p].pgn] = Present(fpn[p])]
      /\ fpn' = [fpn EXCEPT ![p] = 0] /\ pc' = [pc EXCEPT ![p] = "enlist_read"]
      /\ UNCHANGED <<ram_free, swp_free, fifo, sbrk, running_list, queue_lock, inst, hand, swpfpn, vic,
                     idx>>
      /\ ThreadFits(p) /\ PagingTypeOK
  BY InvGives DEF getpage_set
<1>2. /\ inst[p].op \in {"read", "write"} /\ hand[p] = << >>
      /\ pt[p][inst[p].pgn] = Swapped(req_swpoff(p)) /\ req_swpoff(p) \in Slot
  BY <1>1, PageComingIn
<1>3. PICK g \in Page, t \in Frame : g = inst[p].pgn /\ t = fpn[p]
  BY <1>1, PageComingIn
<1>4. /\ pt \in [Proc -> [Page -> Pte]] /\ pc \in [Proc -> Pcs] /\ fpn \in [Proc -> Nat]
  BY <1>1 DEF PagingTypeOK
<1>5. /\ pt' \in [Proc -> [Page -> Pte]] /\ pt'[p][g] = Present(t)
      /\ \A r \in Proc, h \in Page : r # p \/ h # g => pt'[r][h] = pt[r][h]
  BY <1>1, <1>3, <1>4, PteFacts, SMTT(30)
<1>6. /\ pc' \in [Proc -> Pcs] /\ fpn' \in [Proc -> Nat] /\ pc'[p] = "enlist_read"
      /\ \A q \in Proc \ {p} : pc'[q] = pc[q] /\ fpn'[q] = fpn[q]
  BY <1>1, <1>4 DEF Pcs
<1>7. PagingTypeOK'
  BY <1>1, <1>5, <1>6 DEF getpage_set, PagingTypeOK
<1>8. OthersStay(p)
  BY <1>1, <1>6 DEF OthersStay
<1>9. ThreadFits(p)'
  BY <1>1, <1>2, <1>6 DEF ThreadFits
<1>10. FirstNew(p)' = FirstNew(p) /\ FirstNew(p) \in Int /\ FirstNew(p) <= FirstNew(p)'
  <2>1. FirstNew(p)' = FirstNew(p)
    BY <1>1, <1>2 DEF FirstNew
  <2> QED  BY <1>1, <1>7, <2>1, FirstNewIsInt, SMTT(30)
<1>11. pt[p][g].st = "swapped" /\ pt[p][g] # None
  BY <1>2, <1>3, PteFacts, SMTT(30)
<1>12. QueueLocked'
  BY <1>1, <1>6, InvGives DEF QueueLocked
<1>13. ListsStay'
  BY <1>1, <1>6, <1>8, ListsStill
<1>14. \A q \in Proc : VictimFits(q)'
  <2>1. \A r \in Proc, h \in Page :
          pt'[r][h] = pt[r][h] \/ (r = p /\ (pt[p][h].st = "swapped" \/ h >= FirstNew(p) \/ pc[p] \in AwayPcs))
    BY <1>5, <1>11
  <2> QED  BY <1>1, <1>6, <1>7, <1>8, <1>10, <2>1, VictimsStay
<1>15. TablesFit'
  <2>1. g < FirstNew(p)'
    <3>1. ~(g >= FirstNew(p))
      BY <1>11, InvGives DEF TablesFit
    <3> QED  BY <1>10, <3>1, SMTT(30) DEF Page
  <2> QED  BY <1>5, <1>6, <1>7, <1>8, <1>10, <2>1, EntryChanges
<1>16. FrameHasOneOwner'
  <2>1. \A q \in Proc, f \in Frame : Holds(q, f)' <=> Holds(q, f) /\ ~(q = p /\ f = t)
    <3>1. \A f \in Frame : f \notin Elements(hand[p])
      BY <1>2, SMTT(30) DEF Elements
    <3> QED  BY <1>1, <1>3, <1>6, <3>1 DEF Holds
  <2>2. \A q \in Proc, h \in Page, f \in Frame :
          Maps(q, h, f)' <=> Maps(q, h, f) \/ (q = p /\ h = g /\ f = t)
    BY <1>5, <1>11, PteFacts, SMTT(30) DEF Maps
  <2>3. Holds(p, t)
    BY <1>1, <1>3 DEF Holds
  <2>4. /\ \A q \in Proc : (Holds(q, t) => q = p) /\ \A h \in Page : ~Maps(q, h, t)
        /\ ram_free[t] = 0
    BY <2>3, InvGives DEF FrameHasOneOwner
  <2>5. FrameOwned(t)'
    BY <1>1, <2>1, <2>2, <2>4, SMTT(30) DEF FrameOwned
  <2> QED  BY <1>1, <2>1, <2>2, <2>5, FrameMoves, InvGives
<1>17. SlotHasOneOwner'
  <2>1. \A q \in Proc, s \in Slot : HoldsSlot(q, s)' <=> HoldsSlot(q, s)
    BY <1>1, <1>6 DEF HoldsSlot
  <2>2. \A q \in Proc, h \in Page, s \in Slot : SwappedTo(q, h, s)' <=> SwappedTo(q, h, s)
    <3> SUFFICES ASSUME NEW q \in Proc, NEW h \in Page, NEW s \in Slot
                 PROVE  SwappedTo(q, h, s)' <=> SwappedTo(q, h, s)
      OBVIOUS
    <3>1. CASE q = p /\ h = g
      BY <1>1, <1>3, <1>5, <3>1, PteFacts, SMTT(30) DEF SwappedTo
    <3>2. CASE q # p \/ h # g
      BY <1>1, <1>3, <1>5, <1>6, <3>2 DEF SwappedTo
    <3> QED  BY <3>1, <3>2
  <2> QED  BY <1>1, <2>1, <2>2, SlotsStay, InvGives
<1> QED  BY <1>7, <1>8, <1>9, <1>12, <1>13, <1>14, <1>15, <1>16, <1>17, ThreadStays, InvGives, InvFollows

\* An entry of a process that is ending: its frame or its slot comes back.
LEMMA CollectKeepsInv ==
  ASSUME PagingInv, NEW p \in Proc, collect(p)
  PROVE  PagingInv'
<1>1. PICK g \in Page :
        /\ pt[p][g] # None
        /\ pt' = [pt EXCEPT ![p][g] = None]
        /\ mem' = [mem EXCEPT ![p][g] = NULL]
        /\ ram_free' = IF pt[p][g].st = "present"
                       THEN MEMPHY_put_freefp(ram_free, pt[p][g].n) ELSE ram_free
        /\ swp_free' = IF pt[p][g].st = "swapped"
                       THEN MEMPHY_put_freefp(swp_free, pt[p][g].n) ELSE swp_free
  BY DEF collect
<1>2. /\ pc[p] = "collect" /\ PagingTypeOK /\ ThreadFits(p)
      /\ UNCHANGED <<pc, fifo, sbrk, running_list, queue_lock, inst, hand, fpn, swpfpn, vic, idx>>
  BY InvGives DEF collect
<1>3. /\ pt \in [Proc -> [Page -> Pte]] /\ mem \in [Proc -> [Page -> Value \cup {NULL}]]
      /\ ram_free \in [Frame -> Nat] /\ swp_free \in [Slot -> Nat]
  BY <1>2 DEF PagingTypeOK
<1>4. /\ pt' \in [Proc -> [Page -> Pte]] /\ pt'[p][g] = None
      /\ \A r \in Proc, h \in Page : r # p \/ h # g => pt'[r][h] = pt[r][h]
  BY <1>1, <1>3, PteFacts, SMTT(30)
<1>5. mem' \in [Proc -> [Page -> Value \cup {NULL}]]
  BY <1>1, <1>3
<1>6. \/ pt[p][g].st = "present" /\ pt[p][g].n \in Frame /\ pt[p][g] = Present(pt[p][g].n)
      \/ pt[p][g].st = "swapped" /\ pt[p][g].n \in Slot /\ pt[p][g] = Swapped(pt[p][g].n)
  BY <1>1, <1>3, PteFacts, SMTT(30)
<1>7. \A q \in Proc, f \in Frame : Holds(q, f)' <=> Holds(q, f)
  BY <1>2 DEF Holds
<1>8. \A q \in Proc, s \in Slot : HoldsSlot(q, s)' <=> HoldsSlot(q, s)
  BY <1>2 DEF HoldsSlot
<1>9. \A q \in Proc, h \in Page, f \in Frame : Maps(q, h, f)' <=> Maps(q, h, f) /\ ~(q = p /\ h = g)
  BY <1>4, PteFacts, SMTT(30) DEF Maps
<1>10. \A q \in Proc, h \in Page, s \in Slot :
         SwappedTo(q, h, s)' <=> SwappedTo(q, h, s) /\ ~(q = p /\ h = g)
  BY <1>2, <1>4, PteFacts, SMTT(30) DEF SwappedTo
<1>11. ram_free' \in [Frame -> Nat] /\ FrameHasOneOwner'
  <2>1. CASE pt[p][g].st = "present"
    <3>1. PICK t \in Frame : t = pt[p][g].n /\ pt[p][g] = Present(t)
      BY <1>6, <2>1
    <3>2. Maps(p, g, t) /\ \A f \in Frame \ {t} : ~Maps(p, g, f)
      BY <3>1, PteFacts, SMTT(30) DEF Maps
    <3>3. \A q \in Proc : ~Holds(q, t) /\ \A h \in Page : Maps(q, h, t) => q = p /\ h = g
      BY <3>2, InvGives DEF FrameHasOneOwner
    <3>4. \A q \in Proc : ~Holds(q, t)' /\ \A h \in Page : ~Maps(q, h, t)'
      BY <1>7, <1>9, <3>3
    <3>5. \A f \in Frame \ {t}, q \in Proc, h \in Page : Maps(q, h, f)' <=> Maps(q, h, f)
      BY <1>9, <3>2
    <3> QED  BY <1>1, <1>7, <2>1, <3>1, <3>2, <3>4, <3>5, FrameComesBack
  <2>2. CASE pt[p][g].st # "present"
    <3>1. \A f \in Frame : ~Maps(p, g, f)
      BY <2>2, PteFacts, SMTT(30) DEF Maps
    <3> QED  BY <1>1, <1>3, <1>7, <1>9, <2>2, <3>1, FramesStay, InvGives
  <2> QED  BY <2>1, <2>2
<1>12. swp_free' \in [Slot -> Nat] /\ SlotHasOneOwner'
  <2>1. CASE pt[p][g].st = "swapped"
    <3>1. PICK t \in Slot : t = pt[p][g].n /\ pt[p][g] = Swapped(t)
      BY <1>6, <2>1
    <3>2. SwappedTo(p, g, t) /\ \A s \in Slot \ {t} : ~SwappedTo(p, g, s)
      BY <1>2, <3>1, PteFacts, SMTT(30) DEF SwappedTo
    <3>3. \A q \in Proc : ~HoldsSlot(q, t) /\ \A h \in Page : SwappedTo(q, h, t) => q = p /\ h = g
      BY <3>2, InvGives DEF SlotHasOneOwner
    <3>4. \A q \in Proc : ~HoldsSlot(q, t)' /\ \A h \in Page : ~SwappedTo(q, h, t)'
      BY <1>8, <1>10, <3>3
    <3>5. \A s \in Slot \ {t}, q \in Proc, h \in Page : SwappedTo(q, h, s)' <=> SwappedTo(q, h, s)
      BY <1>10, <3>2
    <3> QED  BY <1>1, <1>8, <2>1, <3>1, <3>2, <3>4, <3>5, SlotComesBack
  <2>2. CASE pt[p][g].st # "swapped"
    <3>1. \A s \in Slot : ~SwappedTo(p, g, s)
      BY <2>2, PteFacts, SMTT(30) DEF SwappedTo
    <3> QED  BY <1>1, <1>3, <1>8, <1>10, <2>2, <3>1, SlotsStay, InvGives
  <2> QED  BY <2>1, <2>2
<1>13. PagingTypeOK'
  BY <1>2, <1>4, <1>5, <1>11, <1>12 DEF collect, PagingTypeOK
<1>14. OthersStay(p)
  BY <1>2 DEF OthersStay
<1>15. ThreadFits(p)' /\ FirstNew(p)' = FirstNew(p)
  BY <1>2 DEF ThreadFits, FirstNew, NextPage
<1>16. FirstNew(p) <= FirstNew(p)'
  BY <1>2, <1>13, <1>15, FirstNewIsInt, SMTT(30)
<1>17. QueueLocked'
  BY <1>2, InvGives DEF QueueLocked
<1>18. ListsStay'
  BY <1>2, <1>14, ListsStill
<1>19. \A q \in Proc : VictimFits(q)'
  BY <1>2, <1>4, <1>13, <1>14, VictimsStay
<1>20. TablesFit'
  BY <1>2, <1>4, <1>13, <1>14, <1>16, EntryChanges
<1> QED  BY <1>11, <1>12, <1>13, <1>14, <1>15, <1>17, <1>18, <1>19, <1>20, ThreadStays, InvGives, InvFollows

----------------------------------------------------------------------------
(* The theorems.                                                           *)

\* Before the loader starts, all memory is on the free lists.
LEMMA InitEstablishesInv ==
  Init => PagingInv
<1> SUFFICES ASSUME Init PROVE PagingInv
  OBVIOUS
<1>1. \A p \in Proc : pc[p] = "new" /\ inst[p] = NoInst /\ hand[p] = << >> /\ sbrk[p] = 0
  BY DEF Init
<1>2. NoInst \in Inst /\ NoInst.op = "none" /\ "new" \in Pcs
  BY DEF NoInst, Inst, Pcs
<1>3. PagingTypeOK
  <2>1. ram_free \in [Frame -> Nat] /\ swp_free \in [Slot -> Nat]
    BY DEF Init, MEMPHY_format, Frame, Slot
  <2>2. pt \in [Proc -> [Page -> Pte]]
    BY PteFacts DEF Init
  <2>3. inst \in [Proc -> Inst] /\ pc \in [Proc -> Pcs]
    BY <1>2 DEF Init
  <2>4. sbrk \in [Proc -> 0 .. MaxPages]
    BY PagingAssumption, SMTT(30) DEF Init
  <2>5. vic \in [Proc -> Proc \X Nat] /\ hand \in [Proc -> Seq(Frame)] /\ fifo \in [Proc -> Seq(Page)]
    BY SMTT(30) DEF Init
  <2>6. /\ ram \in [Frame -> Value \cup {NULL}] /\ swp \in [Slot -> Value \cup {NULL}]
        /\ mem \in [Proc -> [Page -> Value \cup {NULL}]]
    BY DEF Init
  <2>7. /\ swpfpn \in [Proc -> Nat] /\ fpn \in [Proc -> Nat] /\ idx \in [Proc -> Nat]
    BY DEF Init
  <2>8. /\ single \in [Proc -> BOOLEAN] /\ head \in [Proc -> BOOLEAN]
    BY DEF Init
  <2>9. running_list \in Seq(Proc) /\ mmvm_lock = NULL /\ queue_lock = NULL
    BY SMTT(30) DEF Init
  <2>10. corrupt \in BOOLEAN
    BY DEF Init
  <2> QED  BY <2>1, <2>2, <2>3, <2>4, <2>5, <2>6, <2>7, <2>8, <2>9, <2>10 DEF PagingTypeOK
<1>4. NoDuplicates(<< >>) /\ Elements(<< >>) = {}
  BY SMTT(30) DEF NoDuplicates, Elements
<1>5. QueueLocked
  BY <1>1, PagingAssumption DEF QueueLocked, Init
<1>6. ListsStay
  BY <1>1, <1>4 DEF ListsStay, Init
<1>7. TablesFit
  BY <1>1, <1>2 DEF TablesFit, Init
<1>8. \A p \in Proc : ThreadFits(p) /\ VictimFits(p)
  BY <1>1, <1>2, <1>4 DEF ThreadFits, VictimFits
<1>9. FrameHasOneOwner
  <2>1. \A f \in Frame : ram_free[f] = 1
    BY DEF Init, MEMPHY_format, Frame
  <2>2. \A p \in Proc, f \in Frame : ~Holds(p, f) /\ \A g \in Page : ~Maps(p, g, f)
    BY <1>1, <1>4, PteFacts DEF Holds, Maps, Init
  <2> QED  BY <2>1, <2>2, SMTT(30) DEF FrameHasOneOwner
<1>10. SlotHasOneOwner
  <2>1. \A s \in Slot : swp_free[s] = 1
    BY DEF Init, MEMPHY_format, Slot
  <2>2. \A p \in Proc, s \in Slot : ~HoldsSlot(p, s) /\ \A g \in Page : ~SwappedTo(p, g, s)
    BY <1>1, PteFacts DEF HoldsSlot, SwappedTo, Init
  <2> QED  BY <2>1, <2>2, SMTT(30) DEF SlotHasOneOwner
<1> QED  BY <1>3, <1>5, <1>6, <1>7, <1>8, <1>9, <1>10 DEF PagingInv

\* Every step of every thread keeps the invariant.
LEMMA NextKeepsInv ==
  PagingInv /\ [Next]_vars => PagingInv'
<1> SUFFICES ASSUME PagingInv, [Next]_vars PROVE PagingInv'
  OBVIOUS
<1>1. ASSUME NEW p \in Proc, Start(p) PROVE PagingInv'
  <2>1. CASE add_proc(p)          BY <2>1, AddProcKeepsInv
  <2>2. CASE access(p)            BY <2>2, StartAccessKeepsInv DEF access
  <2>3. CASE __sys_memmap(p)
    <3>1. CASE inc_vma_limit(p)   BY <3>1, IncVmaLimitKeepsInv
    <3>2. CASE StartAccess(p, TRUE)  BY <3>2, StartAccessKeepsInv
    <3> QED  BY <2>3, <3>1, <3>2 DEF __sys_memmap
  <2>4. CASE finish_proc(p)       BY <2>4, FinishProcKeepsInv
  <2> QED  BY <1>1, <2>1, <2>2, <2>3, <2>4 DEF Start
<1>2. ASSUME NEW p \in Proc, Step(p) PROVE PagingInv'
  <2>1. CASE access_lock(p) \/ enlist_read(p) \/ enlist_write(p)
    BY <2>1, AccessLockKeepsInv, EnlistReadKeepsInv, EnlistWriteKeepsInv
  <2>2. CASE alloc_frame(p) \/ release_frame_list(p) \/ pte_set_fpn(p)
    BY <2>2, AllocFrameKeepsInv, ReleaseFrameListKeepsInv, PteSetFpnKeepsInv
  <2>3. CASE swap_get_slot(p) \/ victim_lock(p) \/ victim_read(p) \/ victim_detach(p) \/ swap_put_slot(p)
    BY <2>3, SwapGetSlotKeepsInv, VictimLockKeepsInv, VictimReadKeepsInv, VictimDetachKeepsInv,
       SwapPutSlotKeepsInv
  <2>4. CASE swap_copy(p) \/ pte_set_swap_clear(p) \/ pte_set_swap(p)
    BY <2>4, SwapCopyKeepsInv, PteSetSwapClearKeepsInv, PteSetSwapKeepsInv
  <2>5. CASE getpage_pte(p) \/ getpage_copy(p) \/ getpage_put_slot(p) \/ getpage_set(p) \/ getpage_fpn(p)
    BY <2>5, GetpagePteKeepsInv, GetpageCopyKeepsInv, GetpagePutSlotKeepsInv, GetpageSetKeepsInv,
       GetpageFpnKeepsInv
  <2>6. CASE pg_getval(p) \/ pg_setval(p)
    BY <2>6, GetvalKeepsInv, SetvalKeepsInv
  <2>7. CASE collect_lock(p) \/ collect(p) \/ collect_end(p)
    BY <2>7, CollectLockKeepsInv, CollectKeepsInv, CollectEndKeepsInv
  <2> QED  BY <1>2, <2>1, <2>2, <2>3, <2>4, <2>5, <2>6, <2>7 DEF Step
<1>3. ASSUME UNCHANGED vars PROVE PagingInv'
  <2>1. PagingTypeOK'
    BY <1>3, InvGives DEF vars, PagingTypeOK
  <2>2. QueueLocked' /\ ListsStay' /\ TablesFit'
    BY <1>3, InvGives DEF vars, QueueLocked, ListsStay, TablesFit, Searched, FirstNew, NextPage
  <2>3. ASSUME NEW p \in Proc PROVE ThreadFits(p)' /\ VictimFits(p)'
    <3>1. ThreadFits(p)' <=> ThreadFits(p)
      BY <1>3 DEF vars, ThreadFits, FirstNew, NextPage
    <3>2. VictimFits(p)' <=> VictimFits(p)
      BY <1>3 DEF vars, VictimFits, Maps, FirstNew, NextPage
    <3> QED  BY <3>1, <3>2, InvGives
  <2>4. FrameHasOneOwner'
    BY <1>3, FramesStay, InvGives DEF vars, Holds, Maps
  <2>5. SlotHasOneOwner'
    BY <1>3, SlotsStay, InvGives DEF vars, HoldsSlot, SwappedTo
  <2> QED  BY <2>1, <2>2, <2>3, <2>4, <2>5, InvFollows
<1> QED  BY <1>1, <1>2, <1>3 DEF Next, Stopped

\* However the CPUs interleave their accesses, their heaps' growth, the swapping
\* out of each other's pages and the ends of their processes, the invariant holds.
THEOREM PagingInvariant ==
  Spec => []PagingInv
BY InitEstablishesInv, NextKeepsInv, PTL DEF Spec

\* The variables of the paging code keep their types: frame numbers read from
\* page-table entries are frames of the device, lists hold pages and processes.
THEOREM PagingTypesHold ==
  Spec => []PagingTypeOK
<1>1. PagingInv => PagingTypeOK
  BY InvGives
<1> QED  BY <1>1, PagingInvariant, PTL

\* No frame of RAM is mapped twice, lost or freed while it is mapped, although
\* swap_out_victim_page() takes frames from the pages of running processes.
THEOREM FramesHaveOneOwner ==
  Spec => []FrameHasOneOwner
<1>1. PagingInv => FrameHasOneOwner
  BY InvGives
<1> QED  BY <1>1, PagingInvariant, PTL

\* No slot of the swap device holds two pages, and none is lost on the paths on
\* which swap_out_victim_page() finds no victim.
THEOREM SlotsHaveOneOwner ==
  Spec => []SlotHasOneOwner
<1>1. PagingInv => SlotHasOneOwner
  BY InvGives
<1> QED  BY <1>1, PagingInvariant, PTL

\* free_pcb_memph() leaves nothing behind: when every process has ended, both
\* devices are entirely free.
THEOREM MemoryComesBack ==
  Spec => []AllMemoryReturned
<1>1. PagingInv => AllMemoryReturned
  <2> SUFFICES ASSUME PagingInv, \A p \in Proc : pc[p] = "dead"
               PROVE  (\A f \in Frame : ram_free[f] = 1) /\ (\A s \in Slot : swp_free[s] = 1)
    BY DEF AllMemoryReturned
  <2>1. \A p \in Proc : hand[p] = << >>
    BY InvGives DEF ThreadFits
  <2>2. \A p \in Proc, g \in Page : pt[p][g] = None
    BY InvGives DEF TablesFit
  <2>3. \A p \in Proc, f \in Frame : ~Holds(p, f) /\ \A g \in Page : ~Maps(p, g, f)
    BY <2>1, <2>2, PteFacts, SMTT(30) DEF Holds, Maps, Elements
  <2>4. \A p \in Proc, s \in Slot : ~HoldsSlot(p, s) /\ \A g \in Page : ~SwappedTo(p, g, s)
    BY <2>2, PteFacts, SMTT(30) DEF HoldsSlot, SwappedTo
  <2> QED  BY <2>3, <2>4, InvGives DEF FrameHasOneOwner, SlotHasOneOwner
<1> QED  BY <1>1, PagingInvariant, PTL
----------------------------------------------------------------------------
(***************************************************************************)
(* One CPU, where one instruction is under way at a time.  The invariant,  *)
(* as seen by the thread that may be inside an instruction.                *)
(***************************************************************************)

EnlistPcs == {"enlist_read", "enlist_write"}
OutPcs    == {"swap_copy", "pte_clear"}

\* Page g of process q is resident and thread p has not yet put it in the list of
\* q, or has taken it off to swap it out.
Unlisted(p, q, g) ==
  \/ pc[p] \in EnlistPcs /\ q = p /\ g = EnlistedPage(p)
  \/ pc[p] \in OutPcs /\ q = vic[p][1] /\ g = vic[p][2]

\* The lists hold the resident pages but for these.  free_pcb_memph() clears the
\* entries of a process before its list.
FifoFits(p) ==
  \A q \in Proc : (q = p => pc[p] # "collect") =>
    /\ NoDuplicates(fifo[q])
    /\ \A g \in Page : g \in Elements(fifo[q]) <=> pt[q][g].st = "present" /\ ~Unlisted(p, q, g)

\* What was stored in a page is where its entry says, unless the entry is being
\* changed.
PageFits(p, q, g) ==
  mem[q][g] # NULL =>
    /\ pt[q][g].st = "present" => ram[pt[q][g].n] = mem[q][g]
    /\ pt[q][g].st = "swapped" =>
         swp[pt[q][g].n] = mem[q][g] \/ (pc[p] = "in_set" /\ q = p /\ g = inst[p].pgn)
    /\ pt[q][g].st = "none" => pc[p] = "pte_swap" /\ q = vic[p][1] /\ g = vic[p][2]

DataFits(p) == \A q \in Proc, g \in Page : PageFits(p, q, g)

\* What thread p has read of lists and entries is still so.
ReadsFit(p) ==
  /\ pc[p] \in EnlistPcs => pt[p][EnlistedPage(p)].st = "present"
  /\ pc[p] = "enlist_write" => (head[p] <=> fifo[p] # << >>)
  /\ pc[p] = "victim_detach" => (single[p] <=> Len(fifo[Searched(p)]) = 1)
  /\ pc[p] = "fpn" => pt[p][inst[p].pgn].st = "present"
  /\ pc[p] = "mem" => pt[p][inst[p].pgn] = Present(fpn[p])

\* The copy thread p has made of a page it moves.
CopyFits(p) ==
  /\ pc[p] \in {"pte_clear", "pte_swap"} =>
       mem[vic[p][1]][vic[p][2]] \in {NULL, swp[swpfpn[p]]}
  /\ pc[p] \in {"in_free", "in_set"} =>
       mem[p][inst[p].pgn] \in {NULL, ram[fpn[p]]}

Fits(p) == FifoFits(p) /\ DataFits(p) /\ ReadsFit(p) /\ CopyFits(p)

OneInv ==
  /\ ~corrupt
  /\ \A p, q \in Busy : p = q
  /\ \A p \in Proc : Busy \subseteq {p} => Fits(p)
----------------------------------------------------------------------------
USE DEF EnlistPcs, OutPcs

\* Putting an element in front of a list, as enlist_pgn_node() does.
LEMMA ConsProperties ==
  ASSUME NEW S, NEW q \in Seq(S), NEW x \in S
  PROVE  /\ <<x>> \o q # << >>
         /\ Elements(<<x>> \o q) = Elements(q) \cup {x}
         /\ NoDuplicates(q) /\ x \notin Elements(q) => NoDuplicates(<<x>> \o q)
<1> DEFINE c == <<x>> \o q
<1>1. /\ Len(q) \in Nat /\ Len(c) = Len(q) + 1 /\ c[1] = x /\ c # << >>
      /\ \A i \in 2 .. Len(q) + 1 : c[i] = q[i - 1]
  BY SMTT(30)
<1> HIDE DEF c
<1>2. \A i \in 1 .. Len(q) : i + 1 \in 2 .. Len(q) + 1 /\ c[i + 1] = q[i]
  BY <1>1, SMTT(30)
<1>3. ASSUME NEW y \in Elements(c) PROVE y \in Elements(q) \cup {x}
  <2>1. PICK i \in 1 .. Len(q) + 1 : y = c[i]
    BY <1>1 DEF Elements
  <2>2. CASE i = 1
    BY <1>1, <2>1, <2>2
  <2>3. CASE i # 1
    <3>1. i \in 2 .. Len(q) + 1 /\ i - 1 \in 1 .. Len(q)
      BY <1>1, <2>3, SMTT(30)
    <3> QED  BY <1>1, <2>1, <3>1 DEF Elements
  <2> QED  BY <2>2, <2>3
<1>4. ASSUME NEW y \in Elements(q) \cup {x} PROVE y \in Elements(c)
  <2>1. 1 \in 1 .. Len(c) /\ \A i \in 1 .. Len(q) : i + 1 \in 1 .. Len(c)
    BY <1>1, SMTT(30)
  <2>2. x \in Elements(c)
    BY <1>1, <2>1 DEF Elements
  <2>3. ASSUME NEW i \in 1 .. Len(q) PROVE q[i] \in Elements(c)
    BY <1>2, <2>1 DEF Elements
  <2>4. y = x \/ \E i \in 1 .. Len(q) : y = q[i]
    BY DEF Elements
  <2> QED  BY <2>2, <2>3, <2>4
<1>5. ASSUME NoDuplicates(q), x \notin Elements(q) PROVE NoDuplicates(c)
  BY <1>1, <1>5, SMTT(30) DEF NoDuplicates, Elements
<1> QED  BY <1>1, <1>3, <1>4, <1>5 DEF c

\* The first k elements of a list.
LEMMA PrefixElements ==
  ASSUME NEW S, NEW q \in Seq(S), NEW k \in 0 .. Len(q)
  PROVE  Len(SubSeq(q, 1, k)) = k /\ \A i \in 1 .. k : SubSeq(q, 1, k)[i] = q[i]
BY SMTT(30)

\* Taking the last element off, as find_victim_page() does.
LEMMA FrontProperties ==
  ASSUME NEW S, NEW q \in Seq(S), q # << >>, NoDuplicates(q)
  PROVE  LET f == SubSeq(q, 1, Len(q) - 1)
         IN  NoDuplicates(f) /\ Elements(f) = Elements(q) \ {q[Len(q)]}
<1> DEFINE f == SubSeq(q, 1, Len(q) - 1)
<1>1. /\ Len(q) \in Nat \ {0} /\ Len(f) = Len(q) - 1
      /\ \A i \in 1 .. Len(q) - 1 : f[i] = q[i]
  <2>1. Len(q) \in Nat \ {0}
    BY SMTT(30)
  <2>2. Len(q) - 1 \in 0 .. Len(q)
    BY <2>1, SMTT(30)
  <2> QED  BY <2>1, <2>2, PrefixElements
<1> HIDE DEF f
<1>2. NoDuplicates(f)
  BY <1>1, SMTT(30) DEF NoDuplicates
<1>3. ASSUME NEW y \in Elements(f) PROVE y \in Elements(q) \ {q[Len(q)]}
  <2>1. PICK i \in 1 .. Len(q) - 1 : y = q[i]
    BY <1>1 DEF Elements
  <2>2. i \in 1 .. Len(q) /\ Len(q) \in 1 .. Len(q) /\ i # Len(q)
    BY <1>1, SMTT(30)
  <2> QED  BY <2>1, <2>2 DEF Elements, NoDuplicates
<1>4. ASSUME NEW y \in Elements(q), y # q[Len(q)] PROVE y \in Elements(f)
  <2>1. PICK i \in 1 .. Len(q) : y = q[i]
    BY DEF Elements
  <2>2. i \in 1 .. Len(q) - 1
    BY <1>1, <1>4, <2>1, SMTT(30)
  <2> QED  BY <1>1, <2>1, <2>2 DEF Elements
<1> QED  BY <1>2, <1>3, <1>4 DEF f

\* The places where a list or an entry is being changed, and those where a thread
\* goes by what it has read.
Marked == EnlistPcs \cup OutPcs \cup {"pte_swap", "in_set", "collect"}
Known  == EnlistPcs \cup {"victim_detach", "fpn", "mem", "pte_clear", "pte_swap", "in_free", "in_set"}

\* A step that leaves pages and lists alone.
LEMMA StillFits ==
  ASSUME NEW p \in Proc, Fits(p), UNCHANGED <<pt, fifo, ram, swp, mem>>,
         pc[p] \notin Marked, pc'[p] \notin Marked \ {"in_set", "collect"},
         ReadsFit(p)', CopyFits(p)'
  PROVE  Fits(p)'
<1>1. FifoFits(p)'
  BY DEF Fits, FifoFits, Unlisted, Marked
<1>2. DataFits(p)'
  BY DEF Fits, DataFits, PageFits, Marked
<1> QED  BY <1>1, <1>2 DEF Fits

\* Such a step to a place where nothing is relied on.
LEMMA NothingKnown ==
  ASSUME NEW p \in Proc, Fits(p), UNCHANGED <<pt, fifo, ram, swp, mem>>,
         pc[p] \notin Marked, pc'[p] \notin Marked \cup Known \/ pc'[p] = "collect"
  PROVE  Fits(p)'
<1>1. ReadsFit(p)' /\ CopyFits(p)'
  BY DEF ReadsFit, CopyFits, Known
<1> QED  BY <1>1, StillFits DEF Marked

\* The end of an instruction, and what follows when no frame is found.
LEMMA EndPlaces ==
  ASSUME PagingInv, NEW p \in Proc
  PROVE  /\ Return(p) => pc'[p] = "idle"
         /\ SwapOutFails(p) => pc'[p] \in {"release", "idle"}
         /\ \A l \in Pcs : Continue(p, l) => pc'[p] = l
<1>1. pc \in [Proc -> Pcs]
  BY InvGives DEF PagingTypeOK
<1> QED  BY <1>1 DEF Return, SwapOutFails, Continue

\* The steps in which a thread takes and releases locks, frames and slots, starts
\* and ends.
LEMMA PlainStepsFit ==
  ASSUME PagingInv, NEW p \in Proc, Fits(p),
         \/ inc_vma_limit(p) \/ access(p) \/ StartAccess(p, TRUE) \/ finish_proc(p)
         \/ access_lock(p) \/ alloc_frame(p) \/ release_frame_list(p)
         \/ swap_get_slot(p) \/ victim_lock(p) \/ swap_put_slot(p) \/ pg_getval(p) \/ collect_lock(p)
  PROVE  Fits(p)' /\ corrupt' = corrupt
<1>1. pc \in [Proc -> Pcs]
  BY InvGives DEF PagingTypeOK
<1> DEFINE Goal == /\ UNCHANGED <<pt, fifo, ram, swp, mem, corrupt>>
                   /\ pc[p] \notin Marked
                   /\ pc'[p] \notin Marked \cup Known \/ pc'[p] = "collect"
<1>2. ASSUME inc_vma_limit(p) \/ access(p) \/ StartAccess(p, TRUE) \/ finish_proc(p) PROVE Goal
  BY <1>1, <1>2 DEF inc_vma_limit, access, StartAccess, finish_proc, Marked, Known
<1>3. ASSUME access_lock(p) \/ victim_lock(p) \/ collect_lock(p) PROVE Goal
  BY <1>1, <1>3 DEF access_lock, victim_lock, collect_lock, Marked, Known
<1>4. ASSUME alloc_frame(p) PROVE Goal
  BY <1>1, <1>4 DEF alloc_frame, Obtain, Marked, Known
<1>5. ASSUME release_frame_list(p) PROVE Goal
  BY <1>1, <1>5, EndPlaces DEF release_frame_list, Marked, Known
<1>6. ASSUME swap_get_slot(p) PROVE Goal
  <2>1. "victim_lock" \in Pcs
    BY DEF Pcs
  <2>2. pc'[p] \in {"victim_lock", "release", "idle"}
    BY <1>6, <2>1, EndPlaces DEF swap_get_slot
  <2> QED  BY <1>6, <2>2 DEF swap_get_slot, Marked, Known
<1>7. ASSUME swap_put_slot(p) PROVE Goal
  BY <1>7, EndPlaces DEF swap_put_slot, Marked, Known
<1>8. ASSUME pg_getval(p) PROVE Goal
  BY <1>8, EndPlaces DEF pg_getval, Marked, Known
<1>9. Goal
  BY <1>2, <1>3, <1>4, <1>5, <1>6, <1>7, <1>8
<1> QED  BY <1>9, NothingKnown

\* enlist_pgn_node() reads the head of the list.
LEMMA EnlistReadFits ==
  ASSUME PagingInv, NEW p \in Proc, Fits(p), enlist_read(p)
  PROVE  Fits(p)' /\ corrupt' = corrupt
<1>1. pc \in [Proc -> Pcs] /\ head \in [Proc -> BOOLEAN]
  BY InvGives DEF PagingTypeOK
<1>2. /\ pc[p] = "enlist_read" /\ pc'[p] = "enlist_write" /\ (head'[p] <=> fifo[p] # << >>)
      /\ UNCHANGED <<pt, fifo, ram, swp, mem, corrupt, inst, hand, sbrk>>
  BY <1>1 DEF enlist_read
<1>3. EnlistedPage(p)' = EnlistedPage(p)
  BY <1>2 DEF EnlistedPage, NextPage
<1>4. FifoFits(p)'
  BY <1>2, <1>3 DEF Fits, FifoFits, Unlisted
<1>5. DataFits(p)'
  BY <1>2 DEF Fits, DataFits, PageFits
<1>6. ReadsFit(p)'
  BY <1>2, <1>3 DEF Fits, ReadsFit
<1>7. CopyFits(p)'
  BY <1>2 DEF CopyFits
<1> QED  BY <1>2, <1>4, <1>5, <1>6, <1>7 DEF Fits

\* find_victim_page() looks how long the list is.
LEMMA VictimReadFits ==
  ASSUME PagingInv, NEW p \in Proc, Fits(p), victim_read(p)
  PROVE  Fits(p)' /\ corrupt' = corrupt
<1>1. pc \in [Proc -> Pcs] /\ single \in [Proc -> BOOLEAN]
  BY InvGives DEF PagingTypeOK
<1>2. pc[p] = "victim_read" /\ UNCHANGED <<pt, fifo, ram, swp, mem, corrupt, running_list>>
  BY DEF victim_read
<1>3. CASE pc'[p] \in {"put_slot", "victim_read"}
  BY <1>2, <1>3, NothingKnown DEF Marked, Known
<1>4. CASE /\ pc'[p] = "victim_detach" /\ idx' = idx
           /\ single'[p] = (Len(fifo[Searched(p)]) = 1)
  <2>1. Searched(p)' = Searched(p)
    BY <1>2, <1>4 DEF Searched
  <2>2. ReadsFit(p)' /\ CopyFits(p)'
    BY <1>2, <1>4, <2>1 DEF ReadsFit, CopyFits
  <2> QED  BY <1>2, <1>4, <2>2, StillFits DEF Marked
<1> QED  BY <1>1, <1>2, <1>3, <1>4 DEF victim_read

\* pg_getpage() looks at the entry of the page.
LEMMA GetpagePteFits ==
  ASSUME PagingInv, NEW p \in Proc, Fits(p), getpage_pte(p)
  PROVE  Fits(p)' /\ corrupt' = corrupt
<1>1. pc[p] = "pte" /\ UNCHANGED <<pt, fifo, ram, swp, mem, corrupt>>
  BY DEF getpage_pte
<1>2. {"fpn", "slot"} \subseteq Pcs
  BY DEF Pcs
<1>3. CASE pt[p][inst[p].pgn].st = "present" /\ Continue(p, "fpn")
  <2>1. pc'[p] = "fpn" /\ inst' = inst
    BY <1>2, <1>3, EndPlaces DEF Continue
  <2>2. ReadsFit(p)' /\ CopyFits(p)'
    BY <1>1, <1>3, <2>1 DEF ReadsFit, CopyFits
  <2> QED  BY <1>1, <2>1, <2>2, StillFits DEF Marked
<1>4. CASE Continue(p, "slot") \/ Return(p)
  <2>1. pc'[p] \in {"slot", "idle"}
    BY <1>2, <1>4, EndPlaces
  <2> QED  BY <1>1, <2>1, NothingKnown DEF Marked, Known
<1> QED  BY <1>3, <1>4 DEF getpage_pte

\* The frame number is read again, and nobody has changed the entry.
LEMMA GetpageFpnFits ==
  ASSUME PagingInv, NEW p \in Proc, Fits(p), getpage_fpn(p)
  PROVE  Fits(p)' /\ corrupt' = corrupt
<1>1. /\ pc \in [Proc -> Pcs] /\ fpn \in [Proc -> Nat] /\ ThreadFits(p)
  BY InvGives DEF PagingTypeOK
<1>2. /\ pc[p] = "fpn" /\ pc'[p] = "mem" /\ fpn'[p] = pt[p][inst[p].pgn].n
      /\ UNCHANGED <<pt, fifo, ram, swp, mem, corrupt, inst>>
  BY <1>1 DEF getpage_fpn, PTE_FPN
<1>3. inst[p].pgn \in Page /\ pt[p][inst[p].pgn].st = "present"
  BY <1>1, <1>2 DEF ThreadFits, Fits, ReadsFit
<1>4. pt[p][inst[p].pgn] = Present(fpn'[p])
  BY <1>2, <1>3, EntryIsPte, PteFacts
<1>5. ReadsFit(p)' /\ CopyFits(p)'
  BY <1>2, <1>4 DEF ReadsFit, CopyFits, Present
<1> QED  BY <1>2, <1>5, StillFits DEF Marked

\* The slot of a page that has been copied into RAM is given back.
LEMMA GetpagePutSlotFits ==
  ASSUME PagingInv, NEW p \in Proc, Fits(p), getpage_put_slot(p)
  PROVE  Fits(p)' /\ corrupt' = corrupt
<1>1. pc \in [Proc -> Pcs]
  BY InvGives DEF PagingTypeOK
<1>2. /\ pc[p] = "in_free" /\ pc'[p] = "in_set"
      /\ UNCHANGED <<pt, fifo, ram, swp, mem, corrupt, inst, fpn>>
  BY <1>1 DEF getpage_put_slot
<1>3. ReadsFit(p)' /\ CopyFits(p)'
  BY <1>2 DEF Fits, ReadsFit, CopyFits
<1> QED  BY <1>2, <1>3, StillFits DEF Marked

\* vmap_page_range() maps a page that was never mapped: there is nothing in it.
LEMMA PteSetFpnFits ==
  ASSUME PagingInv, NEW p \in Proc, Fits(p), pte_set_fpn(p)
  PROVE  Fits(p)' /\ corrupt' = corrupt
<1> DEFINE g == NextPage(p)
           f == Head(hand[p])
<1>1. /\ pc \in [Proc -> Pcs] /\ hand \in [Proc -> Seq(Frame)] /\ hand[p] \in Seq(Frame)
      /\ sbrk[p] \in 0 .. MaxPages /\ ThreadFits(p) /\ inst[p] \in Inst
  BY InvGives DEF PagingTypeOK
<1>2. /\ pc[p] = "map" /\ pc'[p] = "enlist_read" /\ inst[p].op = "inc" /\ hand[p] # << >>
      /\ pt' = [pt EXCEPT ![p][g] = Present(f)] /\ hand'[p] = Tail(hand[p])
      /\ UNCHANGED <<fifo, ram, swp, mem, corrupt, inst, sbrk>>
  BY <1>1 DEF pte_set_fpn, ThreadFits
<1>3. /\ f \in Frame /\ Len(hand'[p]) = Len(hand[p]) - 1 /\ Len(hand[p]) \in Nat \ {0}
  BY <1>1, <1>2, TailProperties
<1>4. Len(hand[p]) <= sbrk[p]
  <2>1. inst[p].n \in 1 .. sbrk[p] /\ Len(hand[p]) <= inst[p].n
    BY <1>1, <1>2 DEF ThreadFits
  <2> QED  BY <1>1, <1>3, <2>1, SMTT(30)
<1>5. g \in Page /\ EnlistedPage(p)' = g /\ g >= FirstNew(p)
  <2>1. EnlistedPage(p)' = sbrk[p] - Len(hand'[p]) - 1
    BY <1>2 DEF EnlistedPage, NextPage
  <2>2. g \in Page /\ EnlistedPage(p)' = g /\ g \in Nat
    BY <1>1, <1>3, <1>4, <2>1, PagingAssumption, SMTT(30) DEF NextPage, Page
  <2>3. FirstNew(p) = g
    BY <1>2 DEF FirstNew
  <2> QED  BY <2>2, <2>3, SMTT(30)
<1> HIDE DEF g, f
<1>6. pt[p][g] = None
  BY <1>5, InvGives DEF TablesFit
<1>7. /\ pt'[p][g] = Present(f) /\ pt'[p][g].st = "present"
      /\ \A q \in Proc, h \in Page : q # p \/ h # g => pt'[q][h] = pt[q][h]
  <2>1. Present(f).st = "present"
    BY <1>3, PteFacts
  <2>2. pt'[p][g] = Present(f) /\ \A q \in Proc, h \in Page : q # p \/ h # g => pt'[q][h] = pt[q][h]
    <3>1. pt \in [Proc -> [Page -> Pte]]
      BY InvGives DEF PagingTypeOK
    <3> QED  BY <1>2, <1>5, <3>1
  <2> QED  BY <2>1, <2>2
<1>8. FifoFits(p)'
  <2>1. \A q \in Proc : NoDuplicates(fifo[q])
    BY <1>2 DEF Fits, FifoFits
  <2>2. ASSUME NEW q \in Proc, NEW h \in Page
        PROVE  h \in Elements(fifo[q]) <=> pt'[q][h].st = "present" /\ ~Unlisted(p, q, h)'
    <3>1. h \in Elements(fifo[q]) <=> pt[q][h].st = "present" /\ ~Unlisted(p, q, h)
      BY <1>2 DEF Fits, FifoFits
    <3>2. ~Unlisted(p, q, h) /\ (Unlisted(p, q, h)' <=> q = p /\ h = g)
      BY <1>2, <1>5 DEF Unlisted
    <3>3. CASE q = p /\ h = g
      BY <1>6, <3>1, <3>2, <3>3, PteFacts
    <3>4. CASE q # p \/ h # g
      BY <1>7, <3>1, <3>2, <3>4
    <3> QED  BY <3>3, <3>4
  <2> QED  BY <1>2, <2>1, <2>2 DEF FifoFits
<1>9. ASSUME NEW q \in Proc, NEW h \in Page PROVE PageFits(p, q, h)'
  <2>1. PageFits(p, q, h)
    BY DEF Fits, DataFits
  <2>2. CASE q = p /\ h = g
    <3>1. mem[q][h] = NULL
      BY <1>2, <1>6, <2>1, <2>2, PteFacts DEF PageFits
    <3> QED  BY <1>2, <3>1 DEF PageFits
  <2>3. CASE q # p \/ h # g
    BY <1>2, <1>7, <2>1, <2>3 DEF PageFits
  <2> QED  BY <2>2, <2>3
<1>10. ReadsFit(p)' /\ CopyFits(p)'
  BY <1>2, <1>5, <1>7 DEF ReadsFit, CopyFits
<1> QED  BY <1>2, <1>8, <1>9, <1>10 DEF Fits, DataFits

\* enlist_pgn_node() puts the page in front of the list it has looked at.
LEMMA EnlistWriteFits ==
  ASSUME PagingInv, NEW p \in Proc, Fits(p), enlist_write(p)
  PROVE  Fits(p)' /\ ~corrupt'
<1> DEFINE g == EnlistedPage(p)
<1>1. /\ pc[p] = "enlist_write" /\ corrupt' = (head[p] /\ fifo[p] = << >>)
      /\ fifo' = [fifo EXCEPT ![p] = <<g>> \o @]
      /\ UNCHANGED <<pt, ram, swp, mem>>
  BY DEF enlist_write
<1>2. g \in Page /\ fifo \in [Proc -> Seq(Page)] /\ fifo[p] \in Seq(Page)
  BY <1>1, EnlistedIsPage, InvGives DEF PagingTypeOK
<1>3. (head[p] <=> fifo[p] # << >>) /\ pt[p][g].st = "present"
  BY <1>1 DEF Fits, ReadsFit
<1>4. /\ \A q \in Proc : NoDuplicates(fifo[q])
      /\ \A q \in Proc, h \in Page :
           h \in Elements(fifo[q]) <=> pt[q][h].st = "present" /\ ~(q = p /\ h = g)
  BY <1>1 DEF Fits, FifoFits, Unlisted
<1>5. /\ pc'[p] \in {"fpn", "map", "idle"}
      /\ pc'[p] = "fpn" => g = inst'[p].pgn
  <2>1. {"fpn", "map"} \subseteq Pcs
    BY DEF Pcs
  <2>2. CASE inst[p].op # "inc" /\ Continue(p, "fpn")
    BY <2>1, <2>2, EndPlaces DEF Continue, EnlistedPage
  <2>3. CASE inst[p].op = "inc" /\ (Continue(p, "map") \/ Return(p))
    BY <2>1, <2>3, EndPlaces
  <2> QED  BY <2>2, <2>3 DEF enlist_write
<1> HIDE DEF g
<1>6. FifoFits(p)'
  <2>1. /\ g \notin Elements(fifo[p]) /\ fifo'[p] = <<g>> \o fifo[p]
        /\ \A q \in Proc : q # p => fifo'[q] = fifo[q]
    BY <1>1, <1>2, <1>4
  <2>2. NoDuplicates(fifo'[p]) /\ Elements(fifo'[p]) = Elements(fifo[p]) \cup {g}
    <3>1. /\ NoDuplicates(<<g>> \o fifo[p])
          /\ Elements(<<g>> \o fifo[p]) = Elements(fifo[p]) \cup {g}
      BY <1>2, <1>4, <2>1, ConsProperties, SMTT(30)
    <3> QED  BY <2>1, <3>1
  <2>3. \A q \in Proc : NoDuplicates(fifo'[q])
    BY <1>4, <2>1, <2>2
  <2>4. ASSUME NEW q \in Proc, NEW h \in Page
        PROVE  h \in Elements(fifo'[q]) <=> pt[q][h].st = "present"
    BY <1>3, <1>4, <2>1, <2>2
  <2>5. \A q \in Proc, h \in Page : ~Unlisted(p, q, h)'
    BY <1>5 DEF Unlisted
  <2> QED  BY <1>1, <2>3, <2>4, <2>5 DEF FifoFits
<1>7. DataFits(p)'
  BY <1>1 DEF Fits, DataFits, PageFits
<1>8. ReadsFit(p)' /\ CopyFits(p)'
  BY <1>1, <1>3, <1>5 DEF ReadsFit, CopyFits
<1> QED  BY <1>1, <1>3, <1>6, <1>7, <1>8 DEF Fits

\* find_victim_page() takes the last page off the list, and the page is resident.
LEMMA VictimDetachFits ==
  ASSUME PagingInv, NEW p \in Proc, Fits(p), victim_detach(p)
  PROVE  Fits(p)' /\ corrupt' = corrupt
<1> DEFINE v == Searched(p)
           g == fifo[v][Len(fifo[v])]
           rest == SubSeq(fifo[v], 1, Len(fifo[v]) - 1)
<1>1. /\ pc[p] = "victim_detach"
      /\ fifo' = [fifo EXCEPT ![v] = IF single[p] THEN << >> ELSE SubSeq(@, 1, Len(@) - 1)]
      /\ UNCHANGED <<pt, ram, swp, mem, corrupt>>
  BY DEF victim_detach
<1>2. /\ pc \in [Proc -> Pcs] /\ vic \in [Proc -> Proc \X Nat] /\ fifo \in [Proc -> Seq(Page)]
      /\ v \in Proc /\ fifo[v] # << >>
  BY <1>1, SearchedIsProc, InvGives DEF ListsStay, PagingTypeOK
<1>3. fifo[v] \in Seq(Page) /\ Len(fifo[v]) \in Nat \ {0} /\ g \in Page /\ g \in Elements(fifo[v])
  <2>1. fifo[v] \in Seq(Page)
    BY <1>2
  <2>2. Len(fifo[v]) \in Nat \ {0}
    BY <1>2, <2>1, SMTT(30)
  <2> QED  BY <2>1, <2>2, SMTT(30) DEF Elements
<1>4. single[p] <=> Len(fifo[v]) = 1
  BY <1>1 DEF Fits, ReadsFit
<1>5. /\ \A q \in Proc : NoDuplicates(fifo[q])
      /\ \A q \in Proc, h \in Page : h \in Elements(fifo[q]) <=> pt[q][h].st = "present"
  BY <1>1 DEF Fits, FifoFits, Unlisted
<1>6. pc'[p] = "swap_copy" /\ vic'[p][1] = v /\ vic'[p][2] = g
  <2>1. pc'[p] = "swap_copy" /\ vic'[p] = <<v, g>>
    BY <1>2, <1>3, <1>5 DEF victim_detach
  <2> HIDE DEF v, g, rest
  <2> QED  BY <2>1, SMTT(30)
<1>7. fifo'[v] = rest /\ \A q \in Proc : q # v => fifo'[q] = fifo[q]
  <2>1. single[p] => rest = << >>
    <3>1. ASSUME Len(fifo[v]) = 1 PROVE SubSeq(fifo[v], 1, Len(fifo[v]) - 1) = << >>
      BY <1>3, <3>1, SMTT(30)
    <3> QED  BY <1>4, <3>1
  <2>2. fifo'[v] = (IF single[p] THEN << >> ELSE rest) /\ \A q \in Proc : q # v => fifo'[q] = fifo[q]
    BY <1>1, <1>2
  <2> QED  BY <2>1, <2>2
<1>8. NoDuplicates(fifo'[v]) /\ Elements(fifo'[v]) = Elements(fifo[v]) \ {g}
  BY <1>2, <1>3, <1>5, <1>7, FrontProperties
<1> HIDE DEF v, g, rest
<1>9. FifoFits(p)'
  <2>1. \A q \in Proc : NoDuplicates(fifo'[q])
    BY <1>5, <1>7, <1>8
  <2>2. \A q \in Proc, h \in Page : Unlisted(p, q, h)' <=> q = v /\ h = g
    BY <1>6 DEF Unlisted
  <2>3. ASSUME NEW q \in Proc, NEW h \in Page
        PROVE  h \in Elements(fifo'[q]) <=> pt[q][h].st = "present" /\ ~(q = v /\ h = g)
    BY <1>5, <1>7, <1>8
  <2> QED  BY <1>1, <2>1, <2>2, <2>3 DEF FifoFits
<1>10. DataFits(p)'
  BY <1>1 DEF Fits, DataFits, PageFits
<1>11. ReadsFit(p)' /\ CopyFits(p)'
  BY <1>6 DEF ReadsFit, CopyFits
<1> QED  BY <1>1, <1>9, <1>10, <1>11 DEF Fits

\* The copy of a page into its slot writes over no other page: the slot is the
\* thread's.
LEMMA SwapCopyFits ==
  ASSUME PagingInv, NEW p \in Proc, Fits(p), Busy \subseteq {p}, swap_copy(p)
  PROVE  Fits(p)' /\ corrupt' = corrupt
<1>1. /\ pc[p] = "swap_copy" /\ pc' = [pc EXCEPT ![p] = "pte_clear"]
      /\ swp' = [swp EXCEPT ![swpfpn[p]] = ram[fpn[p]]]
      /\ UNCHANGED <<pt, fifo, ram, mem, corrupt, vic, swpfpn, fpn, inst>>
  BY DEF swap_copy, __swap_cp_page, MEMPHY_write
<1>2. /\ pc \in [Proc -> Pcs] /\ swp \in [Slot -> Value \cup {NULL}]
      /\ VictimFits(p) /\ ThreadFits(p) /\ vic[p][1] \in Proc /\ pc'[p] = "pte_clear"
  BY <1>1, InvGives DEF PagingTypeOK
<1>3. PICK v \in Proc, g \in Page : v = vic[p][1] /\ g = vic[p][2]
  BY <1>1, <1>2 DEF VictimFits
<1>4. PICK t \in Slot : t = swpfpn[p]
  BY <1>1, <1>2 DEF ThreadFits
<1>5. pt[v][g] = Present(fpn[p]) /\ fpn[p] \in Frame
  <2>1. pt[v][g] = Present(fpn[p]) /\ pt[v][g] \in Pte
    BY <1>1, <1>2, <1>3, EntryIsPte DEF VictimFits, Maps
  <2> QED  BY <2>1, PteFacts, SMTT(30) DEF Present
<1>6. swp'[t] = ram[fpn[p]] /\ \A s \in Slot : s # t => swp'[s] = swp[s]
  BY <1>1, <1>2, <1>4
<1>7. FifoFits(p)'
  BY <1>1, <1>2 DEF Fits, FifoFits, Unlisted
<1>8. ASSUME NEW q \in Proc, NEW h \in Page PROVE PageFits(p, q, h)'
  <2>1. PageFits(p, q, h)
    BY DEF Fits, DataFits
  <2>2. ASSUME pt[q][h].st = "swapped" PROVE pt[q][h].n \in Slot /\ pt[q][h].n # t
    <3>1. pt[q][h] = Swapped(pt[q][h].n) /\ pt[q][h].n \in Slot
      BY <2>2, EntryIsPte, PteFacts
    <3>2. pc[q] # "in_set"
      BY <1>1 DEF Busy
    <3>3. HoldsSlot(p, t)
      BY <1>1, <1>4 DEF HoldsSlot
    <3>4. ~SwappedTo(q, h, t)
      BY <3>3, InvGives DEF SlotHasOneOwner
    <3> QED  BY <3>1, <3>2, <3>4 DEF SwappedTo
  <2> QED  BY <1>1, <1>2, <1>6, <2>1, <2>2 DEF PageFits
<1>9. ReadsFit(p)' /\ CopyFits(p)'
  <2>1. PageFits(p, v, g) /\ Present(fpn[p]).st = "present" /\ Present(fpn[p]).n = fpn[p]
    BY <1>5, PteFacts DEF Fits, DataFits
  <2>2. mem[v][g] \in {NULL, ram[fpn[p]]}
    BY <1>5, <2>1 DEF PageFits
  <2> QED  BY <1>1, <1>2, <1>3, <1>4, <1>6, <2>2 DEF ReadsFit, CopyFits
<1> QED  BY <1>1, <1>7, <1>8, <1>9 DEF Fits, DataFits

\* pte_set_swap() clears the entry of the victim ...
LEMMA PteSetSwapClearFits ==
  ASSUME PagingInv, NEW p \in Proc, Fits(p), pte_set_swap_clear(p)
  PROVE  Fits(p)' /\ corrupt' = corrupt
<1>1. /\ pc[p] = "pte_clear" /\ pc' = [pc EXCEPT ![p] = "pte_swap"]
      /\ pt' = [pt EXCEPT ![vic[p][1]][vic[p][2]] = None]
      /\ UNCHANGED <<fifo, ram, swp, mem, corrupt, vic, swpfpn, fpn, inst>>
  BY DEF pte_set_swap_clear
<1>2. /\ pc \in [Proc -> Pcs] /\ pt \in [Proc -> [Page -> Pte]]
      /\ VictimFits(p) /\ vic[p][1] \in Proc /\ pc'[p] = "pte_swap"
  BY <1>1, InvGives DEF PagingTypeOK
<1>3. PICK v \in Proc, g \in Page : v = vic[p][1] /\ g = vic[p][2]
  BY <1>1, <1>2 DEF VictimFits
<1>4. /\ pt'[v][g] = None /\ None.st = "none"
      /\ \A r \in Proc, h \in Page : r # v \/ h # g => pt'[r][h] = pt[r][h]
  BY <1>1, <1>2, <1>3, PteFacts, SMTT(30)
<1>5. FifoFits(p)'
  <2>1. \A q \in Proc : NoDuplicates(fifo[q])
    BY <1>1 DEF Fits, FifoFits
  <2>2. ASSUME NEW q \in Proc, NEW h \in Page
        PROVE  h \in Elements(fifo[q]) <=> pt'[q][h].st = "present" /\ ~Unlisted(p, q, h)'
    <3>1. h \in Elements(fifo[q]) <=> pt[q][h].st = "present" /\ ~(q = v /\ h = g)
      BY <1>1, <1>3 DEF Fits, FifoFits, Unlisted
    <3>2. ~Unlisted(p, q, h)'
      BY <1>2 DEF Unlisted
    <3> QED  BY <1>4, <3>1, <3>2
  <2> QED  BY <1>1, <2>1, <2>2 DEF FifoFits
<1>6. ASSUME NEW q \in Proc, NEW h \in Page PROVE PageFits(p, q, h)'
  <2>1. PageFits(p, q, h)
    BY DEF Fits, DataFits
  <2>2. CASE q = v /\ h = g
    BY <1>1, <1>2, <1>3, <1>4, <2>2 DEF PageFits
  <2>3. CASE q # v \/ h # g
    BY <1>1, <1>4, <2>1, <2>3 DEF PageFits
  <2> QED  BY <2>2, <2>3
<1>7. ReadsFit(p)' /\ CopyFits(p)'
  BY <1>1, <1>2 DEF Fits, ReadsFit, CopyFits
<1> QED  BY <1>1, <1>5, <1>6, <1>7 DEF Fits, DataFits

\* ... and stores the slot the page was copied to.
LEMMA PteSetSwapFits ==
  ASSUME PagingInv, NEW p \in Proc, Fits(p), pte_set_swap(p)
  PROVE  Fits(p)' /\ corrupt' = corrupt
<1>1. /\ pc[p] = "pte_swap"
      /\ pt' = [pt EXCEPT ![vic[p][1]][vic[p][2]] = Swapped(swpfpn[p])]
      /\ UNCHANGED <<fifo, ram, swp, mem, corrupt>>
  BY DEF pte_set_swap
<1>2. /\ pc \in [Proc -> Pcs] /\ pt \in [Proc -> [Page -> Pte]]
      /\ VictimFits(p) /\ ThreadFits(p) /\ vic[p][1] \in Proc
  BY InvGives DEF PagingTypeOK
<1>3. PICK v \in Proc, g \in Page : v = vic[p][1] /\ g = vic[p][2]
  BY <1>1, <1>2 DEF VictimFits
<1>4. PICK t \in Slot : t = swpfpn[p]
  BY <1>1, <1>2 DEF ThreadFits
<1>5. /\ pt'[v][g] = Swapped(t) /\ Swapped(t).st = "swapped" /\ Swapped(t).n = t
      /\ \A r \in Proc, h \in Page : r # v \/ h # g => pt'[r][h] = pt[r][h]
  <2>1. pt' = [pt EXCEPT ![v][g] = Swapped(t)]
    BY <1>1, <1>3, <1>4
  <2>2. /\ pt'[v][g] = Swapped(t)
        /\ \A r \in Proc, h \in Page : r # v \/ h # g => pt'[r][h] = pt[r][h]
    BY <1>2, <2>1
  <2> QED  BY <2>2, PteFacts
<1>6. pc'[p] \in {"map", "frame", "in_copy"}
  BY <1>2 DEF pte_set_swap, Obtain
<1>7. pt[v][g] = None /\ None.st = "none"
  BY <1>1, <1>2, <1>3, PteFacts DEF VictimFits
<1>8. FifoFits(p)'
  <2>1. \A q \in Proc : NoDuplicates(fifo[q])
    BY <1>1 DEF Fits, FifoFits
  <2>2. ASSUME NEW q \in Proc, NEW h \in Page
        PROVE  h \in Elements(fifo[q]) <=> pt'[q][h].st = "present" /\ ~Unlisted(p, q, h)'
    <3>1. h \in Elements(fifo[q]) <=> pt[q][h].st = "present"
      BY <1>1 DEF Fits, FifoFits, Unlisted
    <3>2. ~Unlisted(p, q, h)'
      BY <1>6 DEF Unlisted
    <3> QED  BY <1>5, <1>7, <3>1, <3>2
  <2> QED  BY <1>1, <2>1, <2>2 DEF FifoFits
<1>9. ASSUME NEW q \in Proc, NEW h \in Page PROVE PageFits(p, q, h)'
  <2>1. PageFits(p, q, h)
    BY DEF Fits, DataFits
  <2>2. CASE q = v /\ h = g
    <3>1. mem[v][g] \in {NULL, swp[t]}
      BY <1>1, <1>3, <1>4 DEF Fits, CopyFits
    <3> QED  BY <1>1, <1>5, <2>2, <3>1 DEF PageFits
  <2>3. CASE q # v \/ h # g
    BY <1>1, <1>3, <1>5, <2>1, <2>3 DEF PageFits
  <2> QED  BY <2>2, <2>3
<1>10. ReadsFit(p)' /\ CopyFits(p)'
  BY <1>6 DEF ReadsFit, CopyFits
<1> QED  BY <1>1, <1>8, <1>9, <1>10 DEF Fits, DataFits

\* The copy of a page into its new frame writes over no other page: the frame is
\* the thread's.
LEMMA GetpageCopyFits ==
  ASSUME PagingInv, NEW p \in Proc, Fits(p), getpage_copy(p)
  PROVE  Fits(p)' /\ corrupt' = corrupt
<1> DEFINE g == inst[p].pgn
<1>1. /\ pc[p] = "in_copy" /\ pc' = [pc EXCEPT ![p] = "in_free"]
      /\ ram' = [ram EXCEPT ![fpn[p]] = swp[req_swpoff(p)]]
      /\ UNCHANGED <<pt, fifo, swp, mem, corrupt, fpn, inst>>
  BY DEF getpage_copy, __swap_cp_page, MEMPHY_write
<1>2. /\ pc \in [Proc -> Pcs] /\ ram \in [Frame -> Value \cup {NULL}] /\ pc'[p] = "in_free"
  BY <1>1, InvGives DEF PagingTypeOK
<1>3. /\ g \in Page /\ fpn[p] \in Frame
      /\ pt[p][g] = Swapped(req_swpoff(p)) /\ req_swpoff(p) \in Slot
  BY <1>1, PageComingIn
<1>4. PICK f \in Frame : f = fpn[p]
  BY <1>3
<1>5. ram'[f] = swp[req_swpoff(p)] /\ \A i \in Frame : i # f => ram'[i] = ram[i]
  BY <1>1, <1>2, <1>4
<1>6. FifoFits(p)'
  BY <1>1, <1>2 DEF Fits, FifoFits, Unlisted
<1>7. ASSUME NEW q \in Proc, NEW h \in Page PROVE PageFits(p, q, h)'
  <2>1. PageFits(p, q, h)
    BY DEF Fits, DataFits
  <2>2. ASSUME pt[q][h].st = "present" PROVE pt[q][h].n \in Frame /\ pt[q][h].n # f
    <3>1. pt[q][h] = Present(pt[q][h].n) /\ pt[q][h].n \in Frame
      BY <2>2, EntryIsPte, PteFacts
    <3>2. Holds(p, f)
      BY <1>1, <1>4 DEF Holds
    <3>3. ~Maps(q, h, f)
      BY <3>2, InvGives DEF FrameHasOneOwner
    <3> QED  BY <3>1, <3>3 DEF Maps
  <2> QED  BY <1>1, <1>2, <1>5, <2>1, <2>2 DEF PageFits
<1>8. ReadsFit(p)' /\ CopyFits(p)'
  <2>1. /\ PageFits(p, p, g)
        /\ Swapped(req_swpoff(p)).st = "swapped" /\ Swapped(req_swpoff(p)).n = req_swpoff(p)
    BY <1>3, PteFacts DEF Fits, DataFits
  <2>2. mem[p][g] \in {NULL, swp[req_swpoff(p)]}
    BY <1>1, <1>3, <2>1 DEF PageFits
  <2> QED  BY <1>1, <1>2, <1>4, <1>5, <2>2 DEF ReadsFit, CopyFits
<1> QED  BY <1>1, <1>6, <1>7, <1>8 DEF Fits, DataFits

\* pg_getpage() stores the entry of the page it has brought in.
LEMMA GetpageSetFits ==
  ASSUME PagingInv, NEW p \in Proc, Fits(p), getpage_set(p)
  PROVE  Fits(p)' /\ corrupt' = corrupt
<1> DEFINE g == inst[p].pgn
<1>1. /\ pc[p] = "in_set" /\ pc' = [pc EXCEPT ![p] = "enlist_read"]
      /\ pt' = [pt EXCEPT ![p][g] = Present(fpn[p])]
      /\ UNCHANGED <<fifo, ram, swp, mem, corrupt, inst>>
  BY DEF getpage_set
<1>2. /\ pc \in [Proc -> Pcs] /\ pt \in [Proc -> [Page -> Pte]] /\ pc'[p] = "enlist_read"
  BY <1>1, InvGives DEF PagingTypeOK
<1>3. /\ g \in Page /\ pt[p][g].st = "swapped" /\ inst[p].op # "inc"
  <2>1. /\ inst[p].op \in {"read", "write"} /\ g \in Page
        /\ pt[p][g] = Swapped(req_swpoff(p)) /\ req_swpoff(p) \in Slot
    BY <1>1, PageComingIn
  <2>2. Swapped(req_swpoff(p)).st = "swapped"
    BY <2>1, PteFacts
  <2> QED  BY <2>1, <2>2
<1>4. PICK f \in Frame : f = fpn[p]
  BY <1>1, PageComingIn
<1>5. EnlistedPage(p)' = g
  BY <1>1, <1>3 DEF EnlistedPage
<1>6. mem[p][g] \in {NULL, ram[f]}
  BY <1>1, <1>4 DEF Fits, CopyFits
<1> HIDE DEF g
<1>7. /\ pt'[p][g] = Present(f) /\ Present(f).st = "present" /\ Present(f).n = f
      /\ \A q \in Proc, h \in Page : q # p \/ h # g => pt'[q][h] = pt[q][h]
  BY <1>1, <1>2, <1>3, <1>4, PteFacts, SMTT(30)
<1>8. FifoFits(p)'
  <2>1. \A q \in Proc : NoDuplicates(fifo[q])
    BY <1>1 DEF Fits, FifoFits
  <2>2. ASSUME NEW q \in Proc, NEW h \in Page
        PROVE  h \in Elements(fifo[q]) <=> pt'[q][h].st = "present" /\ ~Unlisted(p, q, h)'
    <3>1. h \in Elements(fifo[q]) <=> pt[q][h].st = "present"
      BY <1>1 DEF Fits, FifoFits, Unlisted
    <3>2. Unlisted(p, q, h)' <=> q = p /\ h = g
      BY <1>2, <1>5 DEF Unlisted
    <3> QED  BY <1>3, <1>7, <3>1, <3>2
  <2> QED  BY <1>1, <2>1, <2>2 DEF FifoFits
<1>9. ASSUME NEW q \in Proc, NEW h \in Page PROVE PageFits(p, q, h)'
  <2>1. PageFits(p, q, h)
    BY DEF Fits, DataFits
  <2>2. CASE q = p /\ h = g
    BY <1>1, <1>6, <1>7, <2>2 DEF PageFits
  <2>3. CASE q # p \/ h # g
    BY <1>1, <1>7, <2>1, <2>3 DEF PageFits, g
  <2> QED  BY <2>2, <2>3
<1>10. ReadsFit(p)' /\ CopyFits(p)'
  BY <1>2, <1>5, <1>7 DEF ReadsFit, CopyFits
<1> QED  BY <1>1, <1>8, <1>9, <1>10 DEF Fits, DataFits

\* pg_setval() writes to the frame of the page, which no other page has.
LEMMA SetvalFits ==
  ASSUME PagingInv, NEW p \in Proc, Fits(p), pg_setval(p)
  PROVE  Fits(p)' /\ corrupt' = corrupt
<1> DEFINE g == inst[p].pgn
<1>1. /\ pc[p] = "mem" /\ pc'[p] = "idle"
      /\ UNCHANGED <<pt, fifo, swp, corrupt>>
  BY EndPlaces DEF pg_setval
<1>2. /\ ram \in [Frame -> Value \cup {NULL}] /\ mem \in [Proc -> [Page -> Value \cup {NULL}]]
      /\ ThreadFits(p)
  BY InvGives DEF PagingTypeOK
<1>3. g \in Page /\ pt[p][g] = Present(fpn[p])
  BY <1>1, <1>2 DEF ThreadFits, Fits, ReadsFit
<1>4. PICK f \in Frame : f = fpn[p]
  <2>1. pt[p][g] \in Pte
    BY <1>3, EntryIsPte
  <2> QED  BY <1>3, <2>1, PteFacts, SMTT(30) DEF Present
<1>5. /\ ram' = [ram EXCEPT ![f] = inst[p].val]
      /\ mem' = [mem EXCEPT ![p][g] = inst[p].val]
  BY <1>2, <1>4 DEF pg_setval, InDevice, MEMPHY_write
<1> DEFINE new == inst[p].val
<1> HIDE DEF g, new
<1>6. /\ ram'[f] = new /\ \A i \in Frame : i # f => ram'[i] = ram[i]
      /\ mem'[p][g] = new
      /\ \A q \in Proc, h \in Page : q # p \/ h # g => mem'[q][h] = mem[q][h]
  <2>1. ram' = [ram EXCEPT ![f] = new] /\ mem' = [mem EXCEPT ![p][g] = new]
    BY <1>5 DEF new
  <2>2. ram'[f] = new /\ \A i \in Frame : i # f => ram'[i] = ram[i]
    BY <1>2, <2>1
  <2>3. /\ mem'[p][g] = new
        /\ \A q \in Proc, h \in Page : q # p \/ h # g => mem'[q][h] = mem[q][h]
    BY <1>2, <1>3, <2>1
  <2> QED  BY <2>2, <2>3
<1>7. FifoFits(p)'
  BY <1>1 DEF Fits, FifoFits, Unlisted
<1>8. ASSUME NEW q \in Proc, NEW h \in Page PROVE PageFits(p, q, h)'
  <2>1. PageFits(p, q, h)
    BY DEF Fits, DataFits
  <2>2. CASE q = p /\ h = g
    <3>1. pt[q][h].st = "present" /\ pt[q][h].n = f
      BY <1>3, <1>4, <2>2, PteFacts
    <3> QED  BY <1>1, <1>6, <2>2, <3>1 DEF PageFits
  <2>3. CASE q # p \/ h # g
    <3>1. ASSUME pt[q][h].st = "present" PROVE pt[q][h].n \in Frame /\ pt[q][h].n # f
      <4>1. pt[q][h] = Present(pt[q][h].n) /\ pt[q][h].n \in Frame
        BY <3>1, EntryIsPte, PteFacts
      <4>2. Maps(p, g, f)
        BY <1>3, <1>4 DEF Maps
      <4>3. ~Maps(q, h, f)
        BY <1>3, <2>3, <4>2, InvGives DEF FrameHasOneOwner
      <4> QED  BY <4>1, <4>3 DEF Maps
    <3> QED  BY <1>1, <1>6, <2>1, <2>3, <3>1 DEF PageFits
  <2> QED  BY <2>2, <2>3
<1>9. ReadsFit(p)' /\ CopyFits(p)'
  BY <1>1 DEF ReadsFit, CopyFits
<1> QED  BY <1>1, <1>7, <1>8, <1>9 DEF Fits, DataFits

\* free_pcb_memph() clears the entries, ...
LEMMA CollectFits ==
  ASSUME PagingInv, NEW p \in Proc, Fits(p), collect(p)
  PROVE  Fits(p)' /\ corrupt' = corrupt
<1>1. /\ pc[p] = "collect" /\ UNCHANGED <<pc, fifo, ram, swp, corrupt>>
  BY DEF collect
<1>2. PICK g \in Page : /\ pt' = [pt EXCEPT ![p][g] = None]
                        /\ mem' = [mem EXCEPT ![p][g] = NULL]
  BY DEF collect
<1>3. pt \in [Proc -> [Page -> Pte]] /\ mem \in [Proc -> [Page -> Value \cup {NULL}]]
  BY InvGives DEF PagingTypeOK
<1>4. /\ mem'[p][g] = NULL
      /\ \A q \in Proc, h \in Page :
           q # p \/ h # g => pt'[q][h] = pt[q][h] /\ mem'[q][h] = mem[q][h]
  BY <1>2, <1>3, SMTT(30)
<1>5. FifoFits(p)'
  <2>1. ASSUME NEW q \in Proc, q # p
        PROVE  /\ NoDuplicates(fifo[q])
               /\ \A h \in Page : h \in Elements(fifo[q]) <=> pt[q][h].st = "present"
    BY <1>1, <2>1 DEF Fits, FifoFits, Unlisted
  <2>2. \A q \in Proc, h \in Page : ~Unlisted(p, q, h)'
    BY <1>1 DEF Unlisted
  <2>3. ASSUME NEW q \in Proc, q # p
        PROVE  /\ NoDuplicates(fifo'[q])
               /\ \A h \in Page : h \in Elements(fifo'[q]) <=> pt'[q][h].st = "present"
    <3>1. fifo'[q] = fifo[q] /\ \A h \in Page : pt'[q][h] = pt[q][h]
      BY <1>1, <1>4, <2>3
    <3> QED  BY <2>1, <2>3, <3>1
  <2>4. pc'[p] = "collect"
    BY <1>1
  <2>5. SUFFICES ASSUME NEW q \in Proc, q # p
                 PROVE  /\ NoDuplicates(fifo'[q])
                        /\ \A h \in Page : h \in Elements(fifo'[q])
                             <=> pt'[q][h].st = "present" /\ ~Unlisted(p, q, h)'
    BY <2>4 DEF FifoFits
  <2> QED  BY <2>2, <2>3, <2>5
<1>6. ASSUME NEW q \in Proc, NEW h \in Page PROVE PageFits(p, q, h)'
  <2>1. PageFits(p, q, h)
    BY DEF Fits, DataFits
  <2> QED  BY <1>1, <1>4, <2>1 DEF PageFits
<1>7. ReadsFit(p)' /\ CopyFits(p)'
  BY <1>1 DEF ReadsFit, CopyFits
<1> QED  BY <1>1, <1>5, <1>6, <1>7 DEF Fits, DataFits

\* ... then the list.
LEMMA CollectEndFits ==
  ASSUME PagingInv, NEW p \in Proc, Fits(p), collect_end(p)
  PROVE  Fits(p)' /\ corrupt' = corrupt
<1>1. /\ pc[p] = "collect" /\ fifo' = [fifo EXCEPT ![p] = << >>]
      /\ \A g \in Page : pt[p][g] = None
      /\ UNCHANGED <<pt, mem, ram, swp, corrupt>>
  BY DEF collect_end
<1>2. fifo \in [Proc -> Seq(Page)] /\ pc'[p] = "dead"
  BY InvGives DEF PagingTypeOK, collect_end
<1>3. fifo'[p] = << >> /\ \A q \in Proc : q # p => fifo'[q] = fifo[q]
  BY <1>1, <1>2
<1>4. NoDuplicates(<< >>) /\ Elements(<< >>) = {} /\ None.st # "present"
  <2>1. NoDuplicates(<< >>) /\ Elements(<< >>) = {}
    BY SMTT(30) DEF NoDuplicates, Elements
  <2> QED  BY <2>1, PteFacts
<1>5. FifoFits(p)'
  <2>1. ASSUME NEW q \in Proc, q # p
        PROVE  /\ NoDuplicates(fifo[q])
               /\ \A g \in Page : g \in Elements(fifo[q]) <=> pt[q][g].st = "present"
    BY <1>1, <2>1 DEF Fits, FifoFits, Unlisted
  <2>2. \A q \in Proc : NoDuplicates(fifo'[q])
    BY <1>3, <1>4, <2>1
  <2>3. ASSUME NEW q \in Proc, NEW h \in Page
        PROVE  h \in Elements(fifo'[q]) <=> pt[q][h].st = "present"
    BY <1>1, <1>3, <1>4, <2>1
  <2>4. \A q \in Proc, h \in Page : ~Unlisted(p, q, h)'
    BY <1>2 DEF Unlisted
  <2> QED  BY <1>1, <2>2, <2>3, <2>4 DEF FifoFits
<1>6. DataFits(p)'
  BY <1>1 DEF Fits, DataFits, PageFits
<1>7. ReadsFit(p)' /\ CopyFits(p)'
  BY <1>2 DEF ReadsFit, CopyFits
<1> QED  BY <1>1, <1>5, <1>6, <1>7 DEF Fits

\* Every step of an instruction.
LEMMA StepsFit ==
  ASSUME PagingInv, NEW p \in Proc, Fits(p), Busy \subseteq {p}, ~corrupt, Step(p)
  PROVE  Fits(p)' /\ ~corrupt'
<1> DEFINE Goal == Fits(p)' /\ ~corrupt'
<1>1. ASSUME \/ access_lock(p) \/ alloc_frame(p) \/ release_frame_list(p)
             \/ swap_get_slot(p) \/ victim_lock(p) \/ swap_put_slot(p) \/ pg_getval(p) \/ collect_lock(p)
      PROVE  Goal
  BY <1>1, PlainStepsFit
<1>2. ASSUME pte_set_fpn(p) \/ enlist_read(p) \/ enlist_write(p) PROVE Goal
  BY <1>2, PteSetFpnFits, EnlistReadFits, EnlistWriteFits
<1>3. ASSUME victim_read(p) \/ victim_detach(p) PROVE Goal
  BY <1>3, VictimReadFits, VictimDetachFits
<1>4. ASSUME swap_copy(p) \/ pte_set_swap_clear(p) \/ pte_set_swap(p) PROVE Goal
  BY <1>4, SwapCopyFits, PteSetSwapClearFits, PteSetSwapFits
<1>5. ASSUME getpage_pte(p) \/ getpage_copy(p) \/ getpage_put_slot(p) PROVE Goal
  BY <1>5, GetpagePteFits, GetpageCopyFits, GetpagePutSlotFits
<1>6. ASSUME getpage_set(p) \/ getpage_fpn(p) \/ pg_setval(p) PROVE Goal
  BY <1>6, GetpageSetFits, GetpageFpnFits, SetvalFits
<1>7. ASSUME collect(p) \/ collect_end(p) PROVE Goal
  BY <1>7, CollectFits, CollectEndFits
<1> HIDE DEF Goal
<1>8. Goal
  BY <1>1, <1>2, <1>3, <1>4, <1>5, <1>6, <1>7 DEF Step
<1> QED  BY <1>8 DEF Goal

----------------------------------------------------------------------------
(* The invariant holds.                                                    *)

Resting == {"new", "idle", "dead"}

\* When nobody is inside an instruction, it does not matter who looks.
LEMMA AtRest ==
  ASSUME NEW p \in Proc, NEW r \in Proc, Fits(p)', pc'[p] \in Resting, pc'[r] \in Resting
  PROVE  Fits(r)'
<1>1. FifoFits(r)'
  BY DEF Fits, FifoFits, Unlisted, Resting
<1>2. DataFits(r)'
  BY DEF Fits, DataFits, PageFits, Resting
<1>3. ReadsFit(r)' /\ CopyFits(r)'
  BY DEF ReadsFit, CopyFits, Resting
<1> QED  BY <1>1, <1>2, <1>3 DEF Fits

\* A step of a thread moves no other.
LEMMA OneMoves ==
  ASSUME PagingInv, NEW p \in Proc, Start(p) \/ Step(p)
  PROVE  /\ \A q \in Proc : q # p => pc'[q] = pc[q]
         /\ Step(p) => p \in Busy
<1> DEFINE Goal == \A q \in Proc : q # p => pc'[q] = pc[q]
<1>1. pc \in [Proc -> Pcs]
  BY InvGives DEF PagingTypeOK
<1>2. ASSUME access_lock(p) \/ alloc_frame(p) \/ release_frame_list(p) \/ pte_set_fpn(p)
             \/ enlist_read(p) \/ enlist_write(p)
      PROVE  Goal /\ p \in Busy
  BY <1>1, <1>2
     DEF access_lock, alloc_frame, release_frame_list, pte_set_fpn, enlist_read, enlist_write,
         Continue, Return, Obtain, Busy
<1>3. ASSUME swap_get_slot(p) \/ victim_lock(p) \/ victim_read(p) \/ victim_detach(p)
             \/ swap_put_slot(p)
      PROVE  Goal /\ p \in Busy
  BY <1>1, <1>3
     DEF swap_get_slot, victim_lock, victim_read, victim_detach, swap_put_slot, SwapOutFails,
         Continue, Return, Busy
<1>4. ASSUME swap_copy(p) \/ pte_set_swap_clear(p) \/ pte_set_swap(p) \/ getpage_pte(p)
             \/ getpage_copy(p) \/ getpage_put_slot(p)
      PROVE  Goal /\ p \in Busy
  BY <1>1, <1>4
     DEF swap_copy, pte_set_swap_clear, pte_set_swap, getpage_pte, getpage_copy, getpage_put_slot,
         Continue, Return, Obtain, Busy
<1>5. ASSUME getpage_set(p) \/ getpage_fpn(p) \/ pg_getval(p) \/ pg_setval(p)
             \/ collect_lock(p) \/ collect(p) \/ collect_end(p)
      PROVE  Goal /\ p \in Busy
  BY <1>1, <1>5
     DEF getpage_set, getpage_fpn, pg_getval, pg_setval, collect_lock, collect, collect_end,
         Return, Busy
<1>6. ASSUME Start(p) PROVE Goal
  BY <1>1, <1>6
     DEF Start, add_proc, access, __sys_memmap, inc_vma_limit, StartAccess, finish_proc
<1> HIDE DEF Goal
<1>7. Step(p) => Goal /\ p \in Busy
  BY <1>2, <1>3, <1>4, <1>5 DEF Step
<1> QED  BY <1>6, <1>7 DEF Goal

\* The loader adds a process while nobody searches for a victim.
LEMMA AddProcFits ==
  ASSUME PagingInv, NEW p \in Proc, add_proc(p), NEW r \in Proc, Fits(r)
  PROVE  Fits(r)'
<1>1. /\ pc[p] = "new" /\ queue_lock = NULL /\ pc' = [pc EXCEPT ![p] = "idle"]
      /\ UNCHANGED <<pt, fifo, sbrk, ram, swp, mem, inst, hand, vic, swpfpn, fpn, head, single>>
  BY DEF add_proc
<1>2. pc \in [Proc -> Pcs] /\ pc[r] # "victim_detach"
  BY <1>1, InvGives, PagingAssumption DEF PagingTypeOK, QueueLocked
<1>3. \A l : l # "new" /\ l # "idle" => (pc'[r] = l <=> pc[r] = l)
  BY <1>1, <1>2
<1>4. EnlistedPage(r)' = EnlistedPage(r)
  BY <1>1 DEF EnlistedPage, NextPage
<1>5. \A q \in Proc, g \in Page : Unlisted(r, q, g)' <=> Unlisted(r, q, g)
  BY <1>1, <1>3, <1>4 DEF Unlisted
<1>6. FifoFits(r)'
  BY <1>1, <1>3, <1>5 DEF Fits, FifoFits
<1>7. DataFits(r)'
  BY <1>1, <1>3 DEF Fits, DataFits, PageFits
<1>8. ReadsFit(r)'
  BY <1>1, <1>2, <1>3, <1>4 DEF Fits, ReadsFit
<1>9. CopyFits(r)'
  BY <1>1, <1>3 DEF Fits, CopyFits
<1> QED  BY <1>6, <1>7, <1>8, <1>9 DEF Fits

\* A set with one element has one.
LEMMA OneElement ==
  ASSUME NEW x
  PROVE  Cardinality({x}) = 1
<1> DEFINE Counts(f) == f = [T \in SUBSET {x} |-> IF T = {} THEN 0
                                                  ELSE 1 + f[T \ {CHOOSE y : y \in T}]]
           CS == CHOOSE f : Counts(f)
           count == [T \in SUBSET {x} |-> IF T = {} THEN 0 ELSE 1]
<1>1. Cardinality({x}) = CS[{x}]
  BY Zenon DEF Cardinality
<1>2. ASSUME NEW T \in SUBSET {x}, T # {}
      PROVE  T = {x} /\ T \ {CHOOSE y : y \in T} = {}
  <2>1. T = {x}
    BY <1>2, Zenon
  <2>2. (CHOOSE y : y \in T) \in T
    BY <1>2, Zenon
  <2> QED  BY <2>1, <2>2, Zenon
<1>3. {} \in SUBSET {x} /\ {x} \in SUBSET {x} /\ {x} # {}
  BY Zenon
<1>4. count[{}] = 0
  BY <1>3
<1>5. Counts(count)
  <2>1. ASSUME NEW T \in SUBSET {x}
        PROVE  (IF T = {} THEN 0 ELSE 1) = (IF T = {} THEN 0 ELSE 1 + count[T \ {CHOOSE y : y \in T}])
    <3> HIDE DEF count
    <3> QED  BY <1>2, <1>4, SMTT(30)
  <2> QED  BY <2>1, Zenon
<1>6. Counts(CS)
  <2> HIDE DEF Counts, count
  <2> QED  BY <1>5, Zenon
<1>7. CS[{}] = 0 /\ CS[{x}] = 1 + CS[{x} \ {CHOOSE y : y \in {x}}]
  <2> HIDE DEF CS
  <2> QED  BY <1>3, <1>6, Zenon
<1>8. {x} \ {CHOOSE y : y \in {x}} = {}
  BY <1>2, <1>3, Zenon
<1> HIDE DEF CS, Counts, count
<1> QED  BY <1>1, <1>7, <1>8, SMTT(30)

\* A step of one CPU.
LEMMA OneCpuStep ==
  ASSUME NCPU = 1, PagingInv, OneInv, [Next]_vars
  PROVE  OneInv'
<1>1. /\ ~corrupt /\ (\A p, q \in Busy : p = q)
      /\ \A p \in Proc : Busy \subseteq {p} => Fits(p)
  BY DEF OneInv
<1>2. CASE UNCHANGED vars
  <2>1. Busy' = Busy
    BY <1>2 DEF vars, Busy
  <2>2. \A p \in Proc : Fits(p)' <=> Fits(p)
    <3> SUFFICES ASSUME NEW p \in Proc PROVE Fits(p)' <=> Fits(p)
      OBVIOUS
    <3>1. EnlistedPage(p)' = EnlistedPage(p) /\ Searched(p)' = Searched(p)
      BY <1>2 DEF vars, EnlistedPage, NextPage, Searched
    <3>2. FifoFits(p)' <=> FifoFits(p)
      <4>1. /\ UNCHANGED <<fifo, pt, pc>>
            /\ \A q \in Proc, g \in Page : Unlisted(p, q, g)' <=> Unlisted(p, q, g)
        BY <1>2, <3>1 DEF vars, Unlisted
      <4> QED  BY <4>1 DEF FifoFits
    <3>3. DataFits(p)' <=> DataFits(p)
      <4>1. \A q \in Proc, g \in Page : PageFits(p, q, g)' <=> PageFits(p, q, g)
        BY <1>2 DEF vars, PageFits
      <4> QED  BY <4>1 DEF DataFits
    <3>4. ReadsFit(p)' <=> ReadsFit(p)
      BY <1>2, <3>1 DEF vars, ReadsFit
    <3>5. CopyFits(p)' <=> CopyFits(p)
      BY <1>2 DEF vars, CopyFits
    <3> QED  BY <3>2, <3>3, <3>4, <3>5 DEF Fits
  <2>3. corrupt' = corrupt
    BY <1>2 DEF vars
  <2> QED  BY <1>1, <2>1, <2>2, <2>3 DEF OneInv
<1>3. ASSUME NEW p \in Proc, Step(p) \/ access(p) \/ __sys_memmap(p) \/ finish_proc(p)
      PROVE  OneInv'
  <2>1. /\ \A q \in Proc : q # p => pc'[q] = pc[q]
        /\ Step(p) => p \in Busy
    BY <1>3, OneMoves DEF Start
  <2>2. ASSUME access(p) \/ __sys_memmap(p) \/ finish_proc(p) PROVE Busy = {}
    <3>1. Cardinality(Busy) < 1
      BY <2>2 DEF access, __sys_memmap, StartAccess, inc_vma_limit, finish_proc
    <3>2. ASSUME NEW x \in Busy PROVE FALSE
      <4>1. Busy = {x}
        BY <1>1
      <4>2. Cardinality(Busy) = 1
        BY <4>1, OneElement
      <4> QED  BY <3>1, <4>2, SMTT(30)
    <3> QED  BY <3>2
  <2>3. Busy \subseteq {p}
    BY <1>1, <1>3, <2>1, <2>2
  <2>4. Fits(p)
    BY <1>1, <2>3
  <2>5. Fits(p)' /\ ~corrupt'
    <3>1. CASE Step(p)
      BY <1>1, <2>3, <2>4, <3>1, StepsFit
    <3>2. CASE access(p) \/ __sys_memmap(p) \/ finish_proc(p)
      <4>1. inc_vma_limit(p) \/ access(p) \/ StartAccess(p, TRUE) \/ finish_proc(p)
        BY <3>2 DEF __sys_memmap
      <4> QED  BY <1>1, <2>4, <4>1, PlainStepsFit
    <3> QED  BY <1>3, <3>1, <3>2
  <2>6. Busy' \subseteq {p}
    BY <2>1, <2>3 DEF Busy
  <2>7. ASSUME NEW r \in Proc, Busy' \subseteq {r} PROVE Fits(r)'
    <3>1. CASE r = p
      BY <2>5, <3>1
    <3>2. CASE r # p
      <4>1. p \notin Busy' /\ r \notin Busy'
        BY <2>6, <2>7, <3>2
      <4>2. pc'[p] \in Resting /\ pc'[r] \in Resting
        BY <4>1 DEF Busy, Resting
      <4> QED  BY <2>5, <4>2, AtRest
    <3> QED  BY <3>1, <3>2
  <2> QED  BY <2>5, <2>6, <2>7 DEF OneInv
<1>4. ASSUME NEW p \in Proc, add_proc(p) PROVE OneInv'
  <2>1. pc \in [Proc -> Pcs]
    BY InvGives DEF PagingTypeOK
  <2>2. Busy' = Busy /\ corrupt' = corrupt
    BY <1>4, <2>1 DEF add_proc, Busy
  <2> QED  BY <1>1, <1>4, <2>2, AddProcFits DEF OneInv
<1>5. (\E p \in Proc : Start(p) \/ Step(p)) \/ UNCHANGED vars
  BY DEF Next, Stopped
<1> QED  BY <1>2, <1>3, <1>4, <1>5 DEF Start

\* In the beginning nothing is mapped, listed or stored.
LEMMA OneCpuInit ==
  ASSUME Init
  PROVE  OneInv
<1>1. /\ ~corrupt /\ \A q \in Proc : pc[q] = "new" /\ fifo[q] = << >>
      /\ \A q \in Proc, g \in Page : pt[q][g] = None /\ mem[q][g] = NULL
  BY DEF Init
<1>2. NoDuplicates(<< >>) /\ Elements(<< >>) = {}
  BY SMTT(30) DEF NoDuplicates, Elements
<1>3. None.st = "none"
  BY PteFacts
<1>4. \A p \in Proc : Fits(p)
  <2> SUFFICES ASSUME NEW p \in Proc PROVE Fits(p)
    OBVIOUS
  <2>1. FifoFits(p)
    BY <1>1, <1>2, <1>3 DEF FifoFits
  <2>2. DataFits(p)
    BY <1>1 DEF DataFits, PageFits
  <2>3. ReadsFit(p) /\ CopyFits(p)
    BY <1>1 DEF ReadsFit, CopyFits
  <2> QED  BY <2>1, <2>2, <2>3 DEF Fits
<1> QED  BY <1>1, <1>4 DEF OneInv, Busy

\* With one CPU an instruction finds lists, entries and frames as the last one left
\* them: OneInv holds in every state.
THEOREM OneCpuInvariant ==
  ASSUME NCPU = 1
  PROVE  Spec => []OneInv
<1>1. Init => OneInv
  BY OneCpuInit
<1>2. PagingInv /\ OneInv /\ [Next]_vars => OneInv'
  BY OneCpuStep
<1>3. Spec => []PagingInv
  BY PagingInvariant
<1> QED  BY <1>1, <1>2, <1>3, PTL DEF Spec

\* With one CPU what a process stored in a page stays there, in RAM or in swap,
\* through every copy of swap_out_victim_page() and pg_getpage().
THEOREM OneCpuKeepsData ==
  ASSUME NCPU = 1
  PROVE  Spec => []DataIntact
<1>1. OneInv => DataIntact
  <2> SUFFICES ASSUME OneInv, NEW p \in Proc, NEW g \in Page, mem[p][g] # NULL,
                      ~(pc[p] = "in_set" /\ inst[p].pgn = g)
               PROVE  /\ pt[p][g].st = "present" => ram[pt[p][g].n] = mem[p][g]
                      /\ pt[p][g].st = "swapped" => swp[pt[p][g].n] = mem[p][g]
    BY DEF DataIntact
  <2>1. PICK b \in Proc : Busy \subseteq {b}
    BY DEF OneInv, Busy
  <2>2. PageFits(b, p, g)
    BY <2>1 DEF OneInv, Fits, DataFits
  <2> QED  BY <2>2 DEF PageFits
<1> QED  BY <1>1, OneCpuInvariant, PTL

\* With one CPU the FIFO lists hold the resident pages, each once, whenever no
\* instruction is under way.
THEOREM OneCpuListsPages ==
  ASSUME NCPU = 1
  PROVE  Spec => []FifoIsResident
<1>1. PagingInv /\ OneInv => FifoIsResident
  <2> SUFFICES ASSUME PagingInv, OneInv, Busy = {}, NEW p \in Proc
               PROVE  /\ NoDuplicates(fifo[p])
                      /\ Elements(fifo[p]) = {g \in Page : pt[p][g].st = "present"}
    BY DEF FifoIsResident
  <2>1. FifoFits(p) /\ pc[p] \in Resting
    BY DEF OneInv, Fits, Busy, Resting
  <2>2. /\ NoDuplicates(fifo[p])
        /\ \A g \in Page : g \in Elements(fifo[p]) <=> pt[p][g].st = "present"
    BY <2>1 DEF FifoFits, Unlisted, Resting
  <2>3. fifo[p] \in Seq(Page)
    BY InvGives DEF PagingTypeOK
  <2>4. Elements(fifo[p]) \subseteq Page
    BY <2>3, SMTT(30) DEF Elements
  <2> QED  BY <2>2, <2>4
<1> QED  BY <1>1, OneCpuInvariant, PagingInvariant, PTL

\* With one CPU no list is read through a node that has been freed.
THEOREM OneCpuNodesAlive ==
  ASSUME NCPU = 1
  PROVE  Spec => []NodesAreAlive
<1>1. OneInv => NodesAreAlive
  BY DEF OneInv, NodesAreAlive
<1> QED  BY <1>1, OneCpuInvariant, PTL

\* With one CPU a read returns what the process last stored in the page.
THEOREM OneCpuReadsWrites ==
  ASSUME NCPU = 1
  PROVE  Spec => ReadYourWrites
<1> DEFINE Step1 ==
      \A p \in Proc :
        pc[p] = "mem" /\ inst[p].op = "read" /\ ~inst[p].io /\ pc'[p] = "idle" /\ fpn[p] \in Frame
          => mem[p][inst[p].pgn] \in {NULL, ram[fpn[p]]}
<1>1. PagingInv /\ OneInv => Step1
  <2> SUFFICES ASSUME PagingInv, OneInv, NEW p \in Proc, pc[p] = "mem", fpn[p] \in Frame
               PROVE  mem[p][inst[p].pgn] \in {NULL, ram[fpn[p]]}
    OBVIOUS
  <2>1. Busy \subseteq {p}
    BY DEF OneInv, Busy
  <2>2. Fits(p) /\ inst[p].pgn \in Page
    BY <2>1, InvGives DEF OneInv, ThreadFits
  <2>3. /\ PageFits(p, p, inst[p].pgn) /\ pt[p][inst[p].pgn] = Present(fpn[p])
    BY <2>2 DEF Fits, DataFits, ReadsFit
  <2>4. Present(fpn[p]).st = "present" /\ Present(fpn[p]).n = fpn[p]
    BY PteFacts
  <2> QED  BY <2>3, <2>4 DEF PageFits
<1>2. []PagingInv /\ []OneInv => [][Step1]_vars
  BY <1>1, PTL
<1> QED  BY <1>2, OneCpuInvariant, PagingInvariant, PTL DEF ReadYourWrites
============================================================================
