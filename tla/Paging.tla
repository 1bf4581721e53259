------------------------------- MODULE Paging ------------------------------
(***************************************************************************)
(* Demand paging of user memory: mm64.c (page tables, swapping), the user  *)
(* half of libmem.c (pg_getpage and its callers), the frame lists of       *)
(* mm-memphy.c and the part of inc_vma_limit() that maps new pages.        *)
(*                                                                         *)
(* The threads are the CPUs.  A process is on at most one CPU, so a        *)
(* process stands for the thread that executes its current instruction;    *)
(* at most NCPU of them are inside one.  Two mutexes order them:           *)
(*   mmvm_lock   held over a read or a write, but neither by the system    *)
(*               calls IO_READ and IO_WRITE nor while a heap grows         *)
(*   queue_lock  held by swap_out_victim_page() from the search for a      *)
(*               victim to the update of its page-table entry, and by      *)
(*               add_proc() and finish_proc()                              *)
(* The devices have a mutex of their own and each access is one step.      *)
(* A local variable that has gone out of scope has its first value.        *)
(***************************************************************************)
EXTENDS ProcQueue, MemPhy, FiniteSets

CONSTANTS
  Proc,       \* processes
  NULL,       \* no process; a page nothing was stored in
  NCPU,       \* CPUs
  NFrames,    \* frames of the RAM device
  NSlots,     \* frames of the active swap device
  MaxPages,   \* bound: pages in the address space of a process
  MaxInc,     \* bound: pages a heap grows by at a time
  Value       \* what a cell can hold

ASSUME PagingAssumption ==
  /\ NULL \notin Proc
  /\ NULL \notin Value
  /\ NCPU \in Nat
  /\ NFrames \in Nat
  /\ NSlots \in Nat
  /\ MaxPages \in Nat
  /\ MaxInc \in Nat

Frame == Frames(NFrames)
Slot  == Frames(NSlots)
Page  == 0 .. MaxPages - 1

VARIABLES
  ram_free, swp_free,    \* free_fp_list of the two devices: nodes per frame
  ram, swp,              \* their storage
  pt,                    \* page table of each process
  fifo,                  \* fifo_pgn: resident pages, the newest first
  sbrk,                  \* pages of the heap
  running_list,          \* processes add_proc() has made known
  mmvm_lock, queue_lock, \* who holds them
  pc, inst,              \* where each thread is, and in which instruction
  hand,                  \* alloc_pages_range: the frames obtained so far
  fpn,                   \* the frame obtained from a victim or found for a page
  swpfpn, vic,           \* swap_out_victim_page: its slot and its victim
  idx, single,           \* find_global_victim: place in running_list, 0 for the
                         \* caller; find_victim_page: the list had one node
  head,                  \* enlist_pgn_node: the list it read was empty or not
  corrupt,               \* a list node has been used after it was freed
  mem                    \* history: what each process last stored in a page

freeVars  == <<ram_free, swp_free>>
dataVars  == <<ram, swp, mem>>
tableVars == <<pt, fifo, sbrk>>
lockVars  == <<mmvm_lock, queue_lock>>
swapVars  == <<swpfpn, vic, idx, single>>
localVars == <<inst, hand, fpn, head, swapVars>>
vars == <<freeVars, dataVars, tableVars, running_list, lockVars, pc, localVars, corrupt>>

\* Page-table entries.  The frame number of a resident page and the offset of
\* a swapped one occupy the same bits, here the field n.
None       == [st |-> "none", n |-> 0]
Present(f) == [st |-> "present", n |-> f]
Swapped(s) == [st |-> "swapped", n |-> s]

PTE_FPN(pte) == pte.n

NoInst == [op |-> "none", io |-> FALSE, pgn |-> 0, n |-> 0, val |-> NULL]

goto(p, l) == pc' = [pc EXCEPT ![p] = l]

At(p, l) == pc[p] = l /\ ~corrupt

Busy == {p \in Proc : pc[p] \notin {"new", "idle", "dead"}}

Init ==
  /\ ram_free = MEMPHY_format(NFrames)
  /\ swp_free = MEMPHY_format(NSlots)
  /\ ram = [f \in Frame |-> NULL]
  /\ swp = [s \in Slot |-> NULL]
  /\ pt = [p \in Proc |-> [g \in Page |-> None]]
  /\ fifo = [p \in Proc |-> << >>]
  /\ sbrk = [p \in Proc |-> 0]
  /\ running_list = << >>
  /\ mmvm_lock = NULL
  /\ queue_lock = NULL
  /\ pc = [p \in Proc |-> "new"]
  /\ inst = [p \in Proc |-> NoInst]
  /\ hand = [p \in Proc |-> << >>]
  /\ swpfpn = [p \in Proc |-> 0]
  /\ vic = [p \in Proc |-> <<p, 0>>]
  /\ fpn = [p \in Proc |-> 0]
  /\ idx = [p \in Proc |-> 0]
  /\ single = [p \in Proc |-> FALSE]
  /\ head = [p \in Proc |-> FALSE]
  /\ corrupt = FALSE
  /\ mem = [p \in Proc |-> [g \in Page |-> NULL]]
----------------------------------------------------------------------------
(* A process comes and starts instructions.                                *)

add_proc(p) ==
  /\ At(p, "new")
  /\ queue_lock = NULL
  /\ HasRoom(running_list)
  /\ running_list' = enqueue(running_list, p)
  /\ goto(p, "idle")
  /\ UNCHANGED <<freeVars, dataVars, tableVars, lockVars, localVars, corrupt>>

\* inc_vma_limit() moves the limits before it maps the new pages.
inc_vma_limit(p) ==
  /\ At(p, "idle")
  /\ Cardinality(Busy) < NCPU
  /\ \E n \in 1 .. MaxInc :
       /\ sbrk[p] + n <= MaxPages
       /\ inst' = [inst EXCEPT ![p] = [op |-> "inc", io |-> FALSE, pgn |-> 0, n |-> n, val |-> NULL]]
       /\ sbrk' = [sbrk EXCEPT ![p] = @ + n]
  /\ goto(p, "frame")
  /\ UNCHANGED <<freeVars, dataVars, pt, fifo, running_list, lockVars, hand, fpn, head, swapVars,
                 corrupt>>

\* An access to a page that lies in the heap.
StartAccess(p, io) ==
  /\ At(p, "idle")
  /\ Cardinality(Busy) < NCPU
  /\ \E g \in Page, v \in Value \cup {NULL} :
       /\ g < sbrk[p]
       /\ inst' = [inst EXCEPT ![p] = [op |-> IF v = NULL THEN "read" ELSE "write",
                                       io |-> io, pgn |-> g, n |-> 0, val |-> v]]
  /\ goto(p, IF io THEN "pte" ELSE "lock")
  /\ UNCHANGED <<freeVars, dataVars, tableVars, running_list, lockVars, hand, fpn, head, swapVars,
                 corrupt>>

\* __read() and __write()
access(p) == StartAccess(p, FALSE)

\* The operations INC_OP, IO_READ and IO_WRITE of the system call: the process is
\* looked up by its pid, and no lock is taken.  MAP_OP and SWP_OP, which write
\* over entries and slots that the program names, are left out.
__sys_memmap(p) ==
  /\ p \in Elements(running_list)
  /\ inc_vma_limit(p) \/ StartAccess(p, TRUE)

access_lock(p) ==
  /\ At(p, "lock")
  /\ mmvm_lock = NULL
  /\ mmvm_lock' = p
  /\ goto(p, "pte")
  /\ UNCHANGED <<freeVars, dataVars, tableVars, running_list, queue_lock, localVars, corrupt>>

\* The instruction returns, having released mmvm_lock if it held it.
Return(p) ==
  /\ mmvm_lock' = IF mmvm_lock = p THEN NULL ELSE mmvm_lock
  /\ inst' = [inst EXCEPT ![p] = NoInst]
  /\ goto(p, "idle")

Continue(p, l) == goto(p, l) /\ UNCHANGED <<mmvm_lock, inst>>
----------------------------------------------------------------------------
(* alloc_pages_range(), vmap_page_range() and the end of inc_vma_limit().  *)

\* Frame f joins the list; with the last one, mapping begins.
Obtain(p, f) ==
  /\ hand' = [hand EXCEPT ![p] = Append(@, f)]
  /\ goto(p, IF Len(hand[p]) + 1 = inst[p].n THEN "map" ELSE "frame")

alloc_frame(p) ==
  /\ At(p, "frame")
  /\ \/ \E f \in Frame :
          /\ IsFree(ram_free, f)
          /\ ram_free' = MEMPHY_get_freefp(ram_free, f)
          /\ Obtain(p, f)
     \/ /\ \A f \in Frame : ~IsFree(ram_free, f)
        /\ goto(p, "slot")
        /\ UNCHANGED <<ram_free, hand>>
  /\ UNCHANGED <<swp_free, dataVars, tableVars, running_list, lockVars, inst, fpn, head, swapVars,
                 corrupt>>

\* The frames obtained so far are forgotten.
release_frame_list_drop(p) ==
  /\ At(p, "release")
  /\ hand' = [hand EXCEPT ![p] = << >>]
  /\ Return(p)
  /\ UNCHANGED <<freeVars, dataVars, tableVars, running_list, queue_lock, fpn, head, swapVars, corrupt>>

\* Out of memory.  vm_map_ram() returns -1 as an unsigned number, so the caller's
\* test for a negative result fails: inc_vma_limit() leaves the limits where it
\* moved them and reports success.
release_frame_list(p) ==
  /\ At(p, "release")
  /\ \/ /\ hand[p] # << >>
        /\ ram_free' = MEMPHY_put_freefp(ram_free, Head(hand[p]))
        /\ hand' = [hand EXCEPT ![p] = Tail(@)]
        /\ UNCHANGED <<pc, mmvm_lock, inst>>
     \/ /\ hand[p] = << >>
        /\ Return(p)
        /\ UNCHANGED <<ram_free, hand>>
  /\ UNCHANGED <<swp_free, dataVars, tableVars, running_list, queue_lock, fpn, head, swapVars, corrupt>>

\* The next frame of the list goes to the next page of the new range.
NextPage(p) == sbrk[p] - Len(hand[p])

pte_set_fpn(p) ==
  /\ At(p, "map")
  /\ pt' = [pt EXCEPT ![p][NextPage(p)] = Present(Head(hand[p]))]
  /\ hand' = [hand EXCEPT ![p] = Tail(@)]
  /\ goto(p, "enlist_read")
  /\ UNCHANGED <<freeVars, dataVars, fifo, sbrk, running_list, lockVars, inst, fpn, head, swapVars,
                 corrupt>>
----------------------------------------------------------------------------
(* enlist_pgn_node(), called by vmap_page_range() and pg_getpage(): neither *)
(* holds queue_lock, which protects the same list in the search for a      *)
(* victim.                                                                 *)

EnlistedPage(p) == IF inst[p].op = "inc" THEN NextPage(p) - 1 ELSE inst[p].pgn

\* pnode->pg_next = *plist;
enlist_read(p) ==
  /\ At(p, "enlist_read")
  /\ head' = [head EXCEPT ![p] = fifo[p] # << >>]
  /\ goto(p, "enlist_write")
  /\ UNCHANGED <<freeVars, dataVars, tableVars, running_list, lockVars, inst, hand, fpn, swapVars,
                 corrupt>>

\* *plist = pnode; the node it points to may be gone by now.
enlist_write(p) ==
  /\ At(p, "enlist_write")
  /\ fifo' = [fifo EXCEPT ![p] = <<EnlistedPage(p)>> \o @]
  /\ corrupt' = (head[p] /\ fifo[p] = << >>)
  /\ head' = [head EXCEPT ![p] = FALSE]
  /\ IF inst[p].op # "inc" THEN Continue(p, "fpn")
     ELSE IF hand[p] # << >> THEN Continue(p, "map")
     ELSE Return(p)
  /\ UNCHANGED <<freeVars, dataVars, pt, sbrk, running_list, queue_lock, hand, fpn, swapVars>>
----------------------------------------------------------------------------
(* swap_out_victim_page(): a free slot first, then a victim.               *)

\* alloc_pages_range() tries again for as long as it takes.
SwapOutFails_retry(p) == IF inst[p].op = "inc" THEN Continue(p, "frame") ELSE Return(p)

\* What the caller does when it gets no frame: alloc_pages_range() gives back
\* the frames it has, pg_getpage() fails.
SwapOutFails(p) == IF inst[p].op = "inc" THEN Continue(p, "release") ELSE Return(p)

\* The slot is taken without a look at the list.
swap_get_slot_eager(p) ==
  /\ At(p, "slot")
  /\ \E s \in Slot :
       /\ swp_free' = MEMPHY_get_freefp(swp_free, s)
       /\ swpfpn' = [swpfpn EXCEPT ![p] = s]
  /\ Continue(p, "victim_lock")
  /\ UNCHANGED <<ram_free, dataVars, tableVars, running_list, queue_lock, hand, fpn, head, vic, idx,
                 single, corrupt>>

swap_get_slot(p) ==
  /\ At(p, "slot")
  /\ \/ \E s \in Slot :
          /\ IsFree(swp_free, s)
          /\ swp_free' = MEMPHY_get_freefp(swp_free, s)
          /\ swpfpn' = [swpfpn EXCEPT ![p] = s]
          /\ Continue(p, "victim_lock")
     \/ /\ \A s \in Slot : ~IsFree(swp_free, s)
        /\ SwapOutFails(p)
        /\ UNCHANGED <<swp_free, swpfpn>>
  /\ UNCHANGED <<ram_free, dataVars, tableVars, running_list, queue_lock, hand, fpn, head, vic, idx,
                 single, corrupt>>

victim_lock(p) ==
  /\ At(p, "victim_lock")
  /\ queue_lock = NULL
  /\ queue_lock' = p
  /\ goto(p, "victim_read")
  /\ UNCHANGED <<freeVars, dataVars, tableVars, running_list, mmvm_lock, localVars, corrupt>>

\* find_global_victim() searches the caller first, then the others in the order
\* of running_list.
Searched(p) == IF idx[p] = 0 THEN p ELSE running_list[idx[p]]

\* find_victim_page() reads the list of the process now searched.
victim_read(p) ==
  /\ At(p, "victim_read")
  /\ \/ /\ idx[p] > Len(running_list)
        /\ queue_lock' = NULL
        /\ idx' = [idx EXCEPT ![p] = 0]
        /\ goto(p, "put_slot")
        /\ UNCHANGED single
     \/ /\ idx[p] <= Len(running_list)
        /\ fifo[Searched(p)] = << >> \/ (Searched(p) = p /\ idx[p] # 0)
        /\ idx' = [idx EXCEPT ![p] = @ + 1]
        /\ UNCHANGED <<queue_lock, single, pc>>
     \/ /\ idx[p] <= Len(running_list)
        /\ fifo[Searched(p)] # << >> /\ (Searched(p) = p => idx[p] = 0)
        /\ single' = [single EXCEPT ![p] = Len(fifo[Searched(p)]) = 1]
        /\ goto(p, "victim_detach")
        /\ UNCHANGED <<queue_lock, idx>>
  /\ UNCHANGED <<freeVars, dataVars, tableVars, running_list, mmvm_lock, inst, hand, fpn, head,
                 swpfpn, vic, corrupt>>

\* It detaches the last node: by an assignment to the list itself if it has
\* seen only one node, and then a node put in front meanwhile goes as well.
\* find_present_victim_in_proc() wants the page to be resident.
victim_detach(p) ==
  LET v == Searched(p)
      g == fifo[v][Len(fifo[v])]
  IN  /\ At(p, "victim_detach")
      /\ fifo' = [fifo EXCEPT ![v] = IF single[p] THEN << >> ELSE SubSeq(@, 1, Len(@) - 1)]
      /\ single' = [single EXCEPT ![p] = FALSE]
      /\ \/ /\ pt[v][g].st = "present"
            /\ vic' = [vic EXCEPT ![p] = <<v, g>>]
            /\ fpn' = [fpn EXCEPT ![p] = PTE_FPN(pt[v][g])]
            /\ idx' = [idx EXCEPT ![p] = 0]
            /\ goto(p, "swap_copy")
         \/ /\ pt[v][g].st # "present"
            /\ goto(p, "victim_read")
            /\ UNCHANGED <<vic, fpn, idx>>
      /\ UNCHANGED <<freeVars, dataVars, pt, sbrk, running_list, lockVars, inst, hand, head, swpfpn,
                     corrupt>>

\* No victim, and the slot is kept.
swap_put_slot_leak(p) ==
  /\ At(p, "put_slot")
  /\ swpfpn' = [swpfpn EXCEPT ![p] = 0]
  /\ SwapOutFails(p)
  /\ UNCHANGED <<freeVars, dataVars, tableVars, running_list, queue_lock, hand, fpn, head, vic, idx,
                 single, corrupt>>

\* No victim: the slot goes back.
swap_put_slot(p) ==
  /\ At(p, "put_slot")
  /\ swp_free' = MEMPHY_put_freefp(swp_free, swpfpn[p])
  /\ swpfpn' = [swpfpn EXCEPT ![p] = 0]
  /\ SwapOutFails(p)
  /\ UNCHANGED <<ram_free, dataVars, tableVars, running_list, queue_lock, hand, fpn, head, vic, idx,
                 single, corrupt>>

\* The page is not copied.
swap_copy_none(p) ==
  /\ At(p, "swap_copy")
  /\ goto(p, "pte_clear")
  /\ UNCHANGED <<freeVars, dataVars, tableVars, running_list, lockVars, localVars, corrupt>>

\* __swap_cp_page(mram, vicfpn, active_mswp, swpfpn)
swap_copy(p) ==
  /\ At(p, "swap_copy")
  /\ swp' = __swap_cp_page(ram, fpn[p], swp, swpfpn[p])
  /\ goto(p, "pte_clear")
  /\ UNCHANGED <<freeVars, ram, mem, tableVars, running_list, lockVars, localVars, corrupt>>

\* pte_set_swap() clears the entry before it stores the new one.
pte_set_swap_clear(p) ==
  /\ At(p, "pte_clear")
  /\ pt' = [pt EXCEPT ![vic[p][1]][vic[p][2]] = None]
  /\ goto(p, "pte_swap")
  /\ UNCHANGED <<freeVars, dataVars, fifo, sbrk, running_list, lockVars, localVars, corrupt>>

\* The frame is the caller's once the entry is stored and queue_lock released.
pte_set_swap(p) ==
  /\ At(p, "pte_swap")
  /\ pt' = [pt EXCEPT ![vic[p][1]][vic[p][2]] = Swapped(swpfpn[p])]
  /\ queue_lock' = NULL
  /\ vic' = [vic EXCEPT ![p] = <<p, 0>>]
  /\ swpfpn' = [swpfpn EXCEPT ![p] = 0]
  /\ \/ /\ inst[p].op = "inc"
        /\ Obtain(p, fpn[p])
        /\ fpn' = [fpn EXCEPT ![p] = 0]
     \/ /\ inst[p].op # "inc"
        /\ goto(p, "in_copy")
        /\ UNCHANGED <<hand, fpn>>
  /\ UNCHANGED <<freeVars, dataVars, fifo, sbrk, running_list, mmvm_lock, inst, head, idx, single,
                 corrupt>>
----------------------------------------------------------------------------
(* pg_getpage(), pg_getval() and pg_setval().                              *)

getpage_pte(p) ==
  LET pte == pt[p][inst[p].pgn]
  IN  /\ At(p, "pte")
      /\ \/ pte.st = "present" /\ Continue(p, "fpn")
         \/ pte.st = "swapped" /\ Continue(p, "slot")
         \/ pte.st = "none" /\ Return(p)
      /\ UNCHANGED <<freeVars, dataVars, tableVars, running_list, queue_lock, hand, fpn, head,
                     swapVars, corrupt>>

\* Nobody else touches the entry of a swapped page: its offset is as it was read.
req_swpoff(p) == pt[p][inst[p].pgn].n

\* __swap_cp_page(active_mswp, req_swpoff, mram, tgtfpn)
getpage_copy(p) ==
  /\ At(p, "in_copy")
  /\ ram' = __swap_cp_page(swp, req_swpoff(p), ram, fpn[p])
  /\ goto(p, "in_free")
  /\ UNCHANGED <<freeVars, swp, mem, tableVars, running_list, lockVars, localVars, corrupt>>

getpage_put_slot(p) ==
  /\ At(p, "in_free")
  /\ swp_free' = MEMPHY_put_freefp(swp_free, req_swpoff(p))
  /\ goto(p, "in_set")
  /\ UNCHANGED <<ram_free, dataVars, tableVars, running_list, lockVars, localVars, corrupt>>

\* The page brought in is not put in the FIFO list.
getpage_set_unlisted(p) ==
  /\ At(p, "in_set")
  /\ pt' = [pt EXCEPT ![p][inst[p].pgn] = Present(fpn[p])]
  /\ fpn' = [fpn EXCEPT ![p] = 0]
  /\ goto(p, "fpn")
  /\ UNCHANGED <<freeVars, dataVars, fifo, sbrk, running_list, lockVars, inst, hand, head, swapVars,
                 corrupt>>

getpage_set(p) ==
  /\ At(p, "in_set")
  /\ pt' = [pt EXCEPT ![p][inst[p].pgn] = Present(fpn[p])]
  /\ fpn' = [fpn EXCEPT ![p] = 0]
  /\ goto(p, "enlist_read")
  /\ UNCHANGED <<freeVars, dataVars, fifo, sbrk, running_list, lockVars, inst, hand, head, swapVars,
                 corrupt>>

\* The frame number is taken from a second reading of the entry, whatever the
\* entry says by then.
getpage_fpn(p) ==
  /\ At(p, "fpn")
  /\ fpn' = [fpn EXCEPT ![p] = PTE_FPN(pt[p][inst[p].pgn])]
  /\ goto(p, "mem")
  /\ UNCHANGED <<freeVars, dataVars, tableVars, running_list, lockVars, inst, hand, head, swapVars,
                 corrupt>>

\* The access itself, or its failure.
pg_getval(p) ==
  /\ At(p, "mem")
  /\ inst[p].op = "read"
  /\ fpn' = [fpn EXCEPT ![p] = 0]
  /\ Return(p)
  /\ UNCHANGED <<freeVars, dataVars, tableVars, running_list, queue_lock, hand, head, swapVars,
                 corrupt>>

pg_setval(p) ==
  /\ At(p, "mem")
  /\ inst[p].op = "write"
  /\ \/ /\ InDevice(ram, fpn[p])
        /\ ram' = MEMPHY_write(ram, fpn[p], inst[p].val)
        /\ mem' = [mem EXCEPT ![p][inst[p].pgn] = inst[p].val]
     \/ /\ ~InDevice(ram, fpn[p])
        /\ UNCHANGED <<ram, mem>>
  /\ fpn' = [fpn EXCEPT ![p] = 0]
  /\ Return(p)
  /\ UNCHANGED <<freeVars, swp, tableVars, running_list, queue_lock, hand, head, swapVars, corrupt>>
----------------------------------------------------------------------------
(* The end of a process: finish_proc(), then free_pcb_memph().             *)

finish_proc(p) ==
  /\ At(p, "idle")
  /\ Cardinality(Busy) < NCPU
  /\ queue_lock = NULL
  /\ running_list' = purgequeue(running_list, p)
  /\ goto(p, "collect_lock")
  /\ UNCHANGED <<freeVars, dataVars, tableVars, lockVars, localVars, corrupt>>

collect_lock(p) ==
  /\ At(p, "collect_lock")
  /\ mmvm_lock = NULL
  /\ mmvm_lock' = p
  /\ goto(p, "collect")
  /\ UNCHANGED <<freeVars, dataVars, tableVars, running_list, queue_lock, localVars, corrupt>>

\* Swap slots are not returned.
collect_ram(p) ==
  /\ At(p, "collect")
  /\ \E g \in Page :
       /\ pt[p][g] # None
       /\ \A h \in 0 .. g - 1 : pt[p][h] = None
       /\ pt' = [pt EXCEPT ![p][g] = None]
       /\ mem' = [mem EXCEPT ![p][g] = NULL]
       /\ ram_free' = IF pt[p][g].st = "present"
                      THEN MEMPHY_put_freefp(ram_free, pt[p][g].n) ELSE ram_free
  /\ UNCHANGED <<swp_free, ram, swp, fifo, sbrk, running_list, lockVars, pc, localVars, corrupt>>

\* pcb_memph_collect_recursive(): one entry of the table at a time, in order.
\* The table itself is freed afterwards and nobody reads it again: an entry that
\* has been collected is None.
collect(p) ==
  /\ At(p, "collect")
  /\ \E g \in Page :
       /\ pt[p][g] # None
       /\ \A h \in 0 .. g - 1 : pt[p][h] = None
       /\ pt' = [pt EXCEPT ![p][g] = None]
       /\ mem' = [mem EXCEPT ![p][g] = NULL]
       /\ ram_free' = IF pt[p][g].st = "present"
                      THEN MEMPHY_put_freefp(ram_free, pt[p][g].n) ELSE ram_free
       /\ swp_free' = IF pt[p][g].st = "swapped"
                      THEN MEMPHY_put_freefp(swp_free, pt[p][g].n) ELSE swp_free
  /\ UNCHANGED <<ram, swp, fifo, sbrk, running_list, lockVars, pc, localVars, corrupt>>

collect_end(p) ==
  /\ At(p, "collect")
  /\ \A g \in Page : pt[p][g] = None
  /\ fifo' = [fifo EXCEPT ![p] = << >>]
  /\ sbrk' = [sbrk EXCEPT ![p] = 0]
  /\ mmvm_lock' = NULL
  /\ goto(p, "dead")
  /\ UNCHANGED <<freeVars, dataVars, pt, running_list, queue_lock, localVars, corrupt>>
----------------------------------------------------------------------------
\* The steps of an instruction under way.
Step(p) ==
  \/ access_lock(p) \/ alloc_frame(p) \/ release_frame_list(p)
  \/ pte_set_fpn(p) \/ enlist_read(p) \/ enlist_write(p)
  \/ swap_get_slot(p) \/ victim_lock(p) \/ victim_read(p) \/ victim_detach(p)
  \/ swap_put_slot(p) \/ swap_copy(p) \/ pte_set_swap_clear(p) \/ pte_set_swap(p)
  \/ getpage_pte(p) \/ getpage_copy(p) \/ getpage_put_slot(p) \/ getpage_set(p)
  \/ getpage_fpn(p) \/ pg_getval(p) \/ pg_setval(p)
  \/ collect_lock(p) \/ collect(p) \/ collect_end(p)

Start(p) == add_proc(p) \/ access(p) \/ __sys_memmap(p) \/ finish_proc(p)

\* Every process is dead, or a freed list node has been used and nothing is
\* known of the program any more.
Stopped ==
  /\ corrupt \/ \A p \in Proc : pc[p] = "dead"
  /\ UNCHANGED vars

Next == (\E p \in Proc : Start(p) \/ Step(p)) \/ Stopped

Spec == Init /\ [][Next]_vars

\* An instruction once started goes on.  A CPU executes one instruction in a time
\* slot and waits for the others at its end, so a thread loses a race for a
\* mutex a bounded number of times.
FairSpec == Spec /\ \A p \in Proc : SF_vars(Step(p))
----------------------------------------------------------------------------
(* Properties.                                                             *)

Pcs == {"new", "idle", "lock", "frame", "release", "map", "enlist_read", "enlist_write", "slot",
        "victim_lock", "victim_read", "victim_detach", "put_slot", "swap_copy", "pte_clear",
        "pte_swap", "pte", "in_copy", "in_free", "in_set", "fpn", "mem", "collect_lock",
        "collect", "dead"}

Pte == {None} \cup {Present(f) : f \in Frame} \cup {Swapped(s) : s \in Slot}

Inst == [op : {"none", "inc", "read", "write"}, io : BOOLEAN, pgn : Nat, n : Nat,
         val : Value \cup {NULL}]

\* Type invariant.
PagingTypeOK ==
  /\ ram_free \in [Frame -> Nat]
  /\ swp_free \in [Slot -> Nat]
  /\ ram \in [Frame -> Value \cup {NULL}]
  /\ swp \in [Slot -> Value \cup {NULL}]
  /\ pt \in [Proc -> [Page -> Pte]]
  /\ fifo \in [Proc -> Seq(Page)]
  /\ sbrk \in [Proc -> 0 .. MaxPages]
  /\ running_list \in Seq(Proc)
  /\ mmvm_lock \in Proc \cup {NULL}
  /\ queue_lock \in Proc \cup {NULL}
  /\ pc \in [Proc -> Pcs]
  /\ inst \in [Proc -> Inst]
  /\ hand \in [Proc -> Seq(Frame)]
  /\ swpfpn \in [Proc -> Nat]
  /\ vic \in [Proc -> Proc \X Nat]
  /\ fpn \in [Proc -> Nat]
  /\ idx \in [Proc -> Nat]
  /\ single \in [Proc -> BOOLEAN]
  /\ head \in [Proc -> BOOLEAN]
  /\ corrupt \in BOOLEAN
  /\ mem \in [Proc -> [Page -> Value \cup {NULL}]]

\* Page g of process p is in frame f.
Maps(p, g, f) == pt[p][g] = Present(f)

\* The thread of process p has frame f in its hands: in the list of frames
\* obtained, or taken from a victim and not yet mapped.
Holds(p, f) ==
  \/ f \in Elements(hand[p])
  \/ pc[p] \in {"pte_swap", "in_copy", "in_free", "in_set"} /\ fpn[p] = f

\* A frame of RAM is in one place: once in the list of free frames, or mapped by
\* one page of one process, or in the hands of one thread.  It is not lost, and
\* two pages never share it, whatever the CPUs are doing to each other's pages.
FrameHasOneOwner ==
  \A f \in Frame :
    /\ ram_free[f] \in {0, 1}
    /\ ram_free[f] = 1 => \A p \in Proc : ~Holds(p, f) /\ \A g \in Page : ~Maps(p, g, f)
    /\ ram_free[f] = 0 => \E p \in Proc : Holds(p, f) \/ \E g \in Page : Maps(p, g, f)
    /\ \A p, q \in Proc : Holds(p, f) /\ Holds(q, f) => p = q
    /\ \A p, q \in Proc, g \in Page : ~(Holds(p, f) /\ Maps(q, g, f))
    /\ \A p, q \in Proc, g, h \in Page : Maps(p, g, f) /\ Maps(q, h, f) => p = q /\ g = h

\* Page g of process p is in swap slot s.  The entry is out of date from the
\* moment pg_getpage() returns the slot to the moment it stores the new entry.
SwappedTo(p, g, s) == pt[p][g] = Swapped(s) /\ ~(pc[p] = "in_set" /\ inst[p].pgn = g)

HoldsSlot(p, s) ==
  /\ pc[p] \in {"victim_lock", "victim_read", "victim_detach", "put_slot", "swap_copy", "pte_clear",
                "pte_swap"}
  /\ swpfpn[p] = s

\* The same for the slots of the swap device.
SlotHasOneOwner ==
  \A s \in Slot :
    /\ swp_free[s] \in {0, 1}
    /\ swp_free[s] = 1 => \A p \in Proc : ~HoldsSlot(p, s) /\ \A g \in Page : ~SwappedTo(p, g, s)
    /\ swp_free[s] = 0 => \E p \in Proc : HoldsSlot(p, s) \/ \E g \in Page : SwappedTo(p, g, s)
    /\ \A p, q \in Proc : HoldsSlot(p, s) /\ HoldsSlot(q, s) => p = q
    /\ \A p, q \in Proc, g \in Page : ~(HoldsSlot(p, s) /\ SwappedTo(q, g, s))
    /\ \A p, q \in Proc, g, h \in Page : SwappedTo(p, g, s) /\ SwappedTo(q, h, s) => p = q /\ g = h

\* What a process stored in a page is still there, in RAM or in swap, however
\* often the page has moved.
DataIntact ==
  \A p \in Proc, g \in Page :
    LET pte == pt[p][g]
    IN  mem[p][g] # NULL /\ ~(pc[p] = "in_set" /\ inst[p].pgn = g) =>
          /\ pte.st = "present" => ram[pte.n] = mem[p][g]
          /\ pte.st = "swapped" => swp[pte.n] = mem[p][g]

\* A read under mmvm_lock that succeeds returns what the process last stored in
\* that page.
ReadYourWrites ==
  [][\A p \in Proc :
       pc[p] = "mem" /\ inst[p].op = "read" /\ ~inst[p].io /\ pc'[p] = "idle" /\ fpn[p] \in Frame
         => mem[p][inst[p].pgn] \in {NULL, ram[fpn[p]]}]_vars

\* When no instruction is under way, every resident page of a process is in its
\* FIFO list, once, so that it can be chosen as a victim, and nothing else is.
FifoIsResident ==
  Busy = {} => \A p \in Proc :
    /\ NoDuplicates(fifo[p])
    /\ Elements(fifo[p]) = {g \in Page : pt[p][g].st = "present"}

\* Once the processes have ended, all the memory they had is free again.
AllMemoryReturned ==
  (\A p \in Proc : pc[p] = "dead") =>
    /\ \A f \in Frame : ram_free[f] = 1
    /\ \A s \in Slot : swp_free[s] = 1

\* An instruction ends: the two mutexes are not waited for in a circle and are
\* released on every path.  So does the search for more frames than RAM has, for
\* which the comment in vm_map_ram() expects an "endless procedure of swap-off to get
\* frame": a frame once obtained is in no FIFO list, and when the lists are empty
\* swap_out_victim_page() and alloc_pages_range() fail.
InstructionsEnd ==
  \A p \in Proc : p \in Busy ~> (p \notin Busy \/ corrupt)

\* An access to a page that is in swap does not fail while RAM has a free frame.
SwapInUsesFreeRam ==
  [][\A p \in Proc :
       pc[p] \in {"slot", "put_slot"} /\ pc'[p] = "idle" => \A f \in Frame : ram_free[f] = 0]_vars

\* When no instruction is under way, every page of a heap has a frame or a slot:
\* a heap that could not grow has its old limit.
HeapIsBacked ==
  Busy = {} =>
    \A p \in Proc, g \in Page : g < sbrk[p] => pt[p][g].st \in {"present", "swapped"}

\* The list of resident pages is never read through a node that has been freed.
NodesAreAlive == ~corrupt
============================================================================
