# Verification of the OSSIM simulator

OSSIM simulates a small operating system with threads: CPU threads run processes
that a loader thread reads from files, under a multi-level queue scheduler, in lock
step with a timer thread, on a paged memory with swap. This directory holds TLA+
models of its parts, the TLC configurations that check them on small instances, and
proofs, checked by TLAPS, of the safety properties of the timer, the scheduler, the
threads, page tables, paging, heaps and kernel memory for instances of any size.
`PROJECT.json` lists the runs, relates every definition to the lines it models, and
lists hazards, findings and theorems.

The build modelled is the one of the Makefile and `include/os-cfg.h`: `MLQ_SCHED`,
`MM_PAGING`, `MM64`, `IODUMP`. File names below are relative to `src/` of the
repository.

## 1. The system

| Part | State | Operations | Interacts with |
|---|---|---|---|
| Time slots, `timer.c` | `_time`, and for each device `done`, `fsh`, two mutexes and two condition variables | `attach_event`, `next_slot`, `detach_event`, `start_timer`, `stop_timer`, the timer thread | every CPU and the loader are devices |
| Process queue, `queue.c` | an array of process pointers and a size | `empty`, `enqueue`, `dequeue`, `purgequeue` | scheduler |
| Scheduler, `sched.c` | a ready queue and a budget for each priority, `running_list`, all under `queue_lock` | `get_proc`, `put_proc`, `add_proc`, `finish_proc`, `find_proc` | CPUs, loader, system calls, the search for a victim |
| CPU and loader threads, `os.c`; `run()`, `cpu.c` | for each CPU its process and `time_left`; the loader's position; `done` | `cpu_routine`, `ld_routine` | timer, scheduler, memory |
| Physical memory, `mm-memphy.c` | storage and a free list for each device, a mutex each | get and put a frame, read, write | paging, kernel memory |
| Page tables, `mm64.c` | a tree of tables for each process and one for the kernel, shared | walk, set and get an entry, map a range, free the tables | paging, kernel memory |
| Paging, `mm64.c`, `mm-vm.c`, `libmem.c` | entries, FIFO lists of resident pages, `sbrk` | grow a heap, access a page, evict, swap in, release at exit | scheduler (victims come from `running_list`) |
| User regions, `libmem.c` | symbol table and list of free regions of each process | `__alloc`, `__free` | paging |
| Kernel memory, `libmem.c` | RAM's list of used frames, kernel mappings, cache pools with slabs | kmalloc, create a pool, allocate from it, release at exit | physical memory, page tables |
| Copies, `libmem.c` | the bytes of heaps and of kernel memory | `libkmem_copy_from_user`, `libkmem_copy_to_user`, `__write` | user regions, kernel memory |
| System calls, `syscall.c`, `sys_mem.c` | none | `__sys_memmap` | paging |

Hard behaviours: the two mutexes of a device in `timer.c` guard the same flag; the
scheduler's calls are atomic but a CPU makes two of them to change processes; a heap
grows outside `mmvm_lock` while other CPUs access pages under it; an eviction takes a
page from any process; frames, slots and table memory run out; and everything a
process has must come back when it ends. The `hazards` of `PROJECT.json` list them
at their lines.

## 2. Modules

| Module | Models | State and actions |
|---|---|---|
| `SlotBarrier` | what `timer.c` promises | `time`, and the `phase` of each device; `Arrive`, `Finish`, `Advance`, `Stop` |
| `Timer` | `timer.c` | the fields of the C structures; the sets of threads asleep on each condition variable (`event_wait`, `timer_wait`); one action for each critical section. Shown to implement `SlotBarrier` |
| `Lists` | – | elements of a sequence, absence of duplicates |
| `ProcQueue` | `queue.c` | operators on sequences |
| `Sched` | `sched.c` | `mlq_ready_queue`, `slot`, `running_list`; `proc[c]` is the process CPU `c` has; one action for each call, as `queue_lock` makes it atomic; `aborted` after `exit()` |
| `SchedBypass` | – | `Sched` with a counter of the dispatches that passed a waiting level over |
| `OsSim` | `cpu_routine`, `ld_routine`, `run` | composes `Sched` (by EXTENDS, its actions are conjuncts of the threads' steps) and `SlotBarrier` (by INSTANCE, in place of `Timer`) |
| `MemPhy` | free list of `mm-memphy.c` | a list as the number of its nodes for each frame, so that a frame freed twice shows |
| `Paging` | growing, accessing, evicting, swapping, releasing | one program counter for each process; a step ends wherever another CPU can see the difference, at locks, devices, entries and list nodes |
| `RegionList` | the list of free regions: search, insertion, merging | operators on sequences of intervals of bytes |
| `VmRegions` | `__alloc`, `__free` | for each process its heap's limit, free regions and symbol table; the bytes the code forgets (`lost`) |
| `KernelMem` | kmalloc, cache pools and their release | adds to `VmRegions` the two frame lists, the kernel's mappings and the pools; symbols of both kinds share the symbol table |
| `CopyMem` | WRITE and the copies between user and kernel memory | adds to `KernelMem` the bytes stored in both |
| `PageMap` | what the page tables promise | one entry for each page of each process, and of the kernel |
| `PageTable` | the trees of `mm64.c`, and the kernel's walks of `libmem.c` | table contents, tables in memory, roots; user ranges, kernel ranges mapped and erased, exits. Shown to implement `PageMap` |

`MC*` modules name the instances; each `.cfg` is a run. The theorems are in
`TimerProofs`, `OsProofs` (scheduler and threads), `PageTableProofs`, `PagingProofs`,
`RegionProofs`, `KernelProofs`, `OwnerProofs` and `StoreProofs` (section 4).

How the models fit together. `Timer` implements `SlotBarrier`, which `OsSim` uses, so
`OsSim` need not model condition variables. `OsSim` implements `SchedSpec`
(`UsesSchedCorrectly`), so the theorems about `Sched` apply to the simulator.
`Paging` relies on two facts of the scheduler: a process is on one CPU at a time
(`OneHome`), so a process can stand for the thread that executes it, and it is in
`running_list` while it runs (`Tracked`), so a system call finds its caller and the
victims are live. `Paging` uses one entry for each page, which `PageTable` shows to be
right. `VmRegions`, `KernelMem` and `CopyMem`, each an extension of the one before, take
an instruction as one step: only the CPU of a process touches its regions, and every
kernel operation and copy holds `mmvm_lock`. How many processes, symbols, frames and
bytes there are is a record, `bounds`, that the initial state takes from the constant
`Bounds`: one run checks several instances, and a theorem holds for all.

Data abstractions: a page and a frame hold one value, so copying a page is one
assignment; a program is a number of instructions in `OsSim`, and any sequence of
instructions in the memory modules. An entry is a state and a number in `Paging`; its
bits are not modelled. The kernel's frames and those of user pages are in different
modules; a byte of a user page is kept by its virtual address in `CopyMem`.

Names with a suffix that no `Next` uses (`timer_routine_tick_early`,
`PAGE_ALIGNSZ_down`, ...) are faulty variants of the definition that follows them.
Replacing the definition by its variant makes TLC report the property that
`PROJECT.json` (`mutants`) names with it.

## 3. Runs

### Runs that pass

| Run | Shows | Instance |
|---|---|---|
| `timer` | `Timer` implements `SlotBarrier`; devices and timer stay in lock step, no signal is missed, `_time` moves only while no device works, and the timer thread ends when its devices have | 3 devices, up to 2 slots each, spurious wakeups |
| `sched` | a process has one home; `running_list` is exact; requeueing has room; budgets and rounds; no ready process starves, and a waiting level is passed over no more often than the others' budgets allow | 6 processes: four on the top level, one below it, one with a bad priority; 2 CPUs, queues of 3 |
| `os` | no process lost, repeated, run past its end or abandoned; quantum and work conservation; every process finishes; `OsSim` implements `SchedSpec` | 3 processes of 0 to 2 instructions, start times 0 and 1, quanta 0, 1 and 2, 2 CPUs |
| `paging_one` | on one CPU pages keep their contents through swapping, FIFO lists are exact, a read returns what was last stored | 2 processes of 2 pages, 2 frames, 2 slots, 2 values |
| `paging_smp` | on two CPUs frames and slots have one owner and all return; every memory instruction ends, also when a heap asks for more frames than RAM has | 2 processes of 2 pages, 1 frame, 2 slots, no values; a heap may ask for 2 frames at once |
| `memory` | any sequence of instructions keeps regions disjoint and accounts for every byte; growing serves its request; frame lists and kernel mappings agree; the lowest contiguous run is found; a process keeps its frames and kernel objects start at different addresses, until a process ends that has taken a late slot (below); everything returns; a store changes only the bytes it names while no pool has given out a second slot | `OneHeap`: 1 process, 3 symbols, pages of 2 bytes, requests up to 3, heap of 6. `KernelOnly`: 2 processes, 2 symbols, 4 frames, requests and pools of up to 2 pages, slots of 1 and 2 bytes. `SmallStores`: 2 processes, heaps of 2 bytes, 2 frames, a pool of one slot, copies of up to 2 bytes. `SlotStores`: the same for 1 process, with pools of up to two pages and of one to four slots |
| `page_table` | trees implement `PageMap`, also when memory for tables runs out; a call for kernel pages maps all of them or none; exits free exactly their own tables; a range that passes its check stays on one side of the address space | 2 processes, 3 levels of 1 bit, 7 tables, user entries 0 and 1, a different entry for each kernel page |

Why the bounds are enough for the cases that matter: two CPUs and two processes are
the fewest for every race between an access, a growing heap and an eviction. In
`paging_one` two frames for four pages force swapping. In `paging_smp` one frame for four
pages makes every access of another page an eviction, and a heap that grows by two pages asks
for more than RAM has; that ownership also holds with more frames is proved for any
number (section 4). Two slots let memory run out; queues of 3
for 5 loadable processes meet the limit of the scheduler; three regions and requests
that are no multiple of a page reach splitting and merging on both sides; a tree of
three levels has a root, an inner level and a last one. A quantum of 0 makes
`time_left` negative.

Deadlock is checked except where the system may stop: the scheduler and the threads
once the simulation has aborted or ended, and the memory and page-table models when
every process has ended or memory is full.

### Runs that show a disagreement

Each checks one property that a comment or document of the repository states, and TLC
finds a behaviour of the code against it. `findings` quotes the lines.

| Run | What happens |
|---|---|
| `os_end` | a CPU that finds no process at the top of its loop never tests `is_done()`; the simulation does not end |
| `paging_race` | a heap that grows evicts the page another CPU is accessing |
| `regions_oom` | after a heap could not grow an uninitialised region enters the free list: an unsigned result is tested with `< 0` |
| `kernel_slots` | the regions of two objects of one cache pool overlap |
| `kernel_free` | FREE of a symbol that kmalloc has set forgets its frames: they stay used and mapped for good |

The passing runs of the same modules say what holds nevertheless. `paging_one` has
one CPU because data is not intact with two. `Paging` stops where a freed list node
has been used (`corrupt`), as nothing can be said of what follows. `Spec` of
`VmRegions` leaves out running out of memory, which `OutOfMemorySpec` has. In
`KernelSpec` and `CopySpec` programs do not FREE or ALLOC over a kernel symbol, which
`AnyProgramSpec` lets them do.

The comment in `vm_map_ram()` at `mm64.c:713` says that asking for more frames than RAM
has ends "in endless procedure of swap-off to get frame". The code does not:
`InstructionsEnd` holds in `paging_smp`, where this happens. The frames of a request enter
the FIFO lists after the last of them has been found, so the search evicts what was there
before, finds no further victim and fails.

Four further properties are stated and false of the code. No run has them; TLC shows a
behaviour against each when it takes the place of the properties in the configuration
named here.

| Property | Configuration | What happens |
|---|---|---|
| `ResetWhenAllExhausted` | `MCSched.cfg` | budgets are handed out again while levels without a ready process still have theirs (comment at `sched.c:115`) |
| `NodesAreAlive` | `MCPaging_race.cfg` | a FIFO list is changed under two different locks, and a freed node is used |
| `SwapInUsesFreeRam` | `MCPaging_race.cfg` | a page in swap cannot come back, although RAM has a free frame |
| `HeapIsBacked` | `MCPaging_race.cfg` with `NSlots = 1` | a heap that could not grow keeps its new limit |

The finding `kernel_slots` has a second effect, which bounds what `GivenFramesStay`,
`ObjectsAreDistinct` and `StoresAreExact` can say. The region of a cache object is as long as
the pool. For an object in a slot behind the first page of its pool, a *late slot*, it goes
on for a page or more behind the pool, and the end of the process frees these pages too,
whoever has them. The history variable `strayed` of `KernelMem` says that a process has
ended that had taken a late slot (`LateSlot`), and the three properties speak of the time
before. They say that this is the only way for a frame to be taken away: pools of several
pages and slots, and their release, are otherwise harmless. Without the condition TLC shows
a behaviour against each of the first two in the run `memory`. `input/proc/kmem` and
`input/proc/m2s` take one slot from their pools, hence no late one.

### Fairness

- `Timer`: weak fairness of main, the timer thread and each device; threads are
  scheduled. None for spurious wakeups, so progress rests on signals.
- `Sched`: an idle CPU calls `get_proc` again and a CPU with a process gives it up;
  `cpu_routine` does one of them in every slot or when its quantum is over.
- `OsSim`: weak fairness of every thread and of the clock. The clock's is what
  the run `timer` establishes.
- `Paging`: strong fairness of each thread's steps inside an instruction: a thread
  waiting for a mutex that is released again and again gets it at last. A CPU executes
  one instruction in a time slot and then waits for the others, so a thread loses the
  race for a mutex a bounded number of times. None for starting instructions.

## 4. Proofs

All theorems hold for every value of the constants that satisfies the named `ASSUME`s:
sets of processes (but for page tables), CPUs, devices and symbols may be infinite, and
frames, slots, pages, page size, heaps, queues, levels, start times and quanta have any
size. Each component
has an inductive invariant, checked by TLC before it was proved; a lemma shows for each
action that it keeps the invariant, and the properties follow from it.

| Module | Theorem | Property |
|---|---|---|
| `OsProofs`, scheduler | `TypeCorrect` | `SchedTypeOK` |
| | `NoProcessLostOrShared` | `OneHome` |
| | `FindsTheLiving` | `Tracked` |
| | `RequeueNeverFails` | `RequeueHasRoom` |
| | `BudgetsStayInRound` | `BudgetsInRound` |
| | `AbortsOnlyOnLoad` | `AbortOnlyOnLoad` |
| | `NewRoundsAreFair` | `RoundsAreFair` |
| | `WaitsAreBounded` | `BoundedBypass` |
| `TimerProofs` | `TimerTypesHold` | `TypeOK` |
| | `DevicesAreInLockStep` | `LockStep` |
| | `NoSignalIsMissed` | `NoMissedSignal` |
| | `TimerImplementsBarrier` | the safety part of `ImplementsBarrier` |
| `OsProofs`, threads | `OsTypesHold` | `OsTypeOK` |
| | `OsImplementsSched` | `UsesSchedCorrectly` |
| | `EveryInstructionOnce` | `RunsToItsEnd` |
| | `NobodyIsAbandoned` | `NoProcessAbandoned` |
| | `NoCpuIdles` | `WorkConserving` |
| | `OneInstructionEach` | `OneInstructionPerSlot` |
| | `QuantumIsFresh` | `FreshQuantum` |
| `PageTableProofs` | `TablesAreTrees` | `TablesFormTrees` |
| | `TreesAreAMap` | `ImplementsPageMap` |
| `PagingProofs` | `PagingTypesHold` | `PagingTypeOK` |
| | `FramesHaveOneOwner` | `FrameHasOneOwner` |
| | `SlotsHaveOneOwner` | `SlotHasOneOwner` |
| | `MemoryComesBack` | `AllMemoryReturned` |
| | `OneCpuKeepsData` | `DataIntact`, with one CPU |
| | `OneCpuListsPages` | `FifoIsResident`, with one CPU |
| | `OneCpuReadsWrites` | `ReadYourWrites`, with one CPU |
| | `OneCpuNodesAlive` | `NodesAreAlive`, with one CPU |
| `RegionProofs` | `RegionsNeverOverlap` | `RegionsAreDisjoint` |
| | `NoByteIsLost` | `EveryByteOnce` |
| | `GrowthSuffices` | `GrowthServesTheRequest` |
| | `CopyImplementsKernel` | `CopySpec` implements `KernelSpec` |
| `KernelProofs` | `ScanFindsTheRun` | `ScanFindsLowestRun` |
| | `UsedFramesAreMapped` | `UsedIsMapped` |
| | `KernelMemoryComesBack` | `KernelMemReturned` |
| `OwnerProofs` | `GivenFramesAreKept` | `GivenFramesStay` |
| | `KernelObjectsDiffer` | `ObjectsAreDistinct` |
| `StoreProofs` | `StoresChangeOneObject` | `StoresAreExact` |

### Scheduler

    SchedInv == SchedTypeOK /\ OneHome /\ Tracked /\ BudgetsInRound

Assumed: `NULL` is no process, `MAX_PRIO` and the queue limit are positive numbers,
priorities are numbers. None of the parts is inductive without the types. `OneHome` and
`Tracked` need each other: that `add_proc` does not create a second copy rests on
`OneHome`, and that `finish_proc` removes the one entry of `running_list` on there
being one only. `RequeueHasRoom` follows by counting: the members of a ready queue and
the process on the CPU are different elements of `running_list`, which is no longer
than the limit. `RoundsAreFair` is proved of every step from the choice of the dispatch.
`AbortOnlyOnLoad` is proved and in no run: it says little of an instance that has a
process with a bad priority, as that of `sched` does.

`WaitsAreBounded` needs more than the bound. `BypassInv` relates the count of a waiting
level to what is left of the round: while the level has budget, only higher levels are
dispatched before it, and each of their dispatches is one less of those they have left;
while it has none, the same is so of all other levels, until the new round brings the
first case. Dispatches that are left are counted as a set (`Dispatches`), so that a
dispatch takes an element away and no sum over the levels is needed.

### Timer

`TimerInv` adds to the properties what the flags `done` and `fsh` of a device say of
its place and of the slots it has seen (`DeviceFits`), what `main` has done so far
(`MainFits`), and what the timer thread has heard from the devices it has passed
(`RoutineFits`). `done` is set by the device and reset by the timer thread, which comes
to the devices one after the other: between the tick and the reset the flag says nothing
of the slot, which is the case `DeviceFits` has to tell apart. The refinement maps every
step of a thread to a step of the barrier or to none.

### Threads

    OsInv == OsTypeOK /\ SchedInv /\ LoaderInv /\ CpuInv /\ RunsToItsEnd
             /\ RanInv /\ WaitedInv /\ SeenEmpty

Assumed (`OsAssumption`): the loader is no CPU, and the configuration lists each process
once, with a valid priority, as otherwise the program has stopped before. `SchedInv` is
kept because every call of a thread is a step of `Sched`, so the lemmas about `Sched`
apply. `SeenEmpty` is why nobody is abandoned: a CPU asks `get_proc()` and then
`is_done()`, and between the two another CPU may requeue its process. Once all is loaded
and some CPU has seen empty queues, each ready process has a CPU of its own about to call
`get_proc()`, an injection that each step maintains; a CPU that has stopped is none of
these. `NobodyIsAbandoned` assumes that there is a CPU.

### Page tables

    TreesInv == PageTableTypeOK /\ RootsApart /\ Trees(tables, alloc, Roots)

`Trees` says that each table in memory can be given a level and a root: roots have level
1, a slot that is not empty in a table above the last level holds a table in memory of
the next level and of the same root, no two slots hold the same table, and every table
but a root is in some slot. That the trees are disjoint and cover the tables in memory
does not keep itself: a walk must know that the table it comes to on a level is one of
that level, as the slots of the last level hold entries, not tables.

Walks, ranges and trees are recursive functions, of the level or the number of pages.
The prover has no induction rule to instantiate with a formula, but from the fact that
`<` is well founded on numbers a set with 0 and with every successor has all numbers
(`Induction`), and a function defined by such a recursion exists (`Recursion`). With
these it is shown level by level that a walk stays in the tree of its root; page by page
that a range leaves the trees whole and sets the entries of its pages and no others, up
to the first that fails; and level by level that `TreeTo` collects the tables of its
root. Two pages on one side of the address space with the same index on every level are
the same page (`PageHasIndices`), which is why a store changes one entry of the map: the
indices and the offset are the digits of an address below the sign bit, and the bits above
it are all equal. `RangeHasPages` is the reason for the check of the two ends: what
lies between two canonical addresses on one side is on that side.

Assumed (`PageTableAssumption`, `MaxRangeAssumption`): at least two levels, an index of at
least one bit, memory for the roots of all processes, entries that are numbers, and a range no
longer than the address space; the number of its pages is an `int`.

A call for kernel pages stores page by page as well, and erases the whole range again if
memory for a table runs out on the way. That nothing is left of it rests on the pages
having had no entry before, and on the erasing walk coming to the entries that were written
and to no others (`WrittenThenErased`). The frame in a kernel entry is computed from the page
(`kernel_pte`), so that entries of different pages differ.

### Paging

`PagingInv` has the types and the two ownership properties, and with them what each
thread holds at its place (`ThreadFits`), who has `queue_lock` (`QueueLocked`), which
lists a search may rely on (`ListsStay`) and which entries nobody else changes
(`TablesFit`, `VictimFits`). Ownership is a sum over the free list, the entries and the
hands of the threads, so a step that moves a frame is shown to take it from one of them
and give it to another. It holds up to the use of a freed node of a FIFO list, where the
model stops.

    OneInv == ~corrupt /\ (at most one thread is inside an instruction)
              /\ (Fits(p), for the thread p that is, or for every p if none is)

This is the invariant for `NCPU = 1`, which the four `OneCpu` theorems assume.
They are false with two CPUs: `paging_race` and, of `NodesAreAlive`, section 3. `Fits(p)`
says that the FIFO lists hold the resident pages but for the one `p` is about to put in
or has just taken off, that every page has its contents where its entry says but for
the one `p` is moving, that what `p` has read of lists and entries is still so, and
that the copy `p` has made is the page. That no copy writes over another page is not in
it: it follows from `FrameHasOneOwner` and `SlotHasOneOwner`, which hold with any number
of CPUs.

### Heaps

    HeapsInv == RegionsInv /\ PoolsInv

`RegionsInv`: the free regions of a process are sorted and apart, no two of the
regions of its symbols, its free regions and the lost bytes meet, and together they are
the bytes below `sbrk`. `PoolsInv`: the slots of a pool are aligned and in range. The
first half of the module is about `RegionList`: what taking a region by first fit and what
inserting and merging one do to a sorted list and to the set of its bytes. These lemmas
describe both as the splicing of one node between two parts of the list. The constants
are those of `RegionsAssumption`, `KernelAssumption` and `CopyAssumption`: numbers,
`KBASE` above every heap.

### Kernel memory

`ScanFindsTheRun` (its lemmas are in `RegionProofs`): the run lengths that the scan counts over the sorted free list are the
numbers of consecutive free frames that end at each of them. The sorted list exists for
any finite set of numbers, which is shown by a smallest counterexample.

    KernelInv == HeapsInv /\ FramesInv /\ PlacesInv /\ ObjectsInv /\ MappedIsKept

Each frame is free, or used and mapped (`FramesInv`); pools and regions lie in
the pages they asked for (`PlacesInv`, `ObjectsInv`); and every mapped frame is in a
pool or a region of a process that has not finished (`MappedIsKept`), which is what the
release at its end walks over. Every action is first reduced to one of six kinds of
step, and the invariant is proved of these.

    OwnersInv == KernelInv /\ GivenInv /\ DistinctInv

`GivenInv`: the frames given to a process are mapped and nobody else's, and, unless it has
taken a late slot, they hold all that its regions and pools reach. `DistinctInv`: the pools of a
process have no page in common, and the slots of a pool are handed out from the first to the
last, so that the next one lies behind every object in the pool. The theorem is that
`strayed \/ OwnersInv` holds always; the condition is needed, as section 3 shows. That the
end of a process without a late slot frees its own frames only is the step where the two
parts meet: the pages of a region are counted from the one it starts in, so those of an
object in the first page of a pool are the pages of the pool.

    RoomsInv == OwnersInv /\ ApartInv
    BytesInv == (memory holds the bytes of the heaps and of the mapped frames)

`StoresChangeOneObject` needs that no two objects share a byte of RAM. Starts that differ
(`ObjectsAreDistinct`) are not enough for that: the same finding makes the objects of a
pool overlap, and a store into one then changes another. Hence `StoresAreExact` speaks of
states in which the pools of live processes, of any size and with any number of slots, have
given out one slot each at most (`OneSlotEach`), and `ApartInv` of processes that have such
pools only: an object lies in its pages, and neither another object nor a pool that has given
out no slot has one of them.
Objects of two processes are apart because `GivenInv` is. Each store is then followed byte
by byte: the bytes it reaches lie in the region it names, hence in no other, and the
memory that the other instructions hand out was in no region. That a user address never
passes for a kernel address is part of it: `kernel_access()` only looks into the kernel's
table, and heaps end below `KBASE`.

### Only model-checked

- Liveness (`TimerStops`, `NoStarvation`, `AllProcessesFinish`, `InstructionsEnd`): the
  prover does not reason about fairness.

## 5. Not modelled

- MAP_OP and SWP_OP in `Paging`: they write over entries and slots that the program
  names, and no program under `input/` uses them. On user addresses MAP_OP is an action of
  `PageTable`. On kernel addresses it is left out there too: it walks the tables that all
  processes share without `mmvm_lock`, so that two walks may create the same table, and
  nothing is said of what follows.
- Reading of configuration and program files, traces and logs: no property depends
  on them. A bad priority is met in `Sched`.
- User pages and kernel memory competing for the frames of RAM: `Paging` and `KernelMem`
  each have a free list of their own.
- The bits of a page-table entry.
- Failing `malloc()` of list nodes. For page tables it is modelled.
- Sizes beyond the range of `int`.
- `mm.c`, `mem.c`, `paging.c` and all code outside the build above.
