------------------------------- MODULE OsSim -------------------------------
(***************************************************************************)
(* os.c: the CPU threads (cpu_routine) and the loader thread (ld_routine), *)
(* composed with the scheduler (Sched) and with the slot barrier the timer *)
(* provides (SlotBarrier, which Timer implements).                         *)
(*                                                                         *)
(* Each call into sched.c is atomic under queue_lock; between two calls of *)
(* one thread the others interleave, so put_proc/get_proc and              *)
(* finish_proc/get_proc are two steps each.  An instruction of a process   *)
(* is one step that moves its pc.                                          *)
(***************************************************************************)
EXTENDS Sched

CONSTANTS
  Ld,           \* the loader thread
  order,        \* the processes in the order of the configuration file
  MaxStart,     \* bound: the latest start time in a configuration
  Sizes,        \* the numbers of instructions considered, for each process
  TimeSlots     \* the quanta considered

ASSUME OsAssumption ==
  /\ Ld \notin Cpu
  /\ order \in Seq(Proc)
  /\ Elements(order) = Proc
  /\ NoDuplicates(order)
  /\ MaxStart \in Nat
  /\ Sizes \in [Proc -> SUBSET Nat]
  /\ TimeSlots \in SUBSET Nat
  /\ \A p \in Proc : valid_mlq_prio(p)    \* else read_config() has exited

VARIABLES
  start_time, size, time_slot, \* the configuration: when each process is to be
                               \* loaded, its number of instructions, the quantum
  time, phase, stopped, \* the slot barrier
  done,                 \* set by the loader when everything is loaded
  li, lpc,              \* ld_routine: i, and where it is
  cpc, time_left,       \* cpu_routine: where it is, and what is left of the quantum
  pc,                   \* proc->pc
  ran, waited           \* history: processes that executed an instruction in
                        \* this slot; that have been ready for all of it

Dev == Cpu \cup {Ld}

B == INSTANCE SlotBarrier

config   == <<start_time, size, time_slot>>
slotVars == <<time, phase, stopped>>
ldVars   == <<done, li, lpc>>
cpuVars  == <<cpc, time_left, pc>>
osVars   == <<config, schedVars, slotVars, ldVars, cpuVars, ran, waited>>

\* What read_config() and load() may have found in the files.
read_config ==
  /\ start_time \in [Proc -> 0 .. MaxStart]
  /\ size \in {f \in [Proc -> UNION {Sizes[p] : p \in Proc}] : \A p \in Proc : f[p] \in Sizes[p]}
  /\ time_slot \in TimeSlots

OsInit ==
  /\ read_config
  /\ init_scheduler
  /\ B!BarrierInit
  /\ done = FALSE
  /\ li = 1
  /\ lpc = "load"
  /\ cpc = [c \in Cpu |-> "top"]
  /\ time_left = [c \in Cpu |-> 0]
  /\ pc = [p \in Proc |-> 0]
  /\ ran = {}
  /\ waited = {}
----------------------------------------------------------------------------
(* The timer.  The slot number is only ever compared with start times, so  *)
(* it need not be counted beyond the last of them.                         *)

Tick ==
  /\ ~aborted
  /\ ~stopped
  /\ \A d \in Dev : phase[d] # "working"
  /\ time' = IF time < MaxStart THEN time + 1 ELSE time
  /\ phase' = B!Released
  /\ stopped' = B!AllFinished
  /\ ran' = {}
  /\ waited' = {p \in Proc : Waiting(p)}
  /\ UNCHANGED <<schedVars, ldVars, cpuVars>>

StopClock == ~aborted /\ B!Stop /\ UNCHANGED <<schedVars, ldVars, cpuVars, ran, waited>>
----------------------------------------------------------------------------
(* ld_routine().                                                           *)

Loading(pt) == ~aborted /\ phase[Ld] = "working" /\ lpc = pt

\* while (current_time() < start_time[i]) next_slot();
ld_wait ==
  /\ Loading("load")
  /\ li <= Len(order)
  /\ time < start_time[order[li]]
  /\ B!Arrive(Ld)
  /\ UNCHANGED <<schedVars, ldVars, cpuVars, ran, waited>>

ld_add ==
  /\ Loading("load")
  /\ li <= Len(order)
  /\ time >= start_time[order[li]]
  /\ add_proc(order[li])
  /\ lpc' = "added"
  /\ UNCHANGED <<slotVars, done, li, cpuVars, ran, waited>>

\* i++; next_slot();
ld_next_skip ==
  /\ Loading("added")
  /\ li' = li + 2
  /\ lpc' = "load"
  /\ B!Arrive(Ld)
  /\ UNCHANGED <<schedVars, done, cpuVars, ran, waited>>

ld_next ==
  /\ Loading("added")
  /\ li' = li + 1
  /\ lpc' = "load"
  /\ B!Arrive(Ld)
  /\ UNCHANGED <<schedVars, done, cpuVars, ran, waited>>

ld_set_done ==
  /\ Loading("load")
  /\ li > Len(order)
  /\ done' = TRUE
  /\ lpc' = "detach"
  /\ UNCHANGED <<schedVars, slotVars, li, cpuVars, ran, waited>>

ld_detach ==
  /\ Loading("detach")
  /\ lpc' = "exited"
  /\ B!Finish(Ld)
  /\ UNCHANGED <<schedVars, done, li, cpuVars, ran, waited>>
----------------------------------------------------------------------------
(* cpu_routine().                                                          *)

Running(c, pt) == ~aborted /\ phase[c] = "working" /\ cpc[c] = pt

goto(c, pt) == cpc' = [cpc EXCEPT ![c] = pt]

\* Every get_proc() of this CPU; what it returns is no longer waiting.
Reload(c) ==
  /\ get_proc(c)
  /\ waited' = waited \ {proc'[c]}

\* proc == NULL at the top of the loop.
cpu_first_load(c) ==
  /\ Running(c, "top")
  /\ proc[c] = NULL
  /\ Reload(c)
  /\ goto(c, IF proc'[c] = NULL THEN "slot" ELSE "recheck")
  /\ UNCHANGED <<slotVars, ldVars, time_left, pc, ran>>

\* The process has run to its end: finish_proc(), free_pcb_all(); ...
cpu_finish(c) ==
  /\ Running(c, "top")
  /\ proc[c] # NULL
  /\ pc[proc[c]] = size[proc[c]]
  /\ finish_proc(c)
  /\ goto(c, "reload_zero")
  /\ UNCHANGED <<slotVars, ldVars, time_left, pc, ran, waited>>

\* ... get_proc(); time_left = 0;
cpu_finish_reload_keep(c) ==
  /\ Running(c, "reload_zero")
  /\ Reload(c)
  /\ goto(c, "recheck")
  /\ UNCHANGED <<slotVars, ldVars, time_left, pc, ran>>

cpu_finish_reload(c) ==
  /\ Running(c, "reload_zero")
  /\ Reload(c)
  /\ time_left' = [time_left EXCEPT ![c] = 0]
  /\ goto(c, "recheck")
  /\ UNCHANGED <<slotVars, ldVars, pc, ran>>

\* The quantum is over: put_proc(); ...
cpu_requeue_keep(c) ==
  /\ Running(c, "top")
  /\ proc[c] # NULL
  /\ pc[proc[c]] # size[proc[c]]
  /\ time_left[c] = 0
  /\ mlq_ready_queue' = [mlq_ready_queue EXCEPT ![prio[proc[c]]] = enqueue(@, proc[c])]
  /\ goto(c, "recheck")
  /\ UNCHANGED <<slot, running_list, proc, loaded, finished, aborted>>
  /\ UNCHANGED <<slotVars, ldVars, time_left, pc, ran, waited>>

cpu_requeue(c) ==
  /\ Running(c, "top")
  /\ proc[c] # NULL
  /\ pc[proc[c]] # size[proc[c]]
  /\ time_left[c] = 0
  /\ put_proc(c)
  /\ goto(c, "reload")
  /\ UNCHANGED <<slotVars, ldVars, time_left, pc, ran, waited>>

\* ... get_proc();
cpu_requeue_reload(c) ==
  /\ Running(c, "reload")
  /\ Reload(c)
  /\ goto(c, "recheck")
  /\ UNCHANGED <<slotVars, ldVars, time_left, pc, ran>>

\* The process goes on with its quantum.
cpu_continue(c) ==
  /\ Running(c, "top")
  /\ proc[c] # NULL
  /\ pc[proc[c]] # size[proc[c]]
  /\ time_left[c] # 0
  /\ goto(c, "recheck")
  /\ UNCHANGED <<schedVars, slotVars, ldVars, time_left, pc, ran, waited>>

\* proc == NULL && is_done()
cpu_stop_undone(c) ==
  /\ Running(c, "recheck")
  /\ proc[c] = NULL
  /\ goto(c, "detach")
  /\ UNCHANGED <<schedVars, slotVars, ldVars, time_left, pc, ran, waited>>

cpu_stop(c) ==
  /\ Running(c, "recheck")
  /\ proc[c] = NULL
  /\ done
  /\ goto(c, "detach")
  /\ UNCHANGED <<schedVars, slotVars, ldVars, time_left, pc, ran, waited>>

\* proc == NULL: skip this slot.
cpu_skip_slot(c) ==
  /\ Running(c, "recheck")
  /\ proc[c] = NULL
  /\ ~done
  /\ goto(c, "slot")
  /\ UNCHANGED <<schedVars, slotVars, ldVars, time_left, pc, ran, waited>>

\* Instructions past the end of the code are counted too.
run_unbounded(p) == [pc EXCEPT ![p] = @ + 1]

\* run(): one instruction, whatever it returns.  Its effects on memory are the
\* subject of the memory modules.
run(p) == IF pc[p] >= size[p] THEN pc ELSE [pc EXCEPT ![p] = @ + 1]

\* The next instruction follows in the same time slot.
cpu_run_noslot(c) ==
  /\ Running(c, "recheck")
  /\ proc[c] # NULL
  /\ LET p == proc[c]
         left == IF time_left[c] = 0 THEN time_slot ELSE time_left[c]
     IN /\ time_left' = [time_left EXCEPT ![c] = left - 1]
        /\ pc' = run(p)
        /\ ran' = ran \cup {p}
  /\ goto(c, "top")
  /\ UNCHANGED <<schedVars, slotVars, ldVars, waited>>

\* Refill the quantum if need be, run(proc) and time_left--.
cpu_run(c) ==
  /\ Running(c, "recheck")
  /\ proc[c] # NULL
  /\ LET p == proc[c]
         left == IF time_left[c] = 0 THEN time_slot ELSE time_left[c]
     IN /\ time_left' = [time_left EXCEPT ![c] = left - 1]
        /\ pc' = run(p)
        /\ ran' = ran \cup {p}
  /\ goto(c, "slot")
  /\ UNCHANGED <<schedVars, slotVars, ldVars, waited>>

\* next_slot(timer_id) at the end of an iteration.
cpu_next_slot(c) ==
  /\ Running(c, "slot")
  /\ goto(c, "top")
  /\ B!Arrive(c)
  /\ UNCHANGED <<schedVars, ldVars, time_left, pc, ran, waited>>

cpu_detach(c) ==
  /\ Running(c, "detach")
  /\ goto(c, "exited")
  /\ B!Finish(c)
  /\ UNCHANGED <<schedVars, ldVars, time_left, pc, ran, waited>>
----------------------------------------------------------------------------
ld_routine == ld_wait \/ ld_add \/ ld_next \/ ld_set_done \/ ld_detach

cpu_routine(c) ==
  \/ cpu_first_load(c)
  \/ cpu_finish(c)
  \/ cpu_finish_reload(c)
  \/ cpu_requeue(c)
  \/ cpu_requeue_reload(c)
  \/ cpu_continue(c)
  \/ cpu_stop(c)
  \/ cpu_skip_slot(c)
  \/ cpu_run(c)
  \/ cpu_next_slot(c)
  \/ cpu_detach(c)

timer_routine == Tick \/ StopClock

OsNext ==
  /\ \/ timer_routine
     \/ ld_routine
     \/ \E c \in Cpu : cpu_routine(c)
  /\ UNCHANGED config

OsSpec == OsInit /\ [][OsNext]_osVars

\* Every thread is scheduled again and again.
OsFairness ==
  /\ WF_osVars(timer_routine /\ UNCHANGED config)
  /\ WF_osVars(ld_routine /\ UNCHANGED config)
  /\ \A c \in Cpu : WF_osVars(cpu_routine(c) /\ UNCHANGED config)

OsFairSpec == OsSpec /\ OsFairness
----------------------------------------------------------------------------
OsTypeOK ==
  /\ start_time \in [Proc -> Nat] /\ size \in [Proc -> Nat] /\ time_slot \in Nat
  /\ SchedTypeOK
  /\ B!BarrierTypeOK
  /\ done \in BOOLEAN
  /\ li \in 1 .. Len(order) + 1
  /\ lpc \in {"load", "added", "detach", "exited"}
  /\ cpc \in [Cpu -> {"top", "reload_zero", "reload", "recheck", "slot", "detach", "exited"}]
  /\ time_left \in [Cpu -> Int]
  /\ pc \in [Proc -> Nat]
  /\ ran \in SUBSET Proc
  /\ waited \in SUBSET Proc

\* The CPUs and the loader call the scheduler only in the ways Sched allows, so
\* what holds of every behaviour of Sched holds of the simulator.
UsesSchedCorrectly == SchedSpec

\* When the last CPU has stopped, every process of the configuration has been
\* loaded and has finished: no CPU gives up while another one puts its process
\* back, or while the loader still has one to add.
NoProcessAbandoned ==
  (\A c \in Cpu : cpc[c] \in {"detach", "exited"}) => finished = Proc

\* A process finishes with all its instructions executed, and none of them
\* twice.
RunsToItsEnd == \A p \in Proc : pc[p] <= size[p] /\ (p \in finished => pc[p] = size[p])

\* One instruction per process and slot, even when one CPU requeues it and
\* another one picks it up within the slot.
OneInstructionPerSlot ==
  [][\A p \in Proc : pc'[p] # pc[p] => p \notin ran]_osVars

\* A process never inherits what its predecessor on the CPU left of its quantum.
FreshQuantum ==
  [][\A c \in Cpu : proc'[c] \notin {NULL, proc[c]} => time_left'[c] = 0]_osVars

\* No CPU is idle, or has stopped, through a slot in which some process was
\* ready from beginning to end.
WorkConserving ==
  (\A d \in Dev : phase[d] # "working") /\ waited # {} => \A c \in Cpu : proc[c] # NULL

\* Every process of the configuration is loaded, scheduled and run to its end.
AllProcessesFinish == <>(finished = Proc)

\* "Wait for CPU and loader finishing": the joins in main() all return.
SimulationEnds == <>(lpc = "exited" /\ \A c \in Cpu : cpc[c] = "exited")
============================================================================
