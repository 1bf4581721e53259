------------------------------- MODULE Timer -------------------------------
(***************************************************************************)
(* timer.c: the thread that divides time into slots, and the calls its     *)
(* devices (the CPU threads and the loader thread) make on it.             *)
(*                                                                         *)
(* Each device owns a record timer_id_t with two flags, done and fsh, two  *)
(* mutexes and two condition variables.  A critical section of timer.c     *)
(* touches done at most once and everything else it touches is protected   *)
(* by its own mutex, so a section up to its pthread_cond_wait or its       *)
(* unlock is one action here.  done itself is written under event_lock by  *)
(* the device and under timer_lock by the timer thread: no single mutex    *)
(* orders the two, and the order in which those sections run is what the   *)
(* properties below are about.                                             *)
(*                                                                         *)
(* A thread blocked in pthread_cond_wait is a member of a wait set; a      *)
(* signal takes it out, and so may a spurious wakeup, after which it tests *)
(* its condition again.                                                    *)
(***************************************************************************)
EXTENDS Integers, Sequences

CONSTANTS
  Dev,         \* the devices main() attaches: one per CPU, and the loader
  MaxSlots     \* bound: next_slot() calls a device makes before it detaches

ASSUME DevAssumption == Dev # {}
ASSUME MaxSlotsAssumption == MaxSlots \in Nat

VARIABLES
  dev_list,       \* attached devices, the most recent first
  timer_started,
  timer_stop,
  time,           \* _time
  done, fsh,      \* the flags of each timer_id_t
  event_wait,     \* devices on whose event_cond the timer thread sleeps
  timer_wait,     \* devices that sleep on their own timer_cond
  tpc, temp,      \* timer_routine: where it is, and its place in dev_list
  nfsh, nevent,   \* timer_routine: its counters fsh and event
  dpc, calls,     \* each device: where it is, and next_slot() calls returned
  mpc             \* main(): before, during and after the simulation

mainVars   == <<dev_list, timer_started, timer_stop, mpc>>
timerVars  == <<tpc, temp, nfsh, nevent>>
deviceVars == <<dpc, calls>>
vars == <<mainVars, time, done, fsh, event_wait, timer_wait, timerVars, deviceVars>>

Init ==
  /\ dev_list = << >>
  /\ timer_started = FALSE
  /\ timer_stop = FALSE
  /\ time = 0
  /\ done = [d \in Dev |-> FALSE]
  /\ fsh = [d \in Dev |-> FALSE]
  /\ event_wait = {}
  /\ timer_wait = {}
  /\ tpc = "top"
  /\ temp = 1
  /\ nfsh = 0
  /\ nevent = 0
  /\ dpc = [d \in Dev |-> "run"]
  /\ calls = [d \in Dev |-> 0]
  /\ mpc = "attach"

Attached == {dev_list[i] : i \in 1 .. Len(dev_list)}
----------------------------------------------------------------------------
(* main(): attach every device, start the timer, let the threads run, join *)
(* them, stop the timer and free the list.                                 *)

attach_event(d) ==
  /\ mpc = "attach"
  /\ d \notin Attached
  /\ ~timer_started
  /\ dev_list' = <<d>> \o dev_list
  /\ done' = [done EXCEPT ![d] = FALSE]
  /\ fsh' = [fsh EXCEPT ![d] = FALSE]
  /\ UNCHANGED <<timer_started, timer_stop, mpc, time, event_wait, timer_wait,
                 timerVars, deviceVars>>

start_timer ==
  /\ mpc = "attach"
  /\ Attached = Dev
  /\ timer_started' = TRUE
  /\ mpc' = "simulate"
  /\ UNCHANGED <<dev_list, timer_stop, time, done, fsh, event_wait, timer_wait,
                 timerVars, deviceVars>>

\* Called by main() once it has joined every CPU and the loader.
stop_timer ==
  /\ mpc = "simulate"
  /\ \A d \in Dev : dpc[d] = "exited"
  /\ timer_stop' = TRUE
  /\ mpc' = "join"
  /\ UNCHANGED <<dev_list, timer_started, time, done, fsh, event_wait, timer_wait,
                 timerVars, deviceVars>>

\* The rest of stop_timer(), after pthread_join(_timer).
stop_timer_free ==
  /\ mpc = "join"
  /\ tpc = "exit"
  /\ dev_list' = << >>
  /\ mpc' = "freed"
  /\ UNCHANGED <<timer_started, timer_stop, time, done, fsh, event_wait, timer_wait,
                 timerVars, deviceVars>>
----------------------------------------------------------------------------
(* A device.  Between two calls it does its work of the slot.              *)

\* next_slot() up to the unlock of event_lock.
next_slot_nosignal(d) ==
  /\ mpc = "simulate"
  /\ dpc[d] = "run"
  /\ calls[d] < MaxSlots
  /\ done' = [done EXCEPT ![d] = TRUE]
  /\ dpc' = [dpc EXCEPT ![d] = "wait"]
  /\ UNCHANGED <<mainVars, time, fsh, event_wait, timer_wait, timerVars, calls>>

next_slot(d) ==
  /\ mpc = "simulate"
  /\ dpc[d] = "run"
  /\ calls[d] < MaxSlots
  /\ done' = [done EXCEPT ![d] = TRUE]
  /\ event_wait' = event_wait \ {d}
  /\ dpc' = [dpc EXCEPT ![d] = "wait"]
  /\ UNCHANGED <<mainVars, time, fsh, timer_wait, timerVars, calls>>

\* next_slot(), the section under timer_lock: one turn of its while loop.
next_slot_wait_if(d) ==
  /\ dpc[d] \in {"wait", "woken"}
  /\ d \notin timer_wait
  /\ \/ /\ done[d] /\ dpc[d] = "wait"
        /\ timer_wait' = timer_wait \cup {d}
        /\ dpc' = [dpc EXCEPT ![d] = "woken"]
        /\ UNCHANGED calls
     \/ /\ ~done[d] \/ dpc[d] = "woken"
        /\ dpc' = [dpc EXCEPT ![d] = "run"]
        /\ calls' = [calls EXCEPT ![d] = @ + 1]
        /\ UNCHANGED timer_wait
  /\ UNCHANGED <<mainVars, time, done, fsh, event_wait, timerVars>>

next_slot_wait(d) ==
  /\ dpc[d] = "wait"
  /\ d \notin timer_wait
  /\ \/ /\ done[d]
        /\ timer_wait' = timer_wait \cup {d}
        /\ UNCHANGED deviceVars
     \/ /\ ~done[d]
        /\ dpc' = [dpc EXCEPT ![d] = "run"]
        /\ calls' = [calls EXCEPT ![d] = @ + 1]
        /\ UNCHANGED timer_wait
  /\ UNCHANGED <<mainVars, time, done, fsh, event_wait, timerVars>>

detach_event_nosignal(d) ==
  /\ mpc = "simulate"
  /\ dpc[d] = "run"
  /\ fsh' = [fsh EXCEPT ![d] = TRUE]
  /\ dpc' = [dpc EXCEPT ![d] = "exited"]
  /\ UNCHANGED <<mainVars, time, done, event_wait, timer_wait, timerVars, calls>>

detach_event(d) ==
  /\ mpc = "simulate"
  /\ dpc[d] = "run"
  /\ fsh' = [fsh EXCEPT ![d] = TRUE]
  /\ event_wait' = event_wait \ {d}
  /\ dpc' = [dpc EXCEPT ![d] = "exited"]
  /\ UNCHANGED <<mainVars, time, done, timer_wait, timerVars, calls>>
----------------------------------------------------------------------------
(* timer_routine().                                                        *)

\* The while test and the reset of the two counters.
timer_routine_top ==
  /\ timer_started
  /\ tpc = "top"
  /\ \/ /\ timer_stop
        /\ tpc' = "exit"
        /\ UNCHANGED <<temp, nfsh, nevent>>
     \/ /\ ~timer_stop
        /\ tpc' = "gather"
        /\ temp' = 1
        /\ nfsh' = 0
        /\ nevent' = 0
  /\ UNCHANGED <<mainVars, time, done, fsh, event_wait, timer_wait, deviceVars>>

\* One turn of the loop that waits for the device temp points at.
timer_routine_gather ==
  /\ tpc = "gather"
  /\ temp <= Len(dev_list)
  /\ LET d == dev_list[temp] IN
       /\ d \notin event_wait
       /\ \/ /\ ~done[d] /\ ~fsh[d]
             /\ event_wait' = event_wait \cup {d}
             /\ UNCHANGED <<temp, nfsh, nevent>>
          \/ /\ done[d] \/ fsh[d]
             /\ nfsh' = IF fsh[d] THEN nfsh + 1 ELSE nfsh
             /\ nevent' = nevent + 1
             /\ temp' = temp + 1
             /\ UNCHANGED event_wait
  /\ UNCHANGED <<mainVars, time, done, fsh, timer_wait, tpc, deviceVars>>

\* _time++ .
timer_routine_tick_early ==
  /\ tpc = "gather"
  /\ temp >= Len(dev_list)
  /\ time' = time + 1
  /\ tpc' = "release"
  /\ temp' = 1
  /\ UNCHANGED <<mainVars, done, fsh, event_wait, timer_wait, nfsh, nevent, deviceVars>>

timer_routine_tick ==
  /\ tpc = "gather"
  /\ temp > Len(dev_list)
  /\ time' = time + 1
  /\ tpc' = "release"
  /\ temp' = 1
  /\ UNCHANGED <<mainVars, done, fsh, event_wait, timer_wait, nfsh, nevent, deviceVars>>

\* One turn of the loop that lets the devices continue.
timer_routine_release ==
  /\ tpc = "release"
  /\ temp <= Len(dev_list)
  /\ done' = [done EXCEPT ![dev_list[temp]] = FALSE]
  /\ timer_wait' = timer_wait \ {dev_list[temp]}
  /\ temp' = temp + 1
  /\ UNCHANGED <<mainVars, time, fsh, event_wait, tpc, nfsh, nevent, deviceVars>>

\* if (fsh == event) break;
timer_routine_round_end ==
  /\ tpc = "release"
  /\ temp > Len(dev_list)
  /\ tpc' = IF nfsh = nevent THEN "exit" ELSE "top"
  /\ UNCHANGED <<mainVars, time, done, fsh, event_wait, timer_wait, temp, nfsh, nevent,
                 deviceVars>>

\* pthread_cond_wait may return without a signal.
spurious_wakeup(d) ==
  /\ \/ /\ d \in event_wait
        /\ event_wait' = event_wait \ {d}
        /\ UNCHANGED timer_wait
     \/ /\ d \in timer_wait
        /\ timer_wait' = timer_wait \ {d}
        /\ UNCHANGED event_wait
  /\ UNCHANGED <<mainVars, time, done, fsh, timerVars, deviceVars>>
----------------------------------------------------------------------------
timer_routine ==
  \/ timer_routine_top
  \/ timer_routine_gather
  \/ timer_routine_tick
  \/ timer_routine_release
  \/ timer_routine_round_end

main ==
  \/ \E d \in Dev : attach_event(d)
  \/ start_timer
  \/ stop_timer
  \/ stop_timer_free

device(d) == next_slot(d) \/ next_slot_wait(d) \/ detach_event(d)

\* The process has returned from main().
Finished == mpc = "freed" /\ UNCHANGED vars

Next ==
  \/ main
  \/ timer_routine
  \/ \E d \in Dev : device(d)
  \/ \E d \in Dev : spurious_wakeup(d)
  \/ Finished

Spec == Init /\ [][Next]_vars

\* Every thread is scheduled again and again; nothing is assumed of spurious
\* wakeups, so progress rests on the signals alone.
Fairness ==
  /\ WF_vars(main)
  /\ WF_vars(timer_routine)
  /\ \A d \in Dev : WF_vars(device(d))

FairSpec == Spec /\ Fairness
----------------------------------------------------------------------------
\* Type invariant.
TypeOK ==
  /\ dev_list \in Seq(Dev)
  /\ timer_started \in BOOLEAN
  /\ timer_stop \in BOOLEAN
  /\ time \in Nat
  /\ done \in [Dev -> BOOLEAN]
  /\ fsh \in [Dev -> BOOLEAN]
  /\ event_wait \in SUBSET Dev
  /\ timer_wait \in SUBSET Dev
  /\ tpc \in {"top", "gather", "release", "exit"}
  /\ temp \in Nat \ {0}
  /\ nfsh \in Nat
  /\ nevent \in Nat
  /\ dpc \in [Dev -> {"run", "wait", "exited"}]
  /\ calls \in [Dev -> Nat]
  /\ mpc \in {"attach", "simulate", "join", "freed"}

\* Lock step: a device that is working has returned from exactly as many
\* next_slot() calls as there have been ticks, although the flag that holds it
\* back is guarded by two different mutexes and the timer releases the devices
\* one after the other.
LockStep == \A d \in Dev : dpc[d] = "run" => calls[d] = time

\* Nobody sleeps on a condition that already holds: a device asleep on its
\* timer_cond is still held back, and the timer thread asleep on an event_cond
\* still has to hear from that device.
NoMissedSignal ==
  /\ \A d \in timer_wait : done[d]
  /\ \A d \in event_wait : ~done[d] /\ ~fsh[d]

\* Once every device detaches after finitely many slots, the timer thread
\* ends and stop_timer() returns: no signal is lost.
TimerStops == <>(mpc = "freed")

\* The slot barrier this protocol implements.  A device has arrived from the
\* moment it posts done until the tick that ends its slot; it counts as working
\* again from that tick, before the timer thread has come round to wake it.
Barrier == INSTANCE SlotBarrier WITH
  phase   <- [d \in Dev |-> IF fsh[d] THEN "finished"
                            ELSE IF dpc[d] = "wait" /\ calls[d] = time THEN "arrived"
                            ELSE "working"],
  stopped <- tpc = "exit" \/ (tpc = "release" /\ nfsh = nevent)

\* timer.c implements the slot barrier, its progress included: in particular _time
\* moves only while every device is inside next_slot() or gone, so the unlocked
\* reads of it in current_time() never race with the increment.
ImplementsBarrier == Barrier!BarrierSpec
============================================================================
