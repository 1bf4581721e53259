---------------------------- MODULE SlotBarrier ----------------------------
(***************************************************************************)
(* What timer.c promises to its devices (the CPUs and the loader): time is *)
(* a sequence of slots.  In each slot a device works until it arrives      *)
(* (next_slot) or leaves for good (detach_event).  The slot number moves   *)
(* only when nobody is working, and then everybody who arrived works in    *)
(* the next slot.  The clock stops once every device has left.             *)
(*                                                                         *)
(* Timer.tla shows that the mutex and condition-variable protocol of       *)
(* timer.c implements this specification; OsSim.tla is built on it.        *)
(***************************************************************************)
EXTENDS Integers

CONSTANTS Dev       \* the devices attached to the timer

VARIABLES
  time,             \* the current time slot
  phase,            \* what each device is doing in it
  stopped           \* the clock has stopped

barrierVars == <<time, phase, stopped>>

Phase == {"working", "arrived", "finished"}

BarrierTypeOK ==
  /\ time \in Nat
  /\ phase \in [Dev -> Phase]
  /\ stopped \in BOOLEAN

BarrierInit ==
  /\ time = 0
  /\ phase = [d \in Dev |-> "working"]
  /\ stopped = FALSE

\* d has done its job in this slot.
Arrive(d) ==
  /\ phase[d] = "working"
  /\ phase' = [phase EXCEPT ![d] = "arrived"]
  /\ UNCHANGED <<time, stopped>>

\* d leaves; later slots do not wait for it.
Finish(d) ==
  /\ phase[d] = "working"
  /\ phase' = [phase EXCEPT ![d] = "finished"]
  /\ UNCHANGED <<time, stopped>>

AllFinished == \A d \in Dev : phase[d] = "finished"

\* Everybody who arrived in this slot works in the next one.
Released == [d \in Dev |-> IF phase[d] = "arrived" THEN "working" ELSE phase[d]]

Advance ==
  /\ ~stopped
  /\ \A d \in Dev : phase[d] # "working"
  /\ time' = time + 1
  /\ phase' = Released
  /\ stopped' = AllFinished

\* With everybody gone the clock may also stop without another tick.
Stop ==
  /\ ~stopped
  /\ AllFinished
  /\ stopped' = TRUE
  /\ UNCHANGED <<time, phase>>

BarrierNext ==
  \/ \E d \in Dev : Arrive(d) \/ Finish(d)
  \/ Advance
  \/ Stop

BarrierSafety == BarrierInit /\ [][BarrierNext]_barrierVars

\* A slot that everybody has completed does end; the devices themselves owe
\* nothing to the barrier.
BarrierSpec == BarrierSafety /\ WF_barrierVars(Advance \/ Stop)
============================================================================
