---------------------------- MODULE TimerProofs ----------------------------
(***************************************************************************)
(* Proofs about Timer, for every number of devices and slots: the devices  *)
(* are in lock step, no signal is missed, and every step of the threads is *)
(* a step of the slot barrier or changes nothing of it.                    *)
(***************************************************************************)
EXTENDS Timer, TLAPS

(***************************************************************************)
(* The invariant.                                                          *)
(***************************************************************************)

\* The timer thread has ended a slot and has not yet come to device d.
ToRelease(d) == tpc = "release" /\ \E i \in temp .. Len(dev_list) : dev_list[i] = d

\* The flags of a device say where it is, and the calls it has returned from say
\* in which slot.  done is set by the device and reset by the timer thread, so it
\* says nothing of the slot while the timer thread is on its way to the device.
DeviceFits(d) ==
  /\ fsh[d] <=> dpc[d] = "exited"
  /\ done[d] => dpc[d] = "wait"
  /\ dpc[d] = "run" => calls[d] = time
  /\ dpc[d] = "wait" /\ ~done[d] => calls[d] + 1 = time
  /\ dpc[d] = "wait" /\ done[d] => IF ToRelease(d) THEN calls[d] + 1 = time ELSE calls[d] = time

\* What main() has done so far.
MainFits ==
  /\ \A i, j \in 1 .. Len(dev_list) : dev_list[i] = dev_list[j] => i = j
  /\ mpc \in {"simulate", "join"} => \A d \in Dev : \E i \in 1 .. Len(dev_list) : dev_list[i] = d
  /\ timer_started <=> mpc # "attach"
  /\ timer_stop <=> mpc \in {"join", "freed"}
  /\ mpc \in {"join", "freed"} => \A d \in Dev : fsh[d]
  /\ mpc = "freed" => tpc = "exit"
  /\ mpc = "attach" => /\ tpc = "top" /\ event_wait = {} /\ timer_wait = {}
                       /\ \A d \in Dev : dpc[d] = "run"

\* What timer_routine() has seen so far: it has heard from the devices it has
\* passed, and its two counters are equal if all of them had detached.
RoutineFits ==
  /\ tpc = "gather" => /\ temp <= Len(dev_list) + 1
                       /\ nevent = temp - 1 /\ nfsh <= nevent
                       /\ \A i \in 1 .. temp - 1 : done[dev_list[i]] \/ fsh[dev_list[i]]
                       /\ nfsh = nevent <=> \A i \in 1 .. temp - 1 : fsh[dev_list[i]]
  /\ tpc = "release" => /\ \A i \in temp .. Len(dev_list) : done[dev_list[i]] \/ fsh[dev_list[i]]
                        /\ nfsh = nevent => \A d \in Dev : fsh[d]
  /\ tpc = "exit" => \A d \in Dev : fsh[d]

TimerInv ==
  /\ TypeOK /\ MainFits /\ RoutineFits
  /\ \A d \in Dev : DeviceFits(d)
  /\ NoMissedSignal
----------------------------------------------------------------------------
USE DEF mainVars, timerVars, deviceVars

\* The list holds devices, and all of them while the simulation runs.
LEMMA ListFacts ==
  ASSUME TimerInv
  PROVE  /\ Len(dev_list) \in Nat /\ temp \in Nat \ {0}
         /\ \A i \in 1 .. Len(dev_list) : dev_list[i] \in Dev
         /\ tpc \in {"gather", "release"} => mpc \in {"simulate", "join"}
         /\ done \in [Dev -> BOOLEAN] /\ fsh \in [Dev -> BOOLEAN]
<1>1. dev_list \in Seq(Dev)
  BY DEF TimerInv, TypeOK
<1>2. Len(dev_list) \in Nat /\ \A i \in 1 .. Len(dev_list) : dev_list[i] \in Dev
  BY <1>1
<1>3. tpc \in {"gather", "release"} => mpc \in {"simulate", "join"}
  BY DEF TimerInv, TypeOK, MainFits
<1> QED  BY <1>2, <1>3 DEF TimerInv, TypeOK

\* A device that is working is not one the timer thread has heard from.
LEMMA WorkingIsNotPassed ==
  ASSUME TimerInv, NEW d \in Dev, dpc[d] = "run"
  PROVE  /\ ~done[d] /\ ~fsh[d] /\ ~ToRelease(d) /\ calls[d] = time
         /\ tpc = "gather" => \A i \in 1 .. temp - 1 : dev_list[i] # d
<1>1. ~done[d] /\ ~fsh[d] /\ calls[d] = time
  BY DEF TimerInv, DeviceFits
<1>2. ~ToRelease(d)
  BY <1>1 DEF TimerInv, RoutineFits, ToRelease
<1>3. tpc = "gather" => \A i \in 1 .. temp - 1 : dev_list[i] # d
  BY <1>1 DEF TimerInv, RoutineFits
<1> QED  BY <1>1, <1>2, <1>3

\* attach_event() adds a device that is not yet in dev_list and has not run.
LEMMA AttachEventKeepsInv ==
  ASSUME TimerInv, NEW d \in Dev, attach_event(d)
  PROVE  TimerInv'
<1>1. TypeOK'
  BY DEF attach_event, TimerInv, TypeOK
<1>2. MainFits'
  BY SMTT(30) DEF attach_event, TimerInv, TypeOK, MainFits, DeviceFits, Attached
<1>3. RoutineFits'
  BY DEF attach_event, TimerInv, TypeOK, MainFits, RoutineFits, DeviceFits
<1>4. \A x \in Dev : DeviceFits(x)'
  BY DEF attach_event, TimerInv, TypeOK, MainFits, RoutineFits, DeviceFits, ToRelease
<1>5. NoMissedSignal'
  BY DEF attach_event, TimerInv, TypeOK, MainFits, DeviceFits, NoMissedSignal
<1> QED  BY <1>1, <1>2, <1>3, <1>4, <1>5 DEF TimerInv

\* start_timer() lets the timer thread and the devices run.
LEMMA StartTimerKeepsInv ==
  ASSUME TimerInv, start_timer
  PROVE  TimerInv'
<1>1. TypeOK'
  BY DEF start_timer, TimerInv, TypeOK
<1>2. MainFits'
  BY SMTT(30) DEF start_timer, TimerInv, TypeOK, MainFits, DeviceFits, Attached
<1>3. RoutineFits'
  BY DEF start_timer, TimerInv, TypeOK, MainFits, RoutineFits, DeviceFits
<1>4. \A x \in Dev : DeviceFits(x)'
  BY DEF start_timer, TimerInv, TypeOK, MainFits, RoutineFits, DeviceFits, ToRelease
<1>5. NoMissedSignal'
  BY DEF start_timer, TimerInv, TypeOK, MainFits, DeviceFits, NoMissedSignal
<1> QED  BY <1>1, <1>2, <1>3, <1>4, <1>5 DEF TimerInv

\* stop_timer() is called when every device has detached, and sets timer_stop.
LEMMA StopTimerKeepsInv ==
  ASSUME TimerInv, stop_timer
  PROVE  TimerInv'
<1>1. TypeOK'
  BY DEF stop_timer, TimerInv, TypeOK
<1>2. MainFits'
  BY DEF stop_timer, TimerInv, TypeOK, MainFits, DeviceFits, Attached
<1>3. RoutineFits'
  BY DEF stop_timer, TimerInv, TypeOK, MainFits, RoutineFits, DeviceFits
<1>4. \A x \in Dev : DeviceFits(x)'
  BY DEF stop_timer, TimerInv, TypeOK, MainFits, RoutineFits, DeviceFits, ToRelease
<1>5. NoMissedSignal'
  BY DEF stop_timer, TimerInv, TypeOK, MainFits, DeviceFits, NoMissedSignal
<1> QED  BY <1>1, <1>2, <1>3, <1>4, <1>5 DEF TimerInv

\* After pthread_join() stop_timer() frees a list that no thread reads.
LEMMA StopTimerFreeKeepsInv ==
  ASSUME TimerInv, stop_timer_free
  PROVE  TimerInv'
<1>1. TypeOK'
  BY DEF stop_timer_free, TimerInv, TypeOK
<1>2. MainFits'
  BY DEF stop_timer_free, TimerInv, TypeOK, MainFits, DeviceFits, Attached
<1>3. RoutineFits'
  BY DEF stop_timer_free, TimerInv, TypeOK, MainFits, RoutineFits, DeviceFits
<1>4. \A x \in Dev : DeviceFits(x)'
  BY DEF stop_timer_free, TimerInv, TypeOK, MainFits, RoutineFits, DeviceFits, ToRelease
<1>5. NoMissedSignal'
  BY DEF stop_timer_free, TimerInv, TypeOK, MainFits, DeviceFits, NoMissedSignal
<1> QED  BY <1>1, <1>2, <1>3, <1>4, <1>5 DEF TimerInv

\* The first half of next_slot(): done is set and event_cond signalled, for a
\* device the timer thread has not passed in this round.
LEMMA NextSlotKeepsInv ==
  ASSUME TimerInv, NEW d \in Dev, next_slot(d)
  PROVE  TimerInv'
<1>1. TypeOK'
  BY DEF next_slot, TimerInv, TypeOK
<1>2. MainFits'
  BY DEF next_slot, TimerInv, TypeOK, MainFits, DeviceFits, Attached
<1>3. RoutineFits'
  <2>1. /\ \A x \in Dev : done[x] => done'[x]
        /\ UNCHANGED <<fsh, tpc, temp, nfsh, nevent, dev_list>>
    BY ListFacts DEF next_slot
  <2> QED  BY <2>1, ListFacts DEF TimerInv, RoutineFits
<1>4. \A x \in Dev : DeviceFits(x)'
  <2>1. /\ done' = [done EXCEPT ![d] = TRUE] /\ dpc' = [dpc EXCEPT ![d] = "wait"]
        /\ UNCHANGED <<fsh, tpc, temp, dev_list, calls, time>> /\ dpc[d] = "run"
    BY DEF next_slot
  <2>2. dpc \in [Dev -> {"run", "wait", "exited"}] /\ done \in [Dev -> BOOLEAN]
    BY DEF TimerInv, TypeOK
  <2>3. \A x \in Dev : ToRelease(x)' <=> ToRelease(x)
    BY <2>1 DEF ToRelease
  <2>4. \A x \in Dev \ {d} : DeviceFits(x)'
    BY <2>1, <2>2, <2>3 DEF TimerInv, DeviceFits
  <2>5. DeviceFits(d)'
    BY <2>1, <2>2, <2>3, WorkingIsNotPassed DEF DeviceFits
  <2> QED  BY <2>4, <2>5
<1>5. NoMissedSignal'
  BY ZenonT(30) DEF next_slot, TimerInv, TypeOK, MainFits, DeviceFits, NoMissedSignal
<1> QED  BY <1>1, <1>2, <1>3, <1>4, <1>5 DEF TimerInv

\* The second half of next_slot(): the device sleeps while done is set, and
\* returns, one call later, once the timer thread has reset it.
LEMMA NextSlotWaitKeepsInv ==
  ASSUME TimerInv, NEW d \in Dev, next_slot_wait(d)
  PROVE  TimerInv'
<1>1. TypeOK'
  <2>1. /\ timer_wait \in SUBSET Dev /\ calls \in [Dev -> Nat]
        /\ dpc \in [Dev -> {"run", "wait", "exited"}]
    BY DEF TimerInv, TypeOK
  <2>2. /\ timer_wait' \in SUBSET Dev /\ calls' \in [Dev -> Nat]
        /\ dpc' \in [Dev -> {"run", "wait", "exited"}]
    <3>1. CASE timer_wait' = timer_wait \cup {d} /\ UNCHANGED deviceVars
      BY <2>1, <3>1
    <3>2. CASE /\ dpc' = [dpc EXCEPT ![d] = "run"] /\ calls' = [calls EXCEPT ![d] = @ + 1]
               /\ UNCHANGED timer_wait
      BY <2>1, <3>2
    <3> QED  BY <3>1, <3>2 DEF next_slot_wait
  <2> QED  BY <2>2 DEF next_slot_wait, TimerInv, TypeOK
<1>2. MainFits'
  BY DEF next_slot_wait, TimerInv, TypeOK, MainFits, DeviceFits, Attached
<1>3. RoutineFits'
  BY DEF next_slot_wait, TimerInv, TypeOK, MainFits, RoutineFits, DeviceFits
<1>4. \A x \in Dev : DeviceFits(x)'
  <2>1. \A x \in Dev : ToRelease(x)' <=> ToRelease(x)
    BY DEF next_slot_wait, ToRelease
  <2>2. UNCHANGED <<fsh, done, time>> /\ dpc[d] = "wait"
    BY DEF next_slot_wait
  <2>3. CASE UNCHANGED deviceVars
    BY <2>1, <2>2, <2>3 DEF TimerInv, DeviceFits
  <2>4. CASE ~done[d] /\ dpc' = [dpc EXCEPT ![d] = "run"] /\ calls' = [calls EXCEPT ![d] = @ + 1]
    <3>1. calls \in [Dev -> Nat] /\ dpc \in [Dev -> {"run", "wait", "exited"}] /\ time \in Nat
      BY DEF TimerInv, TypeOK
    <3>2. \A x \in Dev \ {d} : DeviceFits(x)'
      BY <2>1, <2>2, <2>4, <3>1 DEF TimerInv, DeviceFits
    <3>3. DeviceFits(d)'
      BY <2>1, <2>2, <2>4, <3>1 DEF TimerInv, DeviceFits
    <3> QED  BY <3>2, <3>3
  <2> QED  BY <2>3, <2>4 DEF next_slot_wait
<1>5. NoMissedSignal'
  BY ZenonT(30) DEF next_slot_wait, TimerInv, TypeOK, MainFits, DeviceFits, NoMissedSignal
<1> QED  BY <1>1, <1>2, <1>3, <1>4, <1>5 DEF TimerInv

\* detach_event() sets fsh for a device that is in no next_slot() call.
LEMMA DetachEventKeepsInv ==
  ASSUME TimerInv, NEW d \in Dev, detach_event(d)
  PROVE  TimerInv'
<1>1. TypeOK'
  BY DEF detach_event, TimerInv, TypeOK
<1>2. MainFits'
  BY DEF detach_event, TimerInv, TypeOK, MainFits, DeviceFits, Attached
<1>3. RoutineFits'
  <2>1. /\ \A x \in Dev : /\ fsh[x] => fsh'[x]
                          /\ x # d => (fsh'[x] <=> fsh[x])
        /\ UNCHANGED <<done, tpc, temp, nfsh, nevent, dev_list>> /\ dpc[d] = "run"
    BY ListFacts DEF detach_event
  <2>2. tpc = "gather" => \A i \in 1 .. temp - 1 : dev_list[i] # d
    BY <2>1, WorkingIsNotPassed
  <2>3. tpc = "gather" => \A i \in 1 .. temp - 1 : dev_list[i] \in Dev /\ dev_list[i] # d
    BY <2>2, ListFacts DEF TimerInv, RoutineFits
  <2>4. tpc = "gather" => \A i \in 1 .. temp - 1 : (fsh'[dev_list[i]] <=> fsh[dev_list[i]])
    <3>1. fsh' \in [Dev -> BOOLEAN] /\ fsh \in [Dev -> BOOLEAN]
      BY <1>1, ListFacts DEF TypeOK
    <3>2. \A x \in Dev : x # d => (fsh'[x] <=> fsh[x])
      BY <2>1
    <3> QED  BY <2>3, <3>1, <3>2
  <2>5. (tpc = "gather" => RoutineFits')
    BY <2>1, <2>4 DEF TimerInv, RoutineFits
  <2>6. (tpc # "gather" => RoutineFits')
    <3>1. tpc = "release" => \A i \in temp .. Len(dev_list) : dev_list[i] \in Dev
      BY ListFacts
    <3>2. \A x \in Dev : fsh[x] => fsh'[x]
      BY <2>1
    <3>3. tpc = "release" =>
            \A i \in temp .. Len(dev_list) : done[dev_list[i]] \/ fsh'[dev_list[i]]
      BY <3>1, <3>2 DEF TimerInv, RoutineFits
    <3> QED  BY <2>1, <3>2, <3>3 DEF TimerInv, RoutineFits
  <2> QED  BY <2>5, <2>6
<1>4. \A x \in Dev : DeviceFits(x)'
  <2> SUFFICES ASSUME NEW x \in Dev PROVE DeviceFits(x)'
    OBVIOUS
  <2>1. DeviceFits(x) /\ TypeOK
    BY DEF TimerInv
  <2>2. CASE x = d
    BY <2>1, <2>2, ZenonT(30) DEF detach_event, TypeOK, DeviceFits, ToRelease
  <2>3. CASE x # d
    BY <2>1, <2>3, ZenonT(30) DEF detach_event, TypeOK, DeviceFits, ToRelease
  <2> QED  BY <2>2, <2>3
<1>5. NoMissedSignal'
  BY ZenonT(30) DEF detach_event, TimerInv, TypeOK, MainFits, DeviceFits, NoMissedSignal
<1> QED  BY <1>1, <1>2, <1>3, <1>4, <1>5 DEF TimerInv

\* A round of timer_routine() starts with both counters at zero, or timer_stop
\* ends the thread.
LEMMA RoutineTopKeepsInv ==
  ASSUME TimerInv, timer_routine_top
  PROVE  TimerInv'
<1>1. TypeOK'
  BY DEF timer_routine_top, TimerInv, TypeOK
<1>2. MainFits'
  BY DEF timer_routine_top, TimerInv, TypeOK, MainFits, DeviceFits, Attached
<1>3. RoutineFits'
  <2>1. CASE timer_stop /\ tpc' = "exit"
    BY <2>1 DEF timer_routine_top, TimerInv, MainFits, RoutineFits, TypeOK
  <2>2. CASE tpc' = "gather" /\ temp' = 1 /\ nfsh' = 0 /\ nevent' = 0
    BY <2>2, ListFacts DEF timer_routine_top, RoutineFits
  <2> QED  BY <2>1, <2>2 DEF timer_routine_top
<1>4. \A x \in Dev : DeviceFits(x)'
  BY ZenonT(30) DEF timer_routine_top, TimerInv, TypeOK, MainFits, RoutineFits, DeviceFits, ToRelease
<1>5. NoMissedSignal'
  BY DEF timer_routine_top, TimerInv, TypeOK, MainFits, DeviceFits, NoMissedSignal
<1> QED  BY <1>1, <1>2, <1>3, <1>4, <1>5 DEF TimerInv

\* One turn of the first loop of timer_routine(): it sleeps while the device has
\* set neither flag, and otherwise counts it.
LEMMA RoutineGatherKeepsInv ==
  ASSUME TimerInv, timer_routine_gather
  PROVE  TimerInv'
<1>1. TypeOK'
  BY SMTT(30) DEF timer_routine_gather, TimerInv, TypeOK
<1>2. MainFits'
  BY DEF timer_routine_gather, TimerInv, TypeOK, MainFits, DeviceFits, Attached
<1>3. RoutineFits'
  <2>1. /\ tpc = "gather" /\ temp \in 1 .. Len(dev_list)
        /\ UNCHANGED <<dev_list, done, fsh, tpc>>
    BY ListFacts DEF timer_routine_gather
  <2>2. CASE UNCHANGED <<temp, nfsh, nevent>>
    BY <2>1, <2>2 DEF TimerInv, RoutineFits
  <2>3. CASE /\ done[dev_list[temp]] \/ fsh[dev_list[temp]]
             /\ nfsh' = IF fsh[dev_list[temp]] THEN nfsh + 1 ELSE nfsh
             /\ nevent' = nevent + 1 /\ temp' = temp + 1
    <3>1. /\ nevent = temp - 1 /\ nfsh <= nevent /\ nfsh \in Nat /\ nevent \in Nat
          /\ \A i \in 1 .. temp - 1 : done[dev_list[i]] \/ fsh[dev_list[i]]
          /\ nfsh = nevent <=> \A i \in 1 .. temp - 1 : fsh[dev_list[i]]
      BY <2>1 DEF TimerInv, RoutineFits, TypeOK
    <3>2. temp' <= Len(dev_list) + 1 /\ nevent' = temp' - 1 /\ nfsh' <= nevent'
      BY <2>1, <2>3, <3>1, ListFacts
    <3>3. \A i \in 1 .. temp' - 1 : i = temp \/ i \in 1 .. temp - 1
      BY <2>1, <2>3, ListFacts
    <3>4. \A i \in 1 .. temp' - 1 : done[dev_list[i]] \/ fsh[dev_list[i]]
      BY <2>3, <3>1, <3>3
    <3>5. nfsh' = nevent' <=> fsh[dev_list[temp]] /\ nfsh = nevent
      BY <2>3, <3>1
    <3>6. temp \in 1 .. temp' - 1 /\ \A i \in 1 .. temp - 1 : i \in 1 .. temp' - 1
      BY <2>1, <2>3, ListFacts
    <3>7. nfsh' = nevent' <=> \A i \in 1 .. temp' - 1 : fsh[dev_list[i]]
      BY <3>1, <3>3, <3>5, <3>6
    <3> QED  BY <2>1, <3>2, <3>4, <3>7 DEF RoutineFits
  <2> QED  BY <2>2, <2>3 DEF timer_routine_gather
<1>4. \A x \in Dev : DeviceFits(x)'
  BY DEF timer_routine_gather, TimerInv, TypeOK, MainFits, RoutineFits, DeviceFits, ToRelease
<1>5. NoMissedSignal'
  <2>1. UNCHANGED <<done, fsh, timer_wait>>
    BY DEF timer_routine_gather
  <2>2. \/ event_wait' = event_wait
        \/ /\ event_wait' = event_wait \cup {dev_list[temp]}
           /\ ~done[dev_list[temp]] /\ ~fsh[dev_list[temp]]
    BY DEF timer_routine_gather
  <2> QED  BY <2>1, <2>2 DEF TimerInv, NoMissedSignal
<1> QED  BY <1>1, <1>2, <1>3, <1>4, <1>5 DEF TimerInv

\* _time grows when every device of the list has been counted.
LEMMA RoutineTickKeepsInv ==
  ASSUME TimerInv, timer_routine_tick
  PROVE  TimerInv'
<1>0. /\ tpc = "gather" /\ temp = Len(dev_list) + 1 /\ tpc' = "release" /\ temp' = 1
      /\ time' = time + 1
      /\ UNCHANGED <<done, fsh, dev_list, nfsh, nevent, dpc, calls>>
      /\ \A x \in Dev : \E i \in 1 .. Len(dev_list) : dev_list[i] = x
      /\ \A i \in 1 .. Len(dev_list) : done[dev_list[i]] \/ fsh[dev_list[i]]
      /\ nfsh = nevent => \A i \in 1 .. Len(dev_list) : fsh[dev_list[i]]
  <2>1. tpc = "gather" /\ temp = Len(dev_list) + 1
    BY ListFacts DEF timer_routine_tick, TimerInv, RoutineFits
  <2>2. \A x \in Dev : \E i \in 1 .. Len(dev_list) : dev_list[i] = x
    BY <2>1, ListFacts DEF TimerInv, MainFits
  <2>3. 1 .. temp - 1 = 1 .. Len(dev_list)
    BY <2>1, ListFacts
  <2>4. /\ \A i \in 1 .. Len(dev_list) : done[dev_list[i]] \/ fsh[dev_list[i]]
        /\ nfsh = nevent => \A i \in 1 .. Len(dev_list) : fsh[dev_list[i]]
    BY <2>1, <2>3 DEF TimerInv, RoutineFits
  <2> QED  BY <2>1, <2>2, <2>4 DEF timer_routine_tick
<1>1. TypeOK'
  BY DEF timer_routine_tick, TimerInv, TypeOK
<1>2. MainFits'
  BY DEF timer_routine_tick, TimerInv, TypeOK, MainFits, DeviceFits, Attached
<1>3. RoutineFits'
  BY <1>0 DEF RoutineFits
<1>4. \A x \in Dev : DeviceFits(x)'
  <2> SUFFICES ASSUME NEW x \in Dev PROVE DeviceFits(x)'
    OBVIOUS
  <2>1. done[x] \/ fsh[x]
    BY <1>0
  <2>2. DeviceFits(x) /\ ~ToRelease(x)
    BY <1>0 DEF TimerInv, ToRelease
  <2>3. ToRelease(x)'
    BY <1>0 DEF ToRelease
  <2>4. fsh[x] => dpc[x] = "exited"
    BY <2>2 DEF DeviceFits
  <2>5. done[x] => dpc[x] = "wait" /\ calls[x] = time
    BY <2>2 DEF DeviceFits
  <2>6. calls[x] \in Nat /\ time \in Nat
    BY DEF TimerInv, TypeOK
  <2> QED  BY <1>0, <2>1, <2>2, <2>3, <2>4, <2>5, <2>6 DEF DeviceFits
<1>5. NoMissedSignal'
  BY DEF timer_routine_tick, TimerInv, TypeOK, MainFits, DeviceFits, NoMissedSignal
<1> QED  BY <1>1, <1>2, <1>3, <1>4, <1>5 DEF TimerInv

\* One turn of the second loop of timer_routine(): done is reset and the sleeping
\* device woken.
LEMMA RoutineReleaseKeepsInv ==
  ASSUME TimerInv, timer_routine_release
  PROVE  TimerInv'
<1>0. PICK d \in Dev :
        /\ tpc = "release" /\ temp \in 1 .. Len(dev_list) /\ d = dev_list[temp]
        /\ done' = [done EXCEPT ![d] = FALSE] /\ temp' = temp + 1
        /\ \A i \in 1 .. Len(dev_list) : dev_list[i] = d => i = temp
        /\ UNCHANGED <<tpc, fsh, dev_list, nfsh, nevent, dpc, calls, time>>
  <2>1. tpc = "release" /\ temp \in 1 .. Len(dev_list)
    BY ListFacts DEF timer_routine_release
  <2>2. \A i \in 1 .. Len(dev_list) : dev_list[i] = dev_list[temp] => i = temp
    BY <2>1 DEF TimerInv, MainFits
  <2> QED  BY <2>1, <2>2, ListFacts, ZenonT(30) DEF timer_routine_release
<1>1. TypeOK'
  BY DEF timer_routine_release, TimerInv, TypeOK
<1>2. MainFits'
  BY ZenonT(30) DEF timer_routine_release, TimerInv, TypeOK, MainFits, DeviceFits, Attached
<1>3. RoutineFits'
  <2>1. \A i \in temp + 1 .. Len(dev_list) :
          i \in temp .. Len(dev_list) /\ dev_list[i] \in Dev /\ dev_list[i] # d
    BY <1>0, ListFacts
  <2>2. \A x \in Dev \ {d} : done'[x] <=> done[x]
    BY <1>0, ListFacts
  <2> QED  BY <1>0, <2>1, <2>2 DEF TimerInv, RoutineFits
<1>4. \A x \in Dev : DeviceFits(x)'
  <2> SUFFICES ASSUME NEW x \in Dev PROVE DeviceFits(x)'
    OBVIOUS
  <2>1. DeviceFits(x)
    BY DEF TimerInv
  <2>2. CASE x = d
    <3>1. ToRelease(x)
      BY <1>0, <2>2, ListFacts DEF ToRelease
    <3>2. ~done'[x]
      BY <1>0, <2>2, ListFacts
    <3> QED  BY <1>0, <2>1, <3>1, <3>2 DEF DeviceFits
  <2>3. CASE x # d
    <3>1. \A i \in temp .. Len(dev_list) : dev_list[i] = x => i \in temp + 1 .. Len(dev_list)
      BY <1>0, <2>3, ListFacts
    <3>2. temp + 1 .. Len(dev_list) \subseteq temp .. Len(dev_list)
      BY ListFacts
    <3>3. ToRelease(x)' <=> ToRelease(x)
      BY <1>0, <3>1, <3>2 DEF ToRelease
    <3>4. done'[x] <=> done[x]
      BY <1>0, <2>3, ListFacts
    <3> QED  BY <1>0, <2>1, <3>3, <3>4 DEF DeviceFits
  <2> QED  BY <2>2, <2>3
<1>5. NoMissedSignal'
  BY ZenonT(30) DEF timer_routine_release, TimerInv, TypeOK, MainFits, DeviceFits, NoMissedSignal
<1> QED  BY <1>1, <1>2, <1>3, <1>4, <1>5 DEF TimerInv

\* The round ends; the thread ends when all the devices it counted had detached.
LEMMA RoutineRoundEndKeepsInv ==
  ASSUME TimerInv, timer_routine_round_end
  PROVE  TimerInv'
<1>1. TypeOK'
  BY DEF timer_routine_round_end, TimerInv, TypeOK
<1>2. MainFits'
  BY DEF timer_routine_round_end, TimerInv, TypeOK, MainFits, DeviceFits, Attached
<1>3. RoutineFits'
  BY DEF timer_routine_round_end, TimerInv, TypeOK, MainFits, RoutineFits, DeviceFits
<1>4. \A x \in Dev : DeviceFits(x)'
  BY DEF timer_routine_round_end, TimerInv, TypeOK, MainFits, RoutineFits, DeviceFits, ToRelease
<1>5. NoMissedSignal'
  BY DEF timer_routine_round_end, TimerInv, TypeOK, MainFits, DeviceFits, NoMissedSignal
<1> QED  BY <1>1, <1>2, <1>3, <1>4, <1>5 DEF TimerInv

\* A spurious return of pthread_cond_wait() changes only who sleeps.
LEMMA SpuriousWakeupKeepsInv ==
  ASSUME TimerInv, NEW d \in Dev, spurious_wakeup(d)
  PROVE  TimerInv'
<1>1. TypeOK'
  BY DEF spurious_wakeup, TimerInv, TypeOK
<1>2. MainFits'
  BY DEF spurious_wakeup, TimerInv, TypeOK, MainFits, DeviceFits, Attached
<1>3. RoutineFits'
  BY DEF spurious_wakeup, TimerInv, TypeOK, MainFits, RoutineFits, DeviceFits
<1>4. \A x \in Dev : DeviceFits(x)'
  BY ZenonT(30) DEF spurious_wakeup, TimerInv, TypeOK, MainFits, RoutineFits, DeviceFits, ToRelease
<1>5. NoMissedSignal'
  BY ZenonT(30) DEF spurious_wakeup, TimerInv, TypeOK, MainFits, DeviceFits, NoMissedSignal
<1> QED  BY <1>1, <1>2, <1>3, <1>4, <1>5 DEF TimerInv

\* The invariant holds before main() has attached a device.
LEMMA InitEstablishesInv ==
  Init => TimerInv
<1> SUFFICES ASSUME Init PROVE TimerInv
  OBVIOUS
<1>1. done \in [Dev -> BOOLEAN] /\ fsh \in [Dev -> BOOLEAN]
  BY Zenon DEF Init
<1>2. timer_started \in BOOLEAN /\ timer_stop \in BOOLEAN
  BY Zenon DEF Init
<1>3. TypeOK
  BY <1>1, <1>2 DEF Init, TypeOK
<1>4. MainFits /\ RoutineFits /\ NoMissedSignal
  BY DEF Init, MainFits, RoutineFits, NoMissedSignal
<1>5. \A d \in Dev : DeviceFits(d)
  BY ZenonT(30) DEF Init, DeviceFits
<1> QED  BY <1>3, <1>4, <1>5 DEF TimerInv

\* Every step of main(), of a device and of the timer thread keeps the invariant.
LEMMA NextKeepsInv ==
  TimerInv /\ [Next]_vars => TimerInv'
<1> SUFFICES ASSUME TimerInv, [Next]_vars PROVE TimerInv'
  OBVIOUS
<1>1. CASE main
  BY <1>1, AttachEventKeepsInv, StartTimerKeepsInv, StopTimerKeepsInv, StopTimerFreeKeepsInv DEF main
<1>2. CASE timer_routine
  BY <1>2, RoutineTopKeepsInv, RoutineGatherKeepsInv, RoutineTickKeepsInv, RoutineReleaseKeepsInv,
     RoutineRoundEndKeepsInv DEF timer_routine
<1>3. ASSUME NEW d \in Dev, device(d) PROVE TimerInv'
  BY <1>3, NextSlotKeepsInv, NextSlotWaitKeepsInv, DetachEventKeepsInv DEF device
<1>4. ASSUME NEW d \in Dev, spurious_wakeup(d) PROVE TimerInv'
  BY <1>4, SpuriousWakeupKeepsInv, SMTT(30)
<1>5. ASSUME UNCHANGED vars PROVE TimerInv'
  BY <1>5, ZenonT(30) DEF vars, TimerInv, TypeOK, MainFits, RoutineFits, DeviceFits, ToRelease, NoMissedSignal
<1> QED  BY <1>1, <1>2, <1>3, <1>4, <1>5 DEF Next, Finished

\* However the timer thread, the devices and main() interleave, and whatever
\* pthread_cond_wait() does spuriously, the invariant holds.
THEOREM TimerInvariant ==
  Spec => []TimerInv
BY InitEstablishesInv, NextKeepsInv, PTL DEF Spec

\* The variables of timer.c keep their types.
THEOREM TimerTypesHold ==
  Spec => []TypeOK
<1>1. TimerInv => TypeOK
  BY DEF TimerInv
<1> QED  BY <1>1, TimerInvariant, PTL

\* next_slot() keeps any number of devices in the same slot.
THEOREM DevicesAreInLockStep ==
  Spec => []LockStep
<1>1. TimerInv => LockStep
  BY DEF TimerInv, DeviceFits, LockStep
<1> QED  BY <1>1, TimerInvariant, PTL

\* Neither next_slot() nor timer_routine() sleeps on a condition that already
\* holds, although done is written under two mutexes.
THEOREM NoSignalIsMissed ==
  Spec => []NoMissedSignal
<1>1. TimerInv => NoMissedSignal
  BY DEF TimerInv
<1> QED  BY <1>1, TimerInvariant, PTL

(***************************************************************************)
(* The refinement.                                                         *)
(***************************************************************************)

\* The phase the refinement mapping gives to device d, and whether the clock has
\* stopped.
PhaseOf(d) == IF fsh[d] THEN "finished"
              ELSE IF dpc[d] = "wait" /\ calls[d] = time THEN "arrived"
              ELSE "working"

ClockStopped == tpc = "exit" \/ (tpc = "release" /\ nfsh = nevent)

\* A step that leaves the slot, the phases and the clock as they are.
LEMMA BarrierStutters ==
  ASSUME time' = time, \A d \in Dev : PhaseOf(d)' = PhaseOf(d), ClockStopped' <=> ClockStopped
  PROVE  UNCHANGED Barrier!barrierVars
BY DEF Barrier!barrierVars, PhaseOf, ClockStopped

\* Setting done in next_slot() is the barrier's Arrive and detach_event() its
\* Finish; the wait at the end of next_slot() is not seen.
LEMMA DeviceImplements ==
  ASSUME TimerInv, NEW d \in Dev, device(d)
  PROVE  [Barrier!BarrierNext]_(Barrier!barrierVars)
<1>1. UNCHANGED <<time, tpc, nfsh, nevent>>
  BY DEF device, next_slot, next_slot_wait, detach_event
<1>2. CASE next_slot(d)
  <2>1. Barrier!Arrive(d)
    BY <1>2, WorkingIsNotPassed, ZenonT(30) DEF next_slot, Barrier!Arrive, TimerInv, TypeOK
  <2> QED  BY <2>1 DEF Barrier!BarrierNext
<1>3. CASE detach_event(d)
  <2>1. Barrier!Finish(d)
    BY <1>3, WorkingIsNotPassed, ZenonT(30) DEF detach_event, Barrier!Finish, TimerInv, TypeOK
  <2> QED  BY <2>1 DEF Barrier!BarrierNext
<1>4. CASE next_slot_wait(d)
  <2>1. \A x \in Dev : PhaseOf(x)' = PhaseOf(x)
    BY <1>4, SMTT(30) DEF next_slot_wait, PhaseOf, TimerInv, TypeOK, DeviceFits
  <2> QED  BY <1>1, <2>1, BarrierStutters DEF ClockStopped
<1> QED  BY <1>2, <1>3, <1>4 DEF device

\* A round of timer_routine() shows as one Advance, when _time grows, or as Stop.
LEMMA RoutineImplements ==
  ASSUME TimerInv, timer_routine
  PROVE  [Barrier!BarrierNext]_(Barrier!barrierVars)
<1>1. UNCHANGED <<fsh, dpc, calls>>
  BY DEF timer_routine, timer_routine_top, timer_routine_gather, timer_routine_tick,
         timer_routine_release, timer_routine_round_end
<1>2. time' = time => \A d \in Dev : PhaseOf(d)' = PhaseOf(d)
  BY <1>1 DEF PhaseOf
<1>3. CASE timer_routine_tick
  <2>1. /\ tpc = "gather" /\ tpc' = "release" /\ time' = time + 1 /\ time \in Nat
        /\ UNCHANGED <<nfsh, nevent>>
    BY <1>3, SMTT(30) DEF timer_routine_tick, TimerInv, TypeOK
  <2>2. /\ \A i \in 1 .. Len(dev_list) : done[dev_list[i]] \/ fsh[dev_list[i]]
        /\ nfsh = nevent <=> \A i \in 1 .. Len(dev_list) : fsh[dev_list[i]]
    <3>1. 1 .. temp - 1 = 1 .. Len(dev_list)
      BY <1>3, <2>1, ListFacts, SMTT(30) DEF timer_routine_tick, TimerInv, RoutineFits
    <3> QED  BY <2>1, <3>1, ZenonT(30) DEF TimerInv, RoutineFits
  <2>3. \A d \in Dev : \E i \in 1 .. Len(dev_list) : dev_list[i] = d
    BY <2>1, ListFacts DEF TimerInv, MainFits
  <2>4. nfsh = nevent <=> \A d \in Dev : fsh[d]
    BY <2>2, <2>3, ListFacts, SMTT(30)
  <2>5. \A d \in Dev : fsh[d] \/ (dpc[d] = "wait" /\ calls[d] = time)
    BY <2>1, <2>2, <2>3 DEF TimerInv, DeviceFits, ToRelease
  <2>6. \A d \in Dev : calls[d] = time => calls[d] # time + 1
    BY <2>1
  <2>7. Barrier!Advance
    BY <1>1, <2>1, <2>4, <2>5, <2>6, ZenonT(30) DEF Barrier!Advance, Barrier!Released, Barrier!AllFinished
  <2> QED  BY <2>7 DEF Barrier!BarrierNext
<1>4. CASE timer_routine_top
  <2>1. CASE timer_stop /\ tpc' = "exit"
    <3>1. \A d \in Dev : fsh[d]
      BY <2>1 DEF TimerInv, TypeOK, MainFits
    <3>2. tpc = "top" /\ time' = time
      BY <1>4 DEF timer_routine_top
    <3>3. Barrier!Stop
      BY <1>1, <2>1, <3>1, <3>2 DEF Barrier!Stop, Barrier!AllFinished
    <3> QED  BY <3>3 DEF Barrier!BarrierNext
  <2>2. CASE tpc' = "gather"
    BY <1>2, <1>4, <2>2, BarrierStutters DEF timer_routine_top, ClockStopped
  <2> QED  BY <1>4, <2>1, <2>2 DEF timer_routine_top
<1>5. CASE timer_routine_gather
  BY <1>2, <1>5, BarrierStutters DEF timer_routine_gather, ClockStopped
<1>6. CASE timer_routine_release
  BY <1>2, <1>6, BarrierStutters DEF timer_routine_release, ClockStopped
<1>7. CASE timer_routine_round_end
  BY <1>2, <1>7, BarrierStutters DEF timer_routine_round_end, ClockStopped
<1> QED  BY <1>3, <1>4, <1>5, <1>6, <1>7 DEF timer_routine

\* main() and spurious wakeups are not seen by the barrier.
LEMMA OthersImplement ==
  ASSUME TimerInv, main \/ (\E d \in Dev : spurious_wakeup(d)) \/ UNCHANGED vars
  PROVE  UNCHANGED Barrier!barrierVars
<1>1. UNCHANGED <<time, tpc, nfsh, nevent, dpc, calls>>
  BY ZenonT(30) DEF main, attach_event, start_timer, stop_timer, stop_timer_free, spurious_wakeup, vars
<1>2. \A d \in Dev : fsh'[d] <=> fsh[d]
  <2>1. CASE \E d \in Dev : attach_event(d)
    BY <2>1 DEF attach_event, TimerInv, TypeOK, MainFits, DeviceFits
  <2>2. CASE UNCHANGED fsh
    BY <2>2
  <2> QED  BY <2>1, <2>2, SMTT(30) DEF main, start_timer, stop_timer, stop_timer_free, spurious_wakeup, vars
<1>3. \A d \in Dev : PhaseOf(d)' = PhaseOf(d)
  BY <1>1, <1>2 DEF PhaseOf
<1> QED  BY <1>1, <1>3, BarrierStutters DEF ClockStopped

\* The mutexes, condition variables and flags of timer.c implement the slot
\* barrier: time moves only when every device has called next_slot() or
\* detach_event(), and each of them only ever sees the barrier's steps.
THEOREM TimerImplementsBarrier ==
  Spec => Barrier!BarrierSafety
<1>1. Init => Barrier!BarrierInit
  BY DEF Init, Barrier!BarrierInit
<1>2. TimerInv /\ [Next]_vars => [Barrier!BarrierNext]_(Barrier!barrierVars)
  <2> SUFFICES ASSUME TimerInv, [Next]_vars
               PROVE  [Barrier!BarrierNext]_(Barrier!barrierVars)
    OBVIOUS
  <2>1. CASE \E d \in Dev : device(d)
    BY <2>1, DeviceImplements
  <2>2. CASE timer_routine
    BY <2>2, RoutineImplements
  <2>3. CASE main \/ (\E d \in Dev : spurious_wakeup(d)) \/ UNCHANGED vars
    BY <2>3, OthersImplement
  <2> QED  BY <2>1, <2>2, <2>3 DEF Next, Finished
<1> QED  BY <1>1, <1>2, TimerInvariant, PTL DEF Spec, Barrier!BarrierSafety
============================================================================
