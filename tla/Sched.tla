------------------------------- MODULE Sched -------------------------------
(***************************************************************************)
(* sched.c built with MLQ_SCHED: one ready queue per priority, a budget of *)
(* dispatches per priority and round, and the list of all live processes.  *)
(*                                                                         *)
(* Every function of sched.c holds queue_lock from its first to its last   *)
(* access to this state, so each is one action.  The callers are the       *)
(* loader (add_proc, once per process) and the CPUs, each of which holds   *)
(* at most one process in its local variable proc: get_proc when it holds  *)
(* none, put_proc or finish_proc for the one it holds.                     *)
(***************************************************************************)
EXTENDS ProcQueue

CONSTANTS
  Proc,        \* the processes of the configuration file, identified by pid
  Cpu,         \* the CPU threads
  NULL,        \* no process
  MAX_PRIO,    \* number of priority levels; 0 is the highest
  prio         \* prio[p]: the priority the configuration gives to p

ASSUME SchedAssumption ==
  /\ NULL \notin Proc
  /\ MAX_PRIO \in Nat \ {0}
  /\ prio \in [Proc -> Nat]

VARIABLES
  mlq_ready_queue,  \* ready queue of each priority
  slot,             \* dispatches left to each priority in this round
  running_list,     \* every process that is loaded and has not finished
  proc,             \* the process each CPU holds
  loaded, finished, \* processes add_proc and finish_proc have been called for
  aborted           \* the simulator has called exit(EXIT_FAILURE)

schedVars == <<mlq_ready_queue, slot, running_list, proc, loaded, finished, aborted>>

Level == 0 .. MAX_PRIO - 1

valid_mlq_prio(p) == prio[p] < MAX_PRIO

\* A fresh round: slot[prio] = MAX_PRIO - prio.
FullRound == [l \in Level |-> MAX_PRIO - l]

init_scheduler ==
  /\ mlq_ready_queue = [l \in Level |-> << >>]
  /\ slot = FullRound
  /\ running_list = << >>
  /\ proc = [c \in Cpu |-> NULL]
  /\ loaded = {}
  /\ finished = {}
  /\ aborted = FALSE
----------------------------------------------------------------------------
\* The levels pass 1 and pass 2 of get_mlq_proc would dispatch from, given
\* budgets s.
Eligible(s) == {l \in Level : ~empty(mlq_ready_queue[l]) /\ s[l] > 0}

\* Pass 2 starts from fresh budgets when pass 1 found nothing.
Budgets_noreset == slot

Budgets == IF Eligible(slot) = {} THEN FullRound ELSE slot

\* The housekeeping at the end of get_mlq_proc.
EndOfRound_none(s) == s

EndOfRound(s) == IF \A l \in Level : s[l] = 0 THEN FullRound ELSE s

\* get_mlq_proc() called by CPU c, when it returns a process ...
get_mlq_proc_greedy(c) ==
  \E l \in {m \in Level : ~empty(mlq_ready_queue[m])} :
     /\ \A m \in Level : ~empty(mlq_ready_queue[m]) => l <= m
     /\ proc' = [proc EXCEPT ![c] = Front(mlq_ready_queue[l])]
     /\ mlq_ready_queue' = [mlq_ready_queue EXCEPT ![l] = dequeue(@)]
     /\ slot' = EndOfRound([Budgets EXCEPT ![l] = @ - 1])
     /\ UNCHANGED <<running_list, loaded, finished, aborted>>

get_mlq_proc_eager_reset(c) ==
  \E l \in Eligible(Budgets) :
     /\ \A m \in Eligible(Budgets) : l <= m
     /\ proc' = [proc EXCEPT ![c] = Front(mlq_ready_queue[l])]
     /\ mlq_ready_queue' = [mlq_ready_queue EXCEPT ![l] = dequeue(@)]
     /\ slot' = IF Budgets[l] = 1 THEN FullRound ELSE [Budgets EXCEPT ![l] = @ - 1]
     /\ UNCHANGED <<running_list, loaded, finished, aborted>>

get_mlq_proc(c) ==
  \E l \in Eligible(Budgets) :
     /\ \A m \in Eligible(Budgets) : l <= m
     /\ proc' = [proc EXCEPT ![c] = Front(mlq_ready_queue[l])]
     /\ mlq_ready_queue' = [mlq_ready_queue EXCEPT ![l] = dequeue(@)]
     /\ slot' = EndOfRound([Budgets EXCEPT ![l] = @ - 1])
     /\ UNCHANGED <<running_list, loaded, finished, aborted>>

\* ... and when it returns NULL.
get_mlq_proc_none(c) ==
  /\ Eligible(Budgets) = {}
  /\ proc' = [proc EXCEPT ![c] = NULL]
  /\ slot' = EndOfRound(Budgets)
  /\ UNCHANGED <<mlq_ready_queue, running_list, loaded, finished, aborted>>

get_proc(c) ==
  /\ ~aborted
  /\ get_mlq_proc(c) \/ get_mlq_proc_none(c)

\* put_proc(proc) on CPU c; the caller overwrites its pointer right away.
put_proc(c) ==
  /\ ~aborted
  /\ proc[c] # NULL
  /\ LET p == proc[c] IN
       IF valid_mlq_prio(p) /\ HasRoom(mlq_ready_queue[prio[p]])
       THEN /\ mlq_ready_queue' = [mlq_ready_queue EXCEPT ![prio[p]] = enqueue(@, p)]
            /\ proc' = [proc EXCEPT ![c] = NULL]
            /\ UNCHANGED aborted
       ELSE /\ aborted' = TRUE
            /\ UNCHANGED <<mlq_ready_queue, proc>>
  /\ UNCHANGED <<slot, running_list, loaded, finished>>

\* add_mlq_proc(p) when it succeeds ...
add_mlq_proc_untracked(p) ==
  /\ valid_mlq_prio(p)
  /\ HasRoom(mlq_ready_queue[prio[p]])
  /\ mlq_ready_queue' = [mlq_ready_queue EXCEPT ![prio[p]] = enqueue(@, p)]
  /\ running_list' = running_list
  /\ loaded' = loaded \cup {p}
  /\ UNCHANGED aborted

add_mlq_proc(p) ==
  /\ valid_mlq_prio(p)
  /\ HasRoom(mlq_ready_queue[prio[p]])
  /\ HasRoom(running_list)
  /\ mlq_ready_queue' = [mlq_ready_queue EXCEPT ![prio[p]] = enqueue(@, p)]
  /\ running_list' = enqueue(running_list, p)
  /\ loaded' = loaded \cup {p}
  /\ UNCHANGED aborted

\* ... and when it ends the simulation: the priority is invalid, the ready
\* queue is full, or the running list is full and the ready queue purged again.
add_mlq_proc_fails(p) ==
  /\ \/ ~valid_mlq_prio(p)
     \/ /\ valid_mlq_prio(p)
        /\ ~HasRoom(mlq_ready_queue[prio[p]]) \/ ~HasRoom(running_list)
  /\ aborted' = TRUE
  /\ mlq_ready_queue' =
       IF valid_mlq_prio(p) /\ HasRoom(mlq_ready_queue[prio[p]])
       THEN [mlq_ready_queue EXCEPT ![prio[p]] = purgequeue(enqueue(@, p), p)]
       ELSE mlq_ready_queue
  /\ UNCHANGED <<running_list, loaded>>

add_proc(p) ==
  /\ ~aborted
  /\ p \notin loaded
  /\ add_mlq_proc(p) \/ add_mlq_proc_fails(p)
  /\ UNCHANGED <<slot, proc, finished>>

\* finish_proc(proc) on CPU c, which then frees the process.
finish_proc(c) ==
  /\ ~aborted
  /\ proc[c] # NULL
  /\ running_list' = purgequeue(running_list, proc[c])
  /\ finished' = finished \cup {proc[c]}
  /\ proc' = [proc EXCEPT ![c] = NULL]
  /\ UNCHANGED <<mlq_ready_queue, slot, loaded, aborted>>

\* find_proc(pid): a search of running_list.
find_proc(p) == IF p \in Elements(running_list) THEN p ELSE NULL

----------------------------------------------------------------------------
(* The scheduler under every order of calls its callers can make.          *)

get_proc_idle(c) == proc[c] = NULL /\ get_proc(c)

SchedNext ==
  \/ \E p \in Proc : add_proc(p)
  \/ \E c \in Cpu : get_proc_idle(c)
  \/ \E c \in Cpu : put_proc(c)
  \/ \E c \in Cpu : finish_proc(c)

SchedSpec == init_scheduler /\ [][SchedNext]_schedVars

\* A CPU without a process asks for one in every time slot, and a CPU with one
\* gives it up when its quantum ends.
SchedFairness ==
  \A c \in Cpu : /\ WF_schedVars(get_proc_idle(c))
                 /\ WF_schedVars(put_proc(c) \/ finish_proc(c))

----------------------------------------------------------------------------
SchedTypeOK ==
  /\ mlq_ready_queue \in [Level -> Seq(Proc)]
  /\ slot \in [Level -> Nat]
  /\ running_list \in Seq(Proc)
  /\ proc \in [Cpu -> Proc \cup {NULL}]
  /\ loaded \in SUBSET Proc
  /\ finished \in SUBSET loaded
  /\ aborted \in BOOLEAN

Live == loaded \ finished

Held(p) == \E c \in Cpu : proc[c] = p

Waiting(p) == \E l \in Level : p \in Elements(mlq_ready_queue[l])

\* What waits in a ready queue waits there once, is alive, has that priority,
\* and is on no CPU.
ReadyOnce ==
  \A l \in Level :
     /\ NoDuplicates(mlq_ready_queue[l])
     /\ \A p \in Elements(mlq_ready_queue[l]) : p \in Live /\ prio[p] = l /\ ~Held(p)

\* What a CPU holds is alive, has a valid priority, and is on no other CPU.
HeldOnce ==
  \A c \in Cpu : proc[c] # NULL =>
     /\ proc[c] \in Live
     /\ valid_mlq_prio(proc[c])
     /\ \A d \in Cpu : proc[d] = proc[c] => d = c

\* A live process is in exactly one place: once in the ready queue of its own
\* priority, or on one CPU.  Nothing else is in a queue or on a CPU, so no
\* process is lost, run by two CPUs, or touched after finish_proc().
OneHome ==
  /\ ReadyOnce
  /\ HeldOnce
  /\ \A p \in Live : Held(p) \/ Waiting(p)

\* "All processes are tracked in running_list from the moment they are loaded
\* until they finish": find_proc() finds exactly the live ones, and they fit.
Tracked ==
  /\ NoDuplicates(running_list)
  /\ Len(running_list) <= MAX_QUEUE_SIZE
  /\ \A p \in Proc : find_proc(p) = p <=> p \in Live

\* put_proc() never finds its ready queue full: a process on a CPU still
\* occupies a cell of running_list, which is no longer than a ready queue may be.
RequeueHasRoom ==
  \A c \in Cpu : proc[c] # NULL => HasRoom(mlq_ready_queue[prio[proc[c]]])

\* The simulation is given up only on loading: for a bad priority, or with
\* MAX_QUEUE_SIZE processes alive.
AbortOnlyOnLoad ==
  aborted => \/ Len(running_list) = MAX_QUEUE_SIZE
             \/ \E p \in Proc \ loaded : ~valid_mlq_prio(p)

\* The budgets of a round stay within what the round started with, and
\* get_mlq_proc() never leaves all of them spent.
BudgetsInRound ==
  /\ \A l \in Level : slot[l] \in 0 .. MAX_PRIO - l
  /\ \E l \in Level : slot[l] > 0

\* A new round never starts over the head of a waiting process: when budgets
\* are handed out again, every level with a process waiting has used up its
\* own, be it with this very dispatch.
RoundsAreFair ==
  [][(\E l \in Level : slot'[l] > slot[l]) =>
       \A l \in Level :
          ~empty(mlq_ready_queue[l]) =>
             \/ slot[l] = 0
             \/ slot[l] = 1 /\ Len(mlq_ready_queue'[l]) < Len(mlq_ready_queue[l])]_schedVars

\* No process waits forever in a ready queue, whatever its priority.
NoStarvation ==
  \A p \in Proc : Waiting(p) ~> (Held(p) \/ aborted)

\* The policy as the comment above get_mlq_proc() states it: "When all slots
\* across every level are exhausted we reset the slot counters".
ResetWhenAllExhausted ==
  [][(\E l \in Level : slot'[l] > slot[l]) =>
       \A l \in Level : slot[l] = 0 \/ (slot[l] = 1 /\ ~empty(mlq_ready_queue[l]))]_schedVars
============================================================================
