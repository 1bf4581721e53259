---------------------------- MODULE SchedBypass ----------------------------
(***************************************************************************)
(* How long can a ready process be passed over?  Sched with a history      *)
(* variable that counts, for each level, the dispatches made from other    *)
(* levels since that level last got one or had nobody waiting.             *)
(***************************************************************************)
EXTENDS Sched, FiniteSets

VARIABLES bypass

bypassVars == <<schedVars, bypass>>

\* The level this step dispatched a process from, if any.
DispatchedFrom(l) ==
  \E c \in Cpu : proc[c] = NULL /\ proc'[c] # NULL /\ prio[proc'[c]] = l

CountBypass ==
  bypass' = [l \in Level |->
               IF empty(mlq_ready_queue'[l]) \/ DispatchedFrom(l) THEN 0
               ELSE IF \E m \in Level : DispatchedFrom(m) THEN bypass[l] + 1
               ELSE bypass[l]]

BypassInit == init_scheduler /\ bypass = [l \in Level |-> 0]

BypassNext == SchedNext /\ CountBypass

BypassSpec == BypassInit /\ [][BypassNext]_bypassVars

BypassFairSpec == BypassSpec /\ SchedFairness

\* The dispatches that budgets s leave to the levels in S: of each level the
\* first, the second and so on.
Dispatches(s, S) == {x \in S \X (1 .. MAX_PRIO) : x[2] <= s[x[1]]}

RoundShare(S) == Cardinality(Dispatches(FullRound, S))

\* What the other levels have of a round, and the higher ones of the next.
BypassBound == [l \in Level |-> RoundShare(Level \ {l}) + RoundShare(0 .. l - 1)]

\* A waiting level is passed over at most once for every dispatch the other
\* levels have in the rest of the current round, and then for those the higher
\* levels have in the next: the weights of get_mlq_proc() bound the wait, for
\* every arrival order and every number of CPUs.
BoundedBypass == \A l \in Level : bypass[l] <= BypassBound[l]
============================================================================
