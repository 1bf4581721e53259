------------------------------ MODULE PageMap ------------------------------
(***************************************************************************)
(* What the page tables of mm64.c promise: a process has one entry for     *)
(* each page of user space, all processes share one for each page of       *)
(* kernel space, and writing some of them changes no other.  Module Paging *)
(* relies on it.                                                           *)
(***************************************************************************)
EXTENDS Integers

CONSTANTS
  Proc,        \* processes
  UserPage,    \* numbers of user pages
  KernelPage,  \* numbers of kernel pages
  Entry,       \* values stored for user pages
  KernelEntry  \* value stored for each kernel page

VARIABLES
  user,        \* entry of each user page of each process, 0 at first
  kern         \* entry of each kernel page

Init ==
  /\ user = [p \in Proc |-> [g \in UserPage |-> 0]]
  /\ kern = [g \in KernelPage |-> 0]

\* The pages from first to last get the entries val, and the others keep theirs.
Filled(old, new, first, last, val) ==
  \A g \in DOMAIN old : new[g] = IF g \in first .. last THEN val[g] ELSE old[g]

\* Process p writes one value to some pages in a row.
SetUser(p, old, new) ==
  /\ \A q \in Proc \ {p} : new[q] = old[q]
  /\ \E first, last \in UserPage, v \in Entry :
       Filled(old[p], new[p], first, last, [g \in UserPage |-> v])

\* Process p ends.
Clear(p, old, new) ==
  /\ \A q \in Proc \ {p} : new[q] = old[q]
  /\ \A g \in UserPage : new[p][g] = 0

\* Some kernel pages in a row are mapped to their frames, or unmapped.
SetKernel(old, new) ==
  \E first, last \in KernelPage :
    \/ Filled(old, new, first, last, KernelEntry)
    \/ Filled(old, new, first, last, [g \in KernelPage |-> 0])

\* The maps before and after a step are named first, so that TLC evaluates them once.
Next ==
  \E u \in {user}, k \in {kern}, u2 \in {user'}, k2 \in {kern'} :
    \/ u2 = u /\ SetKernel(k, k2)
    \/ k2 = k /\ \E p \in Proc : SetUser(p, u, u2) \/ Clear(p, u, u2)

Spec == Init /\ [][Next]_<<user, kern>>
============================================================================
