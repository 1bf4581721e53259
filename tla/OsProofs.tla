------------------------------ MODULE OsProofs ------------------------------
(***************************************************************************)
(* Proofs about Sched, SchedBypass and OsSim, for every set of processes   *)
(* and CPUs, every number of priority levels and every queue capacity,     *)
(* every size of program, start time and quantum.  First the scheduler by  *)
(* itself, then the threads that call it.                                  *)
(***************************************************************************)
EXTENDS OsSim, SchedBypass, FiniteSetTheorems, TLAPS

(***************************************************************************)
(* The operations of queue.c on sequences without duplicates.              *)
(***************************************************************************)

\* enqueue() adds one element at the end and keeps the queue free of
\* duplicates if the element is new.
LEMMA EnqueueProperties ==
  ASSUME NEW S, NEW q \in Seq(S), NEW p \in S
  PROVE  /\ enqueue(q, p) \in Seq(S)
         /\ Len(enqueue(q, p)) = Len(q) + 1
         /\ Elements(enqueue(q, p)) = Elements(q) \cup {p}
         /\ NoDuplicates(q) /\ p \notin Elements(q) => NoDuplicates(enqueue(q, p))
<1> DEFINE e == enqueue(q, p)
<1>1. /\ e \in Seq(S) /\ Len(e) = Len(q) + 1
      /\ \A i \in 1 .. Len(q) : e[i] = q[i]
      /\ e[Len(q) + 1] = p
  BY DEF enqueue
<1>2. Elements(e) = Elements(q) \cup {p}
  <2>1. 1 .. Len(e) = (1 .. Len(q)) \cup {Len(q) + 1}
    BY <1>1
  <2>2. QED  BY <1>1, <2>1 DEF Elements
<1>3. ASSUME NoDuplicates(q), p \notin Elements(q) PROVE NoDuplicates(e)
  BY <1>1, <1>3 DEF NoDuplicates, Elements
<1> QED  BY <1>1, <1>2, <1>3

\* The shift loop of queue.c and of finish_proc() removes one position.
LEMMA ShiftOutProperties ==
  ASSUME NEW S, NEW q \in Seq(S), NEW i \in 1 .. Len(q)
  PROVE  /\ ShiftOut(q, i) \in Seq(S)
         /\ Len(ShiftOut(q, i)) = Len(q) - 1
         /\ NoDuplicates(q) => /\ NoDuplicates(ShiftOut(q, i))
                               /\ Elements(ShiftOut(q, i)) = Elements(q) \ {q[i]}
<1> DEFINE s == ShiftOut(q, i)
<1>1. /\ Len(q) \in Nat /\ Len(q) - 1 \in Nat
      /\ \A j \in 1 .. Len(q) : q[j] \in S
  OBVIOUS
<1>2. s \in [1 .. Len(q) - 1 -> S]
  BY <1>1 DEF ShiftOut
<1>3. s \in Seq(S) /\ Len(s) = Len(q) - 1
  BY <1>1, <1>2
<1>4. \A j \in 1 .. Len(q) - 1 : s[j] = IF j < i THEN q[j] ELSE q[j + 1]
  BY DEF ShiftOut
<1>5. ASSUME NoDuplicates(q) PROVE NoDuplicates(s)
  <2> SUFFICES ASSUME NEW j \in 1 .. Len(q) - 1, NEW k \in 1 .. Len(q) - 1, s[j] = s[k]
               PROVE  j = k
    BY <1>3 DEF NoDuplicates
  <2> QED  BY <1>1, <1>4, <1>5 DEF NoDuplicates
<1>6. ASSUME NoDuplicates(q) PROVE Elements(s) = Elements(q) \ {q[i]}
  <2>1. ASSUME NEW j \in 1 .. Len(q) - 1 PROVE s[j] \in Elements(q) \ {q[i]}
    <3>1. CASE j < i
      BY <1>1, <1>4, <1>6, <3>1 DEF NoDuplicates, Elements
    <3>2. CASE ~(j < i)
      <4>1. s[j] = q[j + 1] /\ j + 1 \in 1 .. Len(q) /\ j + 1 # i
        BY <1>1, <1>4, <3>2
      <4>2. QED  BY <1>6, <4>1 DEF NoDuplicates, Elements
    <3> QED  BY <3>1, <3>2
  <2>2. ASSUME NEW k \in 1 .. Len(q), q[k] # q[i]
        PROVE  \E j \in 1 .. Len(q) - 1 : s[j] = q[k]
    <3>1. CASE k < i
      <4>1. k \in 1 .. Len(q) - 1 /\ s[k] = q[k]
        BY <1>1, <1>4, <3>1
      <4> QED  BY <4>1
    <3>2. CASE k > i
      <4>1. k - 1 \in 1 .. Len(q) - 1 /\ ~(k - 1 < i) /\ (k - 1) + 1 = k
        BY <1>1, <3>2
      <4>2. s[k - 1] = q[k]
        BY <1>4, <4>1
      <4> QED  BY <4>1, <4>2
    <3> QED  BY <2>2, <3>1, <3>2
  <2>3. Elements(s) = {s[j] : j \in 1 .. Len(q) - 1}
    BY <1>3 DEF Elements
  <2> HIDE DEF s
  <2>4. ASSUME NEW x \in Elements(s) PROVE x \in Elements(q) \ {q[i]}
    BY <2>1, <2>3
  <2>5. ASSUME NEW x \in Elements(q), x # q[i] PROVE x \in Elements(s)
    <3>1. PICK k \in 1 .. Len(q) : x = q[k]
      BY DEF Elements
    <3> QED  BY <2>2, <2>3, <2>5, <3>1
  <2> QED  BY <2>4, <2>5
<1> QED  BY <1>3, <1>5, <1>6

\* purgequeue() removes the one occurrence of p, or does nothing.
LEMMA PurgeProperties ==
  ASSUME NEW S, NEW q \in Seq(S), NEW p, NoDuplicates(q)
  PROVE  /\ purgequeue(q, p) \in Seq(S)
         /\ Len(purgequeue(q, p)) <= Len(q)
         /\ NoDuplicates(purgequeue(q, p))
         /\ Elements(purgequeue(q, p)) = Elements(q) \ {p}
<1>1. CASE p \notin Elements(q)
  BY <1>1 DEF purgequeue
<1>2. CASE p \in Elements(q)
  <2> DEFINE i == CHOOSE k \in 1 .. Len(q) : FirstAt(q, p, k)
  <2>1. PICK k \in 1 .. Len(q) : q[k] = p
    BY <1>2 DEF Elements
  <2>2. FirstAt(q, p, k)
    BY <2>1 DEF FirstAt, NoDuplicates
  <2>3. i \in 1 .. Len(q) /\ q[i] = p
    BY <2>2 DEF FirstAt
  <2>4. purgequeue(q, p) = ShiftOut(q, i)
    BY <1>2 DEF purgequeue
  <2> HIDE DEF i
  <2>5. /\ ShiftOut(q, i) \in Seq(S)
        /\ Len(ShiftOut(q, i)) = Len(q) - 1
        /\ NoDuplicates(ShiftOut(q, i))
        /\ Elements(ShiftOut(q, i)) = Elements(q) \ {q[i]}
    BY <2>3, ShiftOutProperties, SMTT(30)
  <2> QED  BY <2>3, <2>4, <2>5
<1> QED  BY <1>1, <1>2

-----------------------------------------------------------------------------
(***************************************************************************)
(* The invariant.  OneHome and Tracked support each other: a ready queue   *)
(* has room for a process that comes back because it and the process are   *)
(* part of running_list, and running_list shrinks by exactly the process   *)
(* that leaves because that process is nowhere else.                       *)
(***************************************************************************)
SchedInv == SchedTypeOK /\ OneHome /\ Tracked /\ BudgetsInRound

\* There is a level, each has a budget of at least one, and the priorities that
\* valid_mlq_prio() accepts are the levels.
LEMMA LevelProperties ==
  /\ Level \subseteq Nat
  /\ 0 \in Level
  /\ FullRound \in [Level -> Nat]
  /\ \A l \in Level : FullRound[l] \in 1 .. MAX_PRIO - l
  /\ \A p \in Proc : valid_mlq_prio(p) <=> prio[p] \in Level
BY SchedAssumption DEF Level, FullRound, valid_mlq_prio

\* running_list holds exactly the live processes.
LEMMA RunningListIsLive ==
  ASSUME SchedTypeOK, Tracked
  PROVE  Elements(running_list) = Live
<1>1. Elements(running_list) \subseteq Proc
  BY DEF SchedTypeOK, Elements
<1> QED
  BY <1>1, SchedAssumption DEF SchedTypeOK, Tracked, find_proc, Live

\* A queue without duplicates has as many elements as its size says.
LEMMA QueueCardinality ==
  ASSUME NEW S, NEW q \in Seq(S), NoDuplicates(q)
  PROVE  IsFiniteSet(Elements(q)) /\ Cardinality(Elements(q)) = Len(q)
<1>1. Len(q) \in Nat /\ q \in [1 .. Len(q) -> Elements(q)]
  BY DEF Elements
<1>2. q \in Bijection(1 .. Len(q), Elements(q))
  BY <1>1 DEF Bijection, Injection, Surjection, IsInjective, NoDuplicates, Elements
<1>3. ExistsBijection(1 .. Len(q), Elements(q))
  BY <1>2 DEF ExistsBijection
<1>4. IsFiniteSet(Elements(q))
  BY <1>1, <1>3, FS_NatBijection
<1> QED  BY <1>1, <1>3, <1>4, FS_CountingElements

\* A ready queue is no longer than the running list, and shorter if one of its
\* processes could still come back.
LEMMA QueueFitsRunningList ==
  ASSUME SchedTypeOK, OneHome, Tracked, NEW l \in Level
  PROVE  /\ Len(mlq_ready_queue[l]) <= Len(running_list)
         /\ \A p \in Live : p \notin Elements(mlq_ready_queue[l]) =>
               Len(mlq_ready_queue[l]) < Len(running_list)
<1> DEFINE q == mlq_ready_queue[l]
<1>1. q \in Seq(Proc) /\ running_list \in Seq(Proc)
  BY DEF SchedTypeOK
<1>2. NoDuplicates(q) /\ NoDuplicates(running_list) /\ Elements(q) \subseteq Live
  BY DEF OneHome, ReadyOnce, Tracked
<1>3. Elements(running_list) = Live
  BY RunningListIsLive
<1>4. /\ IsFiniteSet(Elements(q)) /\ Cardinality(Elements(q)) = Len(q)
      /\ IsFiniteSet(Live) /\ Cardinality(Live) = Len(running_list)
  <2>1. IsFiniteSet(Elements(q)) /\ Cardinality(Elements(q)) = Len(q)
    BY <1>1, <1>2, QueueCardinality
  <2>2. IsFiniteSet(Elements(running_list)) /\ Cardinality(Elements(running_list)) = Len(running_list)
    BY <1>1, <1>2, QueueCardinality
  <2> QED  BY <1>3, <2>1, <2>2
<1>5. Cardinality(Elements(q)) <= Cardinality(Live)
  BY <1>2, <1>4, FS_Subset
<1>6. ASSUME NEW p \in Live, p \notin Elements(q)
      PROVE  Cardinality(Elements(q)) < Cardinality(Live)
  <2>1. Elements(q) # Live
    BY <1>6
  <2> QED  BY <1>2, <1>4, <2>1, FS_Subset
<1> QED  BY <1>4, <1>5, <1>6

\* put_proc() never finds its ready queue full.
LEMMA RequeueRoom ==
  ASSUME SchedTypeOK, OneHome, Tracked
  PROVE  RequeueHasRoom
<1> SUFFICES ASSUME NEW c \in Cpu, proc[c] # NULL
             PROVE  HasRoom(mlq_ready_queue[prio[proc[c]]])
  BY DEF RequeueHasRoom
<1> DEFINE p == proc[c]
           q == mlq_ready_queue[prio[p]]
<1>1. p \in Live /\ p \in Proc /\ prio[p] \in Level
  BY LevelProperties DEF SchedTypeOK, OneHome, HeldOnce
<1>2. p \notin Elements(q)
  BY <1>1 DEF OneHome, ReadyOnce, Held
<1>3. Len(q) < Len(running_list) /\ q \in Seq(Proc) /\ running_list \in Seq(Proc)
  BY <1>1, <1>2, QueueFitsRunningList DEF SchedTypeOK
<1> QED  BY <1>3, QueueSizeAssumption DEF HasRoom, Tracked

\* init_scheduler() establishes the invariant.
LEMMA InitInv == init_scheduler => SchedInv
<1> SUFFICES ASSUME init_scheduler PROVE SchedInv
  OBVIOUS
<1> USE DEF init_scheduler
<1>1. \A l \in Level : mlq_ready_queue[l] = << >>
  OBVIOUS
<1>2. SchedTypeOK
  <2>1. << >> \in Seq(Proc)
    OBVIOUS
  <2> QED  BY <2>1, LevelProperties DEF SchedTypeOK
<1>3. \A q : q = << >> => NoDuplicates(q) /\ Elements(q) = {} /\ Len(q) = 0
  BY DEF NoDuplicates, Elements
<1>4. OneHome
  BY <1>1, <1>3 DEF OneHome, ReadyOnce, HeldOnce, Live
<1>5. Tracked
  BY <1>3, SchedAssumption, QueueSizeAssumption DEF Tracked, find_proc, Live
<1>6. BudgetsInRound
  <2>1. \A l \in Level : slot[l] \in 0 .. MAX_PRIO - l /\ slot[l] > 0
    BY LevelProperties, SchedAssumption DEF Level
  <2> QED  BY <2>1, LevelProperties DEF BudgetsInRound
<1> QED  BY <1>2, <1>4, <1>5, <1>6 DEF SchedInv

\* Whatever get_mlq_proc() does to the budgets keeps them within the round.
LEMMA BudgetsProperties ==
  ASSUME SchedTypeOK, BudgetsInRound
  PROVE  /\ Budgets \in [Level -> Nat]
         /\ \A l \in Level : Budgets[l] \in 0 .. MAX_PRIO - l
         /\ \E l \in Level : Budgets[l] > 0
<1>1. CASE Eligible(slot) = {}
  <2>1. \A l \in Level : FullRound[l] \in 0 .. MAX_PRIO - l /\ FullRound[l] > 0
    BY LevelProperties, SchedAssumption DEF Level
  <2> QED  BY <1>1, <2>1, LevelProperties DEF Budgets
<1>2. CASE Eligible(slot) # {}
  BY <1>2 DEF Budgets, SchedTypeOK, BudgetsInRound
<1> QED  BY <1>1, <1>2

\* The reset at the end of get_mlq_proc() keeps the budgets within the round.
LEMMA EndOfRoundProperties ==
  ASSUME NEW s \in [Level -> Nat], \A l \in Level : s[l] \in 0 .. MAX_PRIO - l
  PROVE  /\ EndOfRound(s) \in [Level -> Nat]
         /\ \A l \in Level : EndOfRound(s)[l] \in 0 .. MAX_PRIO - l
         /\ \E l \in Level : EndOfRound(s)[l] > 0
<1>1. CASE \A l \in Level : s[l] = 0
  <2>1. \A l \in Level : FullRound[l] \in 0 .. MAX_PRIO - l /\ FullRound[l] > 0
    BY LevelProperties, SchedAssumption DEF Level
  <2> QED  BY <1>1, <2>1, LevelProperties DEF EndOfRound
<1>2. CASE ~(\A l \in Level : s[l] = 0)
  <2>1. EndOfRound(s) = s
    BY <1>2 DEF EndOfRound
  <2>2. \E l \in Level : s[l] > 0
    BY <1>2
  <2> QED  BY <2>1, <2>2
<1> QED  BY <1>1, <1>2

(***************************************************************************)
(* One lemma per action: each keeps the invariant.                         *)
(***************************************************************************)

\* add_mlq_proc() that finds room.
LEMMA AddKeepsInv ==
  ASSUME SchedInv, NEW p \in Proc, p \notin loaded, add_mlq_proc(p),
         UNCHANGED <<slot, proc, finished>>
  PROVE  SchedInv'
<1> DEFINE l == prio[p]
           q == mlq_ready_queue[l]
<1>1. /\ l \in Level /\ q \in Seq(Proc) /\ running_list \in Seq(Proc)
      /\ p \notin Live /\ NULL # p
  BY LevelProperties, SchedAssumption DEF add_mlq_proc, SchedInv, SchedTypeOK, Live
<1>2. Elements(running_list) = Live
  BY RunningListIsLive DEF SchedInv
<1>3. p \notin Elements(q) /\ NoDuplicates(q)
  BY <1>1 DEF SchedInv, OneHome, ReadyOnce
<1>4. /\ enqueue(q, p) \in Seq(Proc)
      /\ Elements(enqueue(q, p)) = Elements(q) \cup {p}
      /\ NoDuplicates(enqueue(q, p))
  BY <1>1, <1>3, EnqueueProperties, ZenonT(30)
<1>5. /\ enqueue(running_list, p) \in Seq(Proc)
      /\ Len(enqueue(running_list, p)) = Len(running_list) + 1
      /\ Elements(enqueue(running_list, p)) = Live \cup {p}
      /\ NoDuplicates(enqueue(running_list, p))
  BY <1>1, <1>2, EnqueueProperties, ZenonT(30) DEF SchedInv, Tracked
<1>6. /\ mlq_ready_queue' = [mlq_ready_queue EXCEPT ![l] = enqueue(q, p)]
      /\ running_list' = enqueue(running_list, p)
      /\ loaded' = loaded \cup {p} /\ finished' = finished
      /\ slot' = slot /\ proc' = proc /\ aborted' = aborted
      /\ Len(running_list) < MAX_QUEUE_SIZE
  BY DEF add_mlq_proc, HasRoom
<1>7. Live' = Live \cup {p} /\ Live \subseteq Proc
  <2>1. p \notin finished /\ finished \subseteq loaded /\ loaded \subseteq Proc
    BY DEF SchedInv, SchedTypeOK
  <2> QED  BY <1>6, <2>1 DEF Live
<1>8. /\ mlq_ready_queue \in [Level -> Seq(Proc)]
      /\ mlq_ready_queue'[l] = enqueue(q, p)
      /\ \A m \in Level : m # l => mlq_ready_queue'[m] = mlq_ready_queue[m]
      /\ mlq_ready_queue' \in [Level -> Seq(Proc)]
  BY <1>1, <1>4, <1>6 DEF SchedInv, SchedTypeOK
<1> HIDE DEF l, q
<1>a. SchedTypeOK'
  BY <1>5, <1>6, <1>8 DEF SchedInv, SchedTypeOK
<1>b. ~Held(p) /\ \A x : Held(x)' <=> Held(x)
  BY <1>1, <1>6, SMTT(30) DEF SchedInv, OneHome, HeldOnce, Held
<1>c. ReadyOnce'
  <2> SUFFICES ASSUME NEW m \in Level
               PROVE  /\ NoDuplicates(mlq_ready_queue'[m])
                      /\ \A x \in Elements(mlq_ready_queue'[m]) :
                            x \in Live' /\ prio[x] = m /\ ~Held(x)'
    BY DEF ReadyOnce
  <2>1. CASE m = l
    BY <1>3, <1>4, <1>7, <1>8, <1>b, <2>1 DEF SchedInv, OneHome, ReadyOnce, l, q
  <2>2. CASE m # l
    BY <1>7, <1>8, <1>b, <2>2 DEF SchedInv, OneHome, ReadyOnce
  <2> QED  BY <2>1, <2>2
<1>d. HeldOnce'
  BY <1>6, <1>7 DEF SchedInv, OneHome, HeldOnce
<1>e. \A x \in Live' : Held(x)' \/ Waiting(x)'
  <2> SUFFICES ASSUME NEW x \in Live', ~Held(x) PROVE Waiting(x)'
    BY <1>b
  <2>1. CASE x = p
    BY <1>1, <1>4, <1>8, <2>1 DEF Waiting
  <2>2. CASE x # p
    <3>1. PICK m \in Level : x \in Elements(mlq_ready_queue[m])
      BY <1>7, <2>2 DEF SchedInv, OneHome, Waiting
    <3>2. x \in Elements(mlq_ready_queue'[m])
      BY <1>4, <1>8, <3>1, SMTT(30) DEF q
    <3> QED  BY <3>2 DEF Waiting
  <2> QED  BY <2>1, <2>2
<1>f. Tracked'
  <2>1. Len(running_list') <= MAX_QUEUE_SIZE
    BY <1>1, <1>5, <1>6, QueueSizeAssumption
  <2>2. \A x \in Proc : (find_proc(x) = x)' <=> x \in Live'
    BY <1>5, <1>6, <1>7, SchedAssumption DEF find_proc
  <2> QED  BY <1>5, <1>6, <2>1, <2>2 DEF Tracked
<1>g. BudgetsInRound'
  BY <1>6 DEF SchedInv, BudgetsInRound
<1> QED  BY <1>a, <1>c, <1>d, <1>e, <1>f, <1>g DEF SchedInv, OneHome

\* add_mlq_proc() that gives up.
LEMMA AddFailsKeepsInv ==
  ASSUME SchedInv, NEW p \in Proc, p \notin loaded, add_mlq_proc_fails(p),
         UNCHANGED <<slot, proc, finished>>
  PROVE  SchedInv'
<1>1. /\ UNCHANGED <<slot, running_list, proc, loaded, finished>>
      /\ aborted' = TRUE
  BY DEF add_mlq_proc_fails
<1>2. /\ mlq_ready_queue' \in [Level -> Seq(Proc)]
      /\ \A m \in Level : /\ NoDuplicates(mlq_ready_queue'[m])
                          /\ Elements(mlq_ready_queue'[m]) = Elements(mlq_ready_queue[m])
  <2>1. CASE valid_mlq_prio(p) /\ HasRoom(mlq_ready_queue[prio[p]])
    <3> DEFINE l == prio[p]
               q == mlq_ready_queue[l]
               r == purgequeue(enqueue(q, p), p)
    <3>1. l \in Level /\ q \in Seq(Proc) /\ p \notin Live
      BY <2>1, LevelProperties, ZenonT(30) DEF SchedInv, SchedTypeOK, Live
    <3>2. p \notin Elements(q) /\ NoDuplicates(q)
      BY <3>1, SMTT(30) DEF SchedInv, OneHome, ReadyOnce
    <3>3. /\ enqueue(q, p) \in Seq(Proc) /\ NoDuplicates(enqueue(q, p))
          /\ Elements(enqueue(q, p)) = Elements(q) \cup {p}
      BY <3>1, <3>2, EnqueueProperties, SMTT(30)
    <3>4. r \in Seq(Proc) /\ NoDuplicates(r) /\ Elements(r) = (Elements(q) \cup {p}) \ {p}
      BY <3>3, PurgeProperties
    <3>5. mlq_ready_queue' = [mlq_ready_queue EXCEPT ![l] = r]
      BY <2>1, SMTT(30) DEF add_mlq_proc_fails
    <3>6. Elements(r) = Elements(q)
      BY <3>2, <3>4
    <3> HIDE DEF r
    <3> QED  BY <3>1, <3>4, <3>5, <3>6 DEF SchedInv, SchedTypeOK, OneHome, ReadyOnce
  <2>2. CASE ~(valid_mlq_prio(p) /\ HasRoom(mlq_ready_queue[prio[p]]))
    <3>1. mlq_ready_queue' = mlq_ready_queue
      BY <2>2 DEF add_mlq_proc_fails
    <3> QED  BY <3>1 DEF SchedInv, SchedTypeOK, OneHome, ReadyOnce
  <2> QED  BY <2>1, <2>2
<1>3. Live' = Live /\ \A x : Held(x)' <=> Held(x)
  BY <1>1 DEF Live, Held
<1>4. SchedTypeOK'
  BY <1>1, <1>2, SMTT(30) DEF SchedInv, SchedTypeOK
<1>5. ReadyOnce' /\ \A x : Waiting(x)' <=> Waiting(x)
  BY <1>2, <1>3 DEF SchedInv, OneHome, ReadyOnce, Waiting
<1>6. HeldOnce'
  BY <1>1, <1>3 DEF SchedInv, OneHome, HeldOnce
<1>7. Tracked' /\ BudgetsInRound'
  BY <1>1, <1>3 DEF SchedInv, Tracked, find_proc, BudgetsInRound
<1> QED  BY <1>3, <1>4, <1>5, <1>6, <1>7 DEF SchedInv, OneHome

\* get_mlq_proc() that finds a process.
LEMMA GetKeepsInv ==
  ASSUME SchedInv, NEW c \in Cpu, proc[c] = NULL, get_mlq_proc(c)
  PROVE  SchedInv'
<1>1. PICK l \in Eligible(Budgets) :
        /\ proc' = [proc EXCEPT ![c] = Front(mlq_ready_queue[l])]
        /\ mlq_ready_queue' = [mlq_ready_queue EXCEPT ![l] = dequeue(mlq_ready_queue[l])]
        /\ slot' = EndOfRound([Budgets EXCEPT ![l] = Budgets[l] - 1])
        /\ UNCHANGED <<running_list, loaded, finished, aborted>>
  BY ZenonT(30) DEF get_mlq_proc
<1> DEFINE q == mlq_ready_queue[l]
           p == Front(q)
<1>2. l \in Level /\ q \in Seq(Proc) /\ 1 \in 1 .. Len(q) /\ Budgets[l] > 0 /\ p \in Elements(q)
  BY SMTT(30) DEF Eligible, empty, SchedInv, SchedTypeOK, Elements, Front
<1>3. /\ dequeue(q) \in Seq(Proc) /\ NoDuplicates(dequeue(q))
      /\ Elements(dequeue(q)) = Elements(q) \ {p}
  BY <1>2, ShiftOutProperties, SMTT(30) DEF dequeue, Front, SchedInv, OneHome, ReadyOnce
<1>4. p \in Live /\ p \in Proc /\ p # NULL /\ prio[p] = l /\ ~Held(p)
  BY <1>2, SchedAssumption DEF SchedInv, SchedTypeOK, OneHome, ReadyOnce, Live
<1>5. /\ mlq_ready_queue' \in [Level -> Seq(Proc)]
      /\ mlq_ready_queue'[l] = dequeue(q)
      /\ \A m \in Level : m # l => mlq_ready_queue'[m] = mlq_ready_queue[m]
  BY <1>1, <1>2, <1>3 DEF SchedInv, SchedTypeOK
<1>6. /\ proc' \in [Cpu -> Proc \cup {NULL}]
      /\ proc'[c] = p
      /\ \A d \in Cpu : d # c => proc'[d] = proc[d]
  BY <1>1, <1>4 DEF SchedInv, SchedTypeOK
<1>7. Live' = Live
  BY <1>1 DEF Live
<1>8. slot' \in [Level -> Nat] /\ BudgetsInRound'
  <2> DEFINE s == [Budgets EXCEPT ![l] = Budgets[l] - 1]
  <2>1. Budgets \in [Level -> Nat] /\ \A m \in Level : Budgets[m] \in 0 .. MAX_PRIO - m
    BY BudgetsProperties DEF SchedInv
  <2>2. s \in [Level -> Nat] /\ \A m \in Level : s[m] \in 0 .. MAX_PRIO - m
    BY <1>2, <2>1, LevelProperties, SchedAssumption, SMTT(30)
  <2>3. slot' = EndOfRound(s)
    BY <1>1
  <2> HIDE DEF s
  <2> QED  BY <2>2, <2>3, EndOfRoundProperties DEF BudgetsInRound
<1> HIDE DEF q, p
<1>a. SchedTypeOK'
  BY <1>1, <1>5, <1>6, <1>8, ZenonT(30) DEF SchedInv, SchedTypeOK
<1>b. \A x : x # NULL => (Held(x)' <=> Held(x) \/ x = p)
  BY <1>4, <1>6, SMTT(30) DEF Held
<1>c. ReadyOnce'
  <2> SUFFICES ASSUME NEW m \in Level
               PROVE  /\ NoDuplicates(mlq_ready_queue'[m])
                      /\ \A x \in Elements(mlq_ready_queue'[m]) :
                            x \in Live' /\ prio[x] = m /\ ~Held(x)'
    BY DEF ReadyOnce
  <2>0. NULL \notin Live
    BY SchedAssumption, SMTT(30) DEF SchedInv, SchedTypeOK, Live
  <2>1. CASE m = l
    <3>1. \A x \in Elements(q) : x \in Live /\ prio[x] = l /\ ~Held(x)
      BY <1>2 DEF SchedInv, OneHome, ReadyOnce, q
    <3> QED  BY <1>3, <1>5, <1>7, <1>b, <2>0, <2>1, <3>1, SMTT(30)
  <2>2. CASE m # l
    <3>1. /\ NoDuplicates(mlq_ready_queue[m])
          /\ \A x \in Elements(mlq_ready_queue[m]) : x \in Live /\ prio[x] = m /\ ~Held(x)
      BY DEF SchedInv, OneHome, ReadyOnce
    <3>2. mlq_ready_queue'[m] = mlq_ready_queue[m]
      BY <1>5, <2>2
    <3>3. \A x \in Elements(mlq_ready_queue[m]) : x # p /\ x # NULL
      BY <1>4, <2>0, <2>2, <3>1, ZenonT(30)
    <3> QED  BY <1>7, <1>b, <3>1, <3>2, <3>3, SMTT(30)
  <2> QED  BY <2>1, <2>2
<1>d. HeldOnce'
  <2> SUFFICES ASSUME NEW d \in Cpu, proc'[d] # NULL
               PROVE  /\ proc'[d] \in Live' /\ valid_mlq_prio(proc'[d])
                      /\ \A e \in Cpu : proc'[e] = proc'[d] => e = d
    BY DEF HeldOnce
  <2>1. CASE d = c
    BY <1>2, <1>4, <1>6, <1>7, <2>1, LevelProperties, SMTT(30) DEF Held
  <2>2. CASE d # c
    BY <1>4, <1>6, <1>7, <2>2 DEF SchedInv, OneHome, HeldOnce, Held
  <2> QED  BY <2>1, <2>2
<1>e. \A x \in Live' : Held(x)' \/ Waiting(x)'
  <2> SUFFICES ASSUME NEW x \in Live, x # p, ~Held(x) PROVE Waiting(x)'
    BY <1>7, <1>b, SchedAssumption DEF SchedInv, SchedTypeOK, Live
  <2>1. PICK m \in Level : x \in Elements(mlq_ready_queue[m])
    BY DEF SchedInv, OneHome, Waiting
  <2>2. x \in Elements(mlq_ready_queue'[m])
    BY <1>3, <1>5, <2>1 DEF q
  <2> QED  BY <2>2 DEF Waiting
<1>f. Tracked'
  BY <1>1, <1>7 DEF SchedInv, Tracked, find_proc
<1> QED  BY <1>8, <1>a, <1>c, <1>d, <1>e, <1>f DEF SchedInv, OneHome

\* get_mlq_proc() that finds none.
LEMMA GetNoneKeepsInv ==
  ASSUME SchedInv, NEW c \in Cpu, proc[c] = NULL, get_mlq_proc_none(c)
  PROVE  SchedInv'
<1>1. UNCHANGED <<mlq_ready_queue, running_list, proc, loaded, finished, aborted>>
  BY DEF get_mlq_proc_none, SchedInv, SchedTypeOK
<1>2. slot' \in [Level -> Nat] /\ BudgetsInRound'
  <2>1. slot' = EndOfRound(Budgets)
    BY DEF get_mlq_proc_none
  <2> QED  BY <2>1, BudgetsProperties, EndOfRoundProperties DEF SchedInv, BudgetsInRound
<1>3. Live' = Live /\ \A x : (Held(x)' <=> Held(x)) /\ (Waiting(x)' <=> Waiting(x))
  BY <1>1, SMTT(30) DEF Live, Held, Waiting
<1>4. OneHome'
  BY <1>1, <1>3 DEF SchedInv, OneHome, ReadyOnce, HeldOnce
<1>5. SchedTypeOK'
  BY <1>1, <1>2, SMTT(30) DEF SchedInv, SchedTypeOK
<1>6. Tracked'
  BY <1>1, <1>3 DEF SchedInv, Tracked, find_proc
<1> QED  BY <1>2, <1>4, <1>5, <1>6 DEF SchedInv

\* With proc[c] taken off CPU c, the other CPUs hold what they held.
LEMMA ReleaseCpu ==
  ASSUME SchedInv, NEW c \in Cpu, proc[c] # NULL,
         proc' = [proc EXCEPT ![c] = NULL]
  PROVE  /\ proc' \in [Cpu -> Proc \cup {NULL}]
         /\ proc'[c] = NULL
         /\ \A d \in Cpu : d # c => proc'[d] = proc[d] /\ proc[d] # proc[c]
         /\ \A x : x # NULL => (Held(x)' <=> Held(x) /\ x # proc[c])
<1>1. proc \in [Cpu -> Proc \cup {NULL}] /\ \A d \in Cpu : proc[d] = proc[c] => d = c
  BY DEF SchedInv, SchedTypeOK, OneHome, HeldOnce
<1> QED  BY <1>1 DEF Held

\* put_mlq_proc()
LEMMA PutKeepsInv ==
  ASSUME SchedInv, NEW c \in Cpu, put_proc(c)
  PROVE  SchedInv'
<1> DEFINE p == proc[c]
           l == prio[p]
           q == mlq_ready_queue[l]
<1>1. p # NULL /\ p \in Live /\ p \in Proc /\ valid_mlq_prio(p) /\ l \in Level
  BY LevelProperties DEF put_proc, SchedInv, SchedTypeOK, OneHome, HeldOnce
<1>2. q \in Seq(Proc) /\ NoDuplicates(q) /\ p \notin Elements(q)
  BY <1>1 DEF SchedInv, SchedTypeOK, OneHome, ReadyOnce, Held
<1>3. HasRoom(q)
  BY <1>1, RequeueRoom, SMTT(30) DEF RequeueHasRoom, SchedInv
<1>4. /\ mlq_ready_queue' = [mlq_ready_queue EXCEPT ![l] = enqueue(q, p)]
      /\ proc' = [proc EXCEPT ![c] = NULL]
      /\ UNCHANGED <<slot, running_list, loaded, finished, aborted>>
  BY <1>1, <1>3 DEF put_proc
<1>5. /\ enqueue(q, p) \in Seq(Proc) /\ NoDuplicates(enqueue(q, p))
      /\ Elements(enqueue(q, p)) = Elements(q) \cup {p}
  <2> HIDE DEF p, q
  <2> QED  BY <1>1, <1>2, EnqueueProperties, SMTT(30)
<1>6. /\ mlq_ready_queue' \in [Level -> Seq(Proc)]
      /\ mlq_ready_queue'[l] = enqueue(q, p)
      /\ \A m \in Level : m # l => mlq_ready_queue'[m] = mlq_ready_queue[m]
  BY <1>1, <1>4, <1>5 DEF SchedInv, SchedTypeOK
<1>7. /\ proc' \in [Cpu -> Proc \cup {NULL}]
      /\ proc'[c] = NULL
      /\ \A d \in Cpu : d # c => proc'[d] = proc[d] /\ proc[d] # p
      /\ \A x : x # NULL => (Held(x)' <=> Held(x) /\ x # p)
  <2>1. proc[c] # NULL /\ proc' = [proc EXCEPT ![c] = NULL]
    BY <1>1, <1>4
  <2> QED  BY <2>1, ReleaseCpu, ZenonT(30)
<1>8. Live' = Live /\ NULL \notin Live
  BY <1>4, SchedAssumption, SMTT(30) DEF Live, SchedInv, SchedTypeOK
<1> HIDE DEF p, l, q
<1>a. SchedTypeOK'
  BY <1>4, <1>6, <1>7, SMTT(30) DEF SchedInv, SchedTypeOK
<1>b. ReadyOnce'
  <2> SUFFICES ASSUME NEW m \in Level
               PROVE  /\ NoDuplicates(mlq_ready_queue'[m])
                      /\ \A x \in Elements(mlq_ready_queue'[m]) :
                            x \in Live' /\ prio[x] = m /\ ~Held(x)'
    BY DEF ReadyOnce
  <2>1. /\ NoDuplicates(mlq_ready_queue[m])
        /\ \A x \in Elements(mlq_ready_queue[m]) : x \in Live /\ prio[x] = m /\ ~Held(x)
    BY SMTT(30) DEF SchedInv, OneHome, ReadyOnce
  <2>2. CASE m = l
    BY <1>1, <1>5, <1>6, <1>7, <1>8, <2>1, <2>2, SMTT(30) DEF q, l
  <2>3. CASE m # l
    BY <1>6, <1>7, <1>8, <2>1, <2>3
  <2> QED  BY <2>2, <2>3, SMTT(30)
<1>c. HeldOnce'
  BY <1>7, <1>8 DEF SchedInv, OneHome, HeldOnce
<1>d. \A x \in Live' : Held(x)' \/ Waiting(x)'
  <2> SUFFICES ASSUME NEW x \in Live, ~Held(x)' PROVE Waiting(x)'
    BY <1>8
  <2>1. CASE x = p
    BY <1>1, <1>5, <1>6, <2>1 DEF Waiting
  <2>2. CASE x # p
    <3>1. PICK m \in Level : x \in Elements(mlq_ready_queue[m])
      BY <1>7, <1>8, <2>2 DEF SchedInv, OneHome, Waiting
    <3>2. x \in Elements(mlq_ready_queue'[m])
      BY <1>5, <1>6, <3>1 DEF q
    <3> QED  BY <3>2 DEF Waiting
  <2> QED  BY <2>1, <2>2
<1>e. Tracked' /\ BudgetsInRound'
  BY <1>4, <1>8 DEF SchedInv, Tracked, find_proc, BudgetsInRound
<1> QED  BY <1>a, <1>b, <1>c, <1>d, <1>e, SMTT(30) DEF SchedInv, OneHome

\* finish_proc()
LEMMA FinishKeepsInv ==
  ASSUME SchedInv, NEW c \in Cpu, finish_proc(c)
  PROVE  SchedInv'
<1> DEFINE p == proc[c]
<1>1. p # NULL /\ p \in Live /\ p \in Proc
  BY DEF finish_proc, SchedInv, SchedTypeOK, OneHome, HeldOnce
<1>2. /\ running_list' = purgequeue(running_list, p)
      /\ finished' = finished \cup {p}
      /\ proc' = [proc EXCEPT ![c] = NULL]
      /\ UNCHANGED <<mlq_ready_queue, slot, loaded, aborted>>
  BY DEF finish_proc
<1>3. Elements(running_list) = Live /\ running_list \in Seq(Proc) /\ NoDuplicates(running_list)
  BY RunningListIsLive DEF SchedInv, SchedTypeOK, Tracked
<1>4. /\ running_list' \in Seq(Proc) /\ Len(running_list') <= Len(running_list)
      /\ NoDuplicates(running_list')
      /\ Elements(running_list') = Live \ {p}
  BY <1>2, <1>3, PurgeProperties
<1>5. Live' = Live \ {p} /\ NULL \notin Live
  BY <1>2, SchedAssumption DEF Live, SchedInv, SchedTypeOK
<1>6. /\ proc' \in [Cpu -> Proc \cup {NULL}]
      /\ proc'[c] = NULL
      /\ \A d \in Cpu : d # c => proc'[d] = proc[d] /\ proc[d] # p
      /\ \A x : x # NULL => (Held(x)' <=> Held(x) /\ x # p)
  BY <1>1, <1>2, ReleaseCpu, ZenonT(30)
<1>7. Held(p)
  BY DEF Held
<1> HIDE DEF p
<1>a. SchedTypeOK'
  <2>1. finished' \subseteq loaded'
    BY <1>1, <1>2, SMTT(30) DEF SchedInv, SchedTypeOK, Live
  <2> QED  BY <1>2, <1>4, <1>6, <2>1 DEF SchedInv, SchedTypeOK
<1>b. ReadyOnce'
  BY <1>2, <1>5, <1>6, <1>7, SMTT(30) DEF SchedInv, OneHome, ReadyOnce
<1>c. HeldOnce'
  BY <1>5, <1>6 DEF SchedInv, OneHome, HeldOnce
<1>d. \A x \in Live' : Held(x)' \/ Waiting(x)'
  BY <1>2, <1>5, <1>6 DEF SchedInv, OneHome, Waiting
<1>e. Tracked'
  <2>1. Len(running_list') <= MAX_QUEUE_SIZE
    BY <1>3, <1>4, QueueSizeAssumption DEF SchedInv, Tracked
  <2>2. \A x \in Proc : (find_proc(x) = x)' <=> x \in Live'
    BY <1>4, <1>5, SchedAssumption DEF find_proc
  <2> QED  BY <1>4, <2>1, <2>2 DEF Tracked
<1>f. BudgetsInRound'
  BY <1>2 DEF SchedInv, BudgetsInRound
<1> QED  BY <1>a, <1>b, <1>c, <1>d, <1>e, <1>f, SMTT(30) DEF SchedInv, OneHome

(***************************************************************************)
(* The theorems.                                                           *)
(***************************************************************************)

\* Every step of the scheduler keeps the invariant.
LEMMA StepKeepsInv == SchedInv /\ [SchedNext]_schedVars => SchedInv'
<1> SUFFICES ASSUME SchedInv, [SchedNext]_schedVars PROVE SchedInv'
  OBVIOUS
<1>1. ASSUME NEW p \in Proc, add_proc(p) PROVE SchedInv'
  BY <1>1, AddKeepsInv, AddFailsKeepsInv DEF add_proc
<1>2. ASSUME NEW c \in Cpu, get_proc_idle(c) PROVE SchedInv'
  BY <1>2, GetKeepsInv, GetNoneKeepsInv DEF get_proc_idle, get_proc
<1>3. ASSUME NEW c \in Cpu, put_proc(c) PROVE SchedInv'
  BY <1>3, PutKeepsInv
<1>4. ASSUME NEW c \in Cpu, finish_proc(c) PROVE SchedInv'
  BY <1>4, FinishKeepsInv, SMTT(30)
<1>5. CASE UNCHANGED schedVars
  BY <1>5 DEF schedVars, SchedInv, SchedTypeOK, OneHome, ReadyOnce, HeldOnce, Held, Waiting,
              Live, Tracked, find_proc, BudgetsInRound
<1> QED  BY <1>1, <1>2, <1>3, <1>4, <1>5 DEF SchedNext

\* The inductive invariant holds in every reachable state, for every number of
\* processes, CPUs and levels and every queue size.
THEOREM SchedInvariant == SchedSpec => []SchedInv
<1> QED  BY InitInv, StepKeepsInv, PTL DEF SchedSpec

\* Type correctness of the scheduler's state.
THEOREM TypeCorrect == SchedSpec => []SchedTypeOK
<1>1. SchedInv => SchedTypeOK
  BY DEF SchedInv
<1> QED  BY <1>1, SchedInvariant, PTL

\* get_proc(), put_proc(), add_proc() and finish_proc(), called by any number of
\* CPUs and the loader in any order, never lose a process and never give one to
\* two CPUs.
THEOREM NoProcessLostOrShared == SchedSpec => []OneHome
<1>1. SchedInv => OneHome
  BY DEF SchedInv
<1> QED  BY <1>1, SchedInvariant, PTL

\* find_proc() finds exactly the processes between their add_proc() and their
\* finish_proc().
THEOREM FindsTheLiving == SchedSpec => []Tracked
<1>1. SchedInv => Tracked
  BY DEF SchedInv
<1> QED  BY <1>1, SchedInvariant, PTL

\* The call to exit() in put_mlq_proc() for a full queue is unreachable.
THEOREM RequeueNeverFails == SchedSpec => []RequeueHasRoom
<1>1. SchedInv => RequeueHasRoom
  BY RequeueRoom DEF SchedInv
<1> QED  BY <1>1, SchedInvariant, PTL

\* The budgets handed out by get_mlq_proc() stay within the round.
THEOREM BudgetsStayInRound == SchedSpec => []BudgetsInRound
<1>1. SchedInv => BudgetsInRound
  BY DEF SchedInv
<1> QED  BY <1>1, SchedInvariant, PTL

\* The simulator gives up only while loading, for a bad priority or with
\* MAX_QUEUE_SIZE processes alive.
THEOREM AbortsOnlyOnLoad == SchedSpec => []AbortOnlyOnLoad
<1>1. init_scheduler => AbortOnlyOnLoad
  BY DEF init_scheduler, AbortOnlyOnLoad
<1>2. SchedInv /\ AbortOnlyOnLoad /\ [SchedNext]_schedVars => AbortOnlyOnLoad'
  <2> SUFFICES ASSUME SchedInv, AbortOnlyOnLoad, [SchedNext]_schedVars PROVE AbortOnlyOnLoad'
    OBVIOUS
  <2>1. ASSUME NEW p \in Proc, add_proc(p) PROVE AbortOnlyOnLoad'
    <3>1. CASE add_mlq_proc(p)
      BY <2>1, <3>1 DEF add_proc, add_mlq_proc, AbortOnlyOnLoad
    <3>2. CASE add_mlq_proc_fails(p)
      <4>1. p \notin loaded /\ loaded' = loaded /\ running_list' = running_list
        BY <2>1, <3>2 DEF add_proc, add_mlq_proc_fails
      <4>2. CASE ~valid_mlq_prio(p)
        BY <4>1, <4>2 DEF AbortOnlyOnLoad
      <4>3. CASE valid_mlq_prio(p) /\ ~HasRoom(running_list)
        <5>1. Len(running_list) \in Nat /\ Len(running_list) = MAX_QUEUE_SIZE
          BY <4>3, QueueSizeAssumption DEF HasRoom, SchedInv, SchedTypeOK, Tracked
        <5> QED  BY <4>1, <5>1 DEF AbortOnlyOnLoad
      <4>4. CASE valid_mlq_prio(p) /\ ~HasRoom(mlq_ready_queue[prio[p]])
        <5>1. prio[p] \in Level
          BY <4>4, LevelProperties, SMTT(30)
        <5>2. Len(mlq_ready_queue[prio[p]]) <= Len(running_list)
          BY <5>1, QueueFitsRunningList DEF SchedInv
        <5>3. Len(mlq_ready_queue[prio[p]]) \in Nat /\ Len(running_list) \in Nat
          BY <5>1 DEF SchedInv, SchedTypeOK
        <5>4. Len(running_list) = MAX_QUEUE_SIZE
          BY <4>4, <5>2, <5>3, QueueSizeAssumption DEF HasRoom, SchedInv, Tracked
        <5> QED  BY <4>1, <5>4 DEF AbortOnlyOnLoad
      <4> QED  BY <3>2, <4>2, <4>3, <4>4, SMTT(30) DEF add_mlq_proc_fails
    <3> QED  BY <2>1, <3>1, <3>2, SMTT(30) DEF add_proc
  <2>2. ASSUME NEW c \in Cpu, get_proc_idle(c) PROVE AbortOnlyOnLoad'
    BY <2>2, ZenonT(30) DEF get_proc_idle, get_proc, get_mlq_proc, get_mlq_proc_none, AbortOnlyOnLoad
  <2>3. ASSUME NEW c \in Cpu, put_proc(c) PROVE AbortOnlyOnLoad'
    <3>1. proc[c] # NULL /\ valid_mlq_prio(proc[c]) /\ HasRoom(mlq_ready_queue[prio[proc[c]]])
      BY <2>3, RequeueRoom DEF put_proc, RequeueHasRoom, SchedInv, OneHome, HeldOnce
    <3> QED  BY <2>3, <3>1, ZenonT(30) DEF put_proc, AbortOnlyOnLoad
  <2>4. ASSUME NEW c \in Cpu, finish_proc(c) PROVE AbortOnlyOnLoad'
    BY <2>4 DEF finish_proc, AbortOnlyOnLoad
  <2>5. CASE UNCHANGED schedVars
    BY <2>5 DEF schedVars, AbortOnlyOnLoad
  <2> QED  BY <2>1, <2>2, <2>3, <2>4, <2>5 DEF SchedNext
<1> QED  BY <1>1, <1>2, SchedInvariant, PTL DEF SchedSpec

\* A new round never starts while a level that has a process waiting still has
\* budget: whatever the arrivals, every waiting level has been served as often
\* as its weight says.
THEOREM NewRoundsAreFair == SchedSpec => RoundsAreFair
<1> DEFINE Raised == \E l \in Level : slot'[l] > slot[l]
           Served == \A l \in Level : ~empty(mlq_ready_queue[l]) =>
                        \/ slot[l] = 0
                        \/ slot[l] = 1 /\ Len(mlq_ready_queue'[l]) < Len(mlq_ready_queue[l])
<1>1. SchedInv /\ [SchedNext]_schedVars => [Raised => Served]_schedVars
  <2> SUFFICES ASSUME SchedInv, SchedNext, Raised PROVE Served
    OBVIOUS
  <2>0. slot \in [Level -> Nat]
    BY DEF SchedInv, SchedTypeOK
  <2>1. ASSUME slot' = slot PROVE FALSE
    BY <2>0, <2>1
  <2>2. ASSUME Eligible(slot) = {} PROVE Served
    BY <2>0, <2>2 DEF Eligible
  <2>3. ASSUME NEW c \in Cpu, get_mlq_proc(c), Eligible(slot) # {} PROVE Served
    <3>1. PICK l \in Eligible(slot) :
            /\ mlq_ready_queue' = [mlq_ready_queue EXCEPT ![l] = dequeue(mlq_ready_queue[l])]
            /\ slot' = EndOfRound([slot EXCEPT ![l] = slot[l] - 1])
      BY <2>3, ZenonT(30) DEF get_mlq_proc, Budgets
    <3> DEFINE s == [slot EXCEPT ![l] = slot[l] - 1]
    <3>2. l \in Level /\ slot[l] > 0 /\ mlq_ready_queue[l] \in Seq(Proc) /\ ~empty(mlq_ready_queue[l])
      BY DEF Eligible, SchedInv, SchedTypeOK
    <3>3. \A m \in Level : s[m] = 0
      <4>1. SUFFICES ASSUME ~(\A m \in Level : s[m] = 0) PROVE FALSE
        OBVIOUS
      <4>2. slot' = s
        BY <3>1, <4>1 DEF EndOfRound
      <4> QED  BY <2>0, <3>2, <4>2
    <3>4. slot[l] = 1 /\ \A m \in Level : m # l => slot[m] = 0
      BY <2>0, <3>2, <3>3, SMTT(30)
    <3>5. Len(mlq_ready_queue'[l]) < Len(mlq_ready_queue[l])
      <4>1. 1 \in 1 .. Len(mlq_ready_queue[l])
        BY <3>2, SMTT(30) DEF empty
      <4>2. Len(dequeue(mlq_ready_queue[l])) = Len(mlq_ready_queue[l]) - 1
        BY <3>2, <4>1, ShiftOutProperties, SMTT(30) DEF dequeue
      <4>3. mlq_ready_queue'[l] = dequeue(mlq_ready_queue[l])
        BY <3>1, <3>2, SMTT(30) DEF SchedInv, SchedTypeOK
      <4> QED  BY <3>2, <4>2, <4>3
    <3> QED  BY <3>4, <3>5
  <2>4. ASSUME NEW c \in Cpu, get_mlq_proc_none(c), Eligible(slot) # {} PROVE FALSE
    BY <2>4 DEF get_mlq_proc_none, Budgets
  <2>5. ASSUME NEW p \in Proc, add_proc(p) PROVE slot' = slot
    BY <2>5, SMTT(30) DEF add_proc
  <2>6. ASSUME NEW c \in Cpu, put_proc(c) \/ finish_proc(c) PROVE slot' = slot
    BY <2>6 DEF put_proc, finish_proc
  <2> HIDE DEF Raised, Served
  <2>7. ASSUME NEW c \in Cpu, get_proc_idle(c) PROVE Served
    BY <2>2, <2>3, <2>4, <2>7, ZenonT(30) DEF get_proc_idle, get_proc
  <2>8. ASSUME slot' = slot PROVE Served
    BY <2>1, <2>8, ZenonT(30)
  <2> QED  BY <2>5, <2>6, <2>7, <2>8, ZenonT(30) DEF SchedNext
<1> QED
  BY <1>1, SchedInvariant, PTL DEF SchedSpec, RoundsAreFair

-----------------------------------------------------------------------------
(***************************************************************************)
(* The wait.  A level that has budget is passed over for higher levels     *)
(* only, and each time one of them spends a dispatch of the round.  A      *)
(* level that has none waits for the others to spend theirs, and then is   *)
(* in the first case with a fresh round.                                   *)
(***************************************************************************)
Left(s, S) == Cardinality(Dispatches(s, S))

InRound(s) == s \in [Level -> Nat] /\ \A l \in Level : s[l] \in 0 .. MAX_PRIO - l

\* Level l has been passed over b times, and s is what is left of the round.
WaitBound(s, b, l) ==
  IF s[l] > 0 THEN b + Left(s, 0 .. l - 1) <= BypassBound[l]
  ELSE b + Left(s, Level \ {l}) <= RoundShare(Level \ {l})

BypassInv ==
  /\ bypass \in [Level -> Nat]
  /\ \A l \in Level :
       IF empty(mlq_ready_queue[l]) THEN bypass[l] = 0 ELSE WaitBound(slot, bypass[l], l)

\* The levels above l, and all but l, are levels.
LEMMA OtherLevels ==
  ASSUME NEW l \in Level
  PROVE  /\ 0 .. l - 1 \in SUBSET Level /\ Level \ {l} \in SUBSET Level
         /\ \A m \in Level : m \in 0 .. l - 1 <=> m < l
BY SchedAssumption, SMTT(30) DEF Level

\* A round has finitely many dispatches.
LEMMA FinitelyManyLeft ==
  ASSUME NEW s, NEW S \in SUBSET Level
  PROVE  IsFiniteSet(Dispatches(s, S)) /\ Left(s, S) \in Nat
<1>1. IsFiniteSet(Level) /\ IsFiniteSet(1 .. MAX_PRIO)
  <2>1. 0 \in Int /\ 1 \in Int /\ MAX_PRIO - 1 \in Int /\ MAX_PRIO \in Int
    BY SchedAssumption, SMTT(30)
  <2> QED  BY <2>1, FS_Interval, ZenonT(30) DEF Level
<1>2. IsFiniteSet(S)
  BY <1>1, FS_Subset, ZenonT(30)
<1>3. IsFiniteSet(S \X (1 .. MAX_PRIO))
  BY <1>1, <1>2, FS_Product, ZenonT(30)
<1>4. Dispatches(s, S) \in SUBSET (S \X (1 .. MAX_PRIO))
  BY ZenonT(30) DEF Dispatches
<1>5. IsFiniteSet(Dispatches(s, S))
  BY <1>3, <1>4, FS_Subset, ZenonT(30)
<1> QED  BY <1>5, FS_CardinalityType, ZenonT(30) DEF Left

\* Fewer levels with smaller budgets have fewer dispatches left.
LEMMA FewerLeft ==
  ASSUME NEW s \in [Level -> Nat], NEW t \in [Level -> Nat], NEW S \in SUBSET Level,
         \A l \in S : s[l] <= t[l]
  PROVE  Left(s, S) <= Left(t, S)
<1>1. Dispatches(s, S) \in SUBSET Dispatches(t, S)
  <2>1. ASSUME NEW x \in S \X (1 .. MAX_PRIO), x[2] <= s[x[1]] PROVE x[2] <= t[x[1]]
    <3>1. x[1] \in S /\ x[2] \in Nat
      BY SMTT(30)
    <3>2. s[x[1]] \in Nat /\ t[x[1]] \in Nat /\ s[x[1]] <= t[x[1]]
      BY <3>1, SMTT(30)
    <3> QED  BY <2>1, <3>1, <3>2, SMTT(30)
  <2> QED  BY <2>1, ZenonT(30) DEF Dispatches
<1>2. IsFiniteSet(Dispatches(t, S))
  BY FinitelyManyLeft, ZenonT(30)
<1> QED  BY <1>1, <1>2, FS_Subset, ZenonT(30) DEF Left

\* With budgets t the levels in S have one dispatch less than with s if m is one of
\* them, and as many if not.
Spends(s, t, m, S) == Left(t, S) = IF m \in S THEN Left(s, S) - 1 ELSE Left(s, S)

\* get_mlq_proc() takes one dispatch off the budget of its level.
LEMMA DispatchSpends ==
  ASSUME NEW s, InRound(s), NEW m \in Level, s[m] > 0, NEW S \in SUBSET Level
  PROVE  Spends(s, [s EXCEPT ![m] = s[m] - 1], m, S)
<1> DEFINE t == [s EXCEPT ![m] = s[m] - 1]
           d == <<m, s[m]>>
<1>1. /\ s[m] \in 1 .. MAX_PRIO /\ s \in [Level -> Nat] /\ m \in Nat
      /\ \A l \in Level : s[l] \in Nat
  BY SchedAssumption, SMTT(30) DEF InRound, Level
<1>2. t[m] = s[m] - 1 /\ \A l \in Level : l # m => t[l] = s[l]
  BY <1>1, SMTT(30)
<1> HIDE DEF t
<1>3. ASSUME NEW x \in S \X (1 .. MAX_PRIO)
      PROVE  x[2] <= t[x[1]] <=> x[2] <= s[x[1]] /\ x # d
  <2>1. x[1] \in S /\ x[1] \in Level /\ x[2] \in Nat /\ x = <<x[1], x[2]>>
    BY SMTT(30)
  <2>2. CASE x[1] = m
    <3>1. x = d <=> x[2] = s[m]
      BY <2>1, <2>2, SMTT(30)
    <3>2. x[2] <= s[m] - 1 <=> x[2] <= s[m] /\ x[2] # s[m]
      BY <1>1, <2>1, SMTT(30)
    <3> QED  BY <1>2, <2>2, <3>1, <3>2, ZenonT(30)
  <2>3. CASE x[1] # m
    <3>1. x # d
      BY <2>3, SMTT(30)
    <3> QED  BY <1>2, <2>1, <2>3, <3>1, ZenonT(30)
  <2> QED  BY <2>2, <2>3
<1>4. Dispatches(t, S) = Dispatches(s, S) \ {d}
  <2> HIDE DEF d
  <2> QED  BY <1>3, ZenonT(30) DEF Dispatches
<1>5. d \in Dispatches(s, S) <=> m \in S
  <2>1. d \in S \X (1 .. MAX_PRIO) <=> m \in S
    BY <1>1, SMTT(30)
  <2>2. d[2] <= s[d[1]]
    BY <1>1, SMTT(30)
  <2> HIDE DEF d
  <2> QED  BY <2>1, <2>2, ZenonT(30) DEF Dispatches
<1>6. IsFiniteSet(Dispatches(s, S))
  BY FinitelyManyLeft, ZenonT(30)
<1> HIDE DEF d
<1>7. Cardinality(Dispatches(s, S) \ {d}) =
        IF d \in Dispatches(s, S) THEN Cardinality(Dispatches(s, S)) - 1 ELSE Cardinality(Dispatches(s, S))
  BY <1>6, FS_RemoveElement, ZenonT(30)
<1>8. Left(t, S) = IF m \in S THEN Left(s, S) - 1 ELSE Left(s, S)
  BY <1>4, <1>5, <1>7, ZenonT(30) DEF Left
<1> QED  BY <1>8, ZenonT(30) DEF Spends, t

\* The terms of the bounds.
LEMMA BoundTerms ==
  ASSUME NEW l \in Level, NEW s
  PROVE  /\ RoundShare(Level \ {l}) \in Nat /\ RoundShare(0 .. l - 1) \in Nat
         /\ BypassBound[l] = RoundShare(Level \ {l}) + RoundShare(0 .. l - 1)
         /\ Left(s, 0 .. l - 1) \in Nat /\ Left(s, Level \ {l}) \in Nat
         /\ Left(FullRound, 0 .. l - 1) = RoundShare(0 .. l - 1)
<1>1. 0 .. l - 1 \in SUBSET Level /\ Level \ {l} \in SUBSET Level
  BY OtherLevels, ZenonT(30)
<1>2. ASSUME NEW t, NEW S \in SUBSET Level PROVE Left(t, S) \in Nat
  BY FinitelyManyLeft, ZenonT(30)
<1>3. RoundShare(Level \ {l}) = Left(FullRound, Level \ {l}) /\ RoundShare(0 .. l - 1) = Left(FullRound, 0 .. l - 1)
  BY ZenonT(30) DEF RoundShare, Left
<1>4. BypassBound[l] = RoundShare(Level \ {l}) + RoundShare(0 .. l - 1)
  BY ZenonT(30) DEF BypassBound
<1> QED  BY <1>1, <1>2, <1>3, <1>4, ZenonT(30)

\* A level that starts to wait, with whatever is left of the round.
LEMMA WaitStarts ==
  ASSUME NEW s, InRound(s), NEW l \in Level
  PROVE  WaitBound(s, 0, l)
<1>1. /\ 0 .. l - 1 \in SUBSET Level /\ Level \ {l} \in SUBSET Level
  BY OtherLevels, ZenonT(30)
<1>2. s \in [Level -> Nat] /\ FullRound \in [Level -> Nat] /\ \A m \in Level : s[m] <= FullRound[m]
  BY SchedAssumption, SMTT(30) DEF InRound, FullRound, Level
<1>3. ASSUME NEW S \in SUBSET Level PROVE Left(s, S) <= RoundShare(S)
  <2>1. Left(s, S) <= Left(FullRound, S)
    BY <1>2, FewerLeft, ZenonT(30)
  <2> QED  BY <2>1, ZenonT(30) DEF RoundShare, Left
<1>4. Left(s, 0 .. l - 1) <= RoundShare(0 .. l - 1) /\ Left(s, Level \ {l}) <= RoundShare(Level \ {l})
  BY <1>1, <1>3, ZenonT(30)
<1> DEFINE a == Left(s, 0 .. l - 1)
           b == Left(s, Level \ {l})
           f == RoundShare(0 .. l - 1)
           g == RoundShare(Level \ {l})
<1>5. a \in Nat /\ b \in Nat /\ f \in Nat /\ g \in Nat /\ BypassBound[l] = g + f
  BY BoundTerms, ZenonT(30)
<1> HIDE DEF a, b, f, g
<1>6. 0 + a <= BypassBound[l] /\ 0 + b <= g
  BY <1>4, <1>5, SMTT(30) DEF a, b, f, g
<1> QED  BY <1>6, ZenonT(30) DEF WaitBound, a, b, g

\* A new round begins for a level that has used up its budget.
LEMMA WaitOfNewRound ==
  ASSUME NEW s, NEW l \in Level, s[l] = 0, NEW b \in Nat, WaitBound(s, b, l)
  PROVE  WaitBound(FullRound, b, l)
<1> DEFINE a == Left(s, Level \ {l})
           f == RoundShare(0 .. l - 1)
           g == RoundShare(Level \ {l})
<1>1. /\ a \in Nat /\ f \in Nat /\ g \in Nat /\ BypassBound[l] = g + f
      /\ Left(FullRound, 0 .. l - 1) = f
  BY BoundTerms, ZenonT(30)
<1>2. b + a <= g
  <2>1. ~(s[l] > 0)
    BY SMTT(30)
  <2> QED  BY <2>1, ZenonT(30) DEF WaitBound
<1>3. FullRound[l] > 0
  BY LevelProperties, SchedAssumption, SMTT(30) DEF Level
<1> HIDE DEF a, f, g
<1>4. b + f <= BypassBound[l]
  BY <1>1, <1>2, SMTT(30)
<1> QED  BY <1>1, <1>3, <1>4, ZenonT(30) DEF WaitBound, f

\* A dispatch from another level, which is a higher one if l has budget.
LEMMA WaitGrows ==
  ASSUME NEW s, InRound(s), NEW l \in Level, NEW b \in Nat, WaitBound(s, b, l),
         NEW m \in Level, m # l, s[m] > 0, s[l] > 0 => m < l
  PROVE  WaitBound(EndOfRound([s EXCEPT ![m] = s[m] - 1]), b + 1, l)
<1> DEFINE t == [s EXCEPT ![m] = s[m] - 1]
           a == Left(s, 0 .. l - 1)
           o == Left(s, Level \ {l})
           f == RoundShare(0 .. l - 1)
           g == RoundShare(Level \ {l})
<1>1. 0 .. l - 1 \in SUBSET Level /\ Level \ {l} \in SUBSET Level /\ (s[l] > 0 => m \in 0 .. l - 1)
  BY OtherLevels, ZenonT(30)
<1>2. s \in [Level -> Nat] /\ s[l] \in Nat /\ b + 1 \in Nat
  BY SMTT(30) DEF InRound
<1>3. t[l] = s[l]
  BY <1>2, SMTT(30)
<1>4. Spends(s, t, m, 0 .. l - 1) /\ Spends(s, t, m, Level \ {l})
  BY <1>1, DispatchSpends, ZenonT(30)
<1>5. /\ a \in Nat /\ o \in Nat /\ f \in Nat /\ g \in Nat /\ BypassBound[l] = g + f
      /\ Left(t, Level \ {l}) \in Nat
  BY BoundTerms, ZenonT(30)
<1> HIDE DEF t
<1>6. Left(t, Level \ {l}) = o - 1
  BY <1>4, ZenonT(30) DEF Spends
<1>7. WaitBound(t, b + 1, l)
  <2>1. CASE s[l] > 0
    <3>1. Left(t, 0 .. l - 1) = a - 1
      BY <1>1, <1>4, <2>1, ZenonT(30) DEF Spends
    <3>2. b + a <= BypassBound[l]
      BY <2>1, ZenonT(30) DEF WaitBound
    <3> HIDE DEF a, f, g
    <3>3. b + 1 + (a - 1) <= BypassBound[l]
      BY <1>5, <3>2, SMTT(30)
    <3> QED  BY <1>3, <2>1, <3>1, <3>3, ZenonT(30) DEF WaitBound
  <2>2. CASE ~(s[l] > 0)
    <3>1. b + o <= g
      BY <2>2, ZenonT(30) DEF WaitBound
    <3> HIDE DEF o, g
    <3>2. b + 1 + (o - 1) <= g
      BY <1>5, <3>1, SMTT(30)
    <3> QED  BY <1>3, <1>6, <2>2, <3>2, ZenonT(30) DEF WaitBound, g
  <2> QED  BY <2>1, <2>2
<1>8. CASE \A k \in Level : t[k] = 0
  <2>1. EndOfRound(t) = FullRound
    BY <1>8, ZenonT(30) DEF EndOfRound
  <2>2. WaitBound(FullRound, b + 1, l)
    BY <1>2, <1>7, <1>8, WaitOfNewRound, ZenonT(30)
  <2> QED  BY <2>1, <2>2, ZenonT(30) DEF t
<1>9. CASE ~(\A k \in Level : t[k] = 0)
  <2>1. EndOfRound(t) = t
    BY <1>9, ZenonT(30) DEF EndOfRound
  <2> QED  BY <1>7, <2>1, ZenonT(30) DEF t
<1> QED  BY <1>8, <1>9

\* Steps that dispatch nothing leave the counts of the levels that wait.
LEMMA NoDispatchKeepsBypass ==
  ASSUME SchedInv, BypassInv, CountBypass, slot' = slot, \A m \in Level : ~DispatchedFrom(m)
  PROVE  BypassInv'
<1>1. InRound(slot)
  BY ZenonT(30) DEF InRound, SchedInv, SchedTypeOK, BudgetsInRound
<1>2. bypass' = [l \in Level |-> IF empty(mlq_ready_queue'[l]) THEN 0 ELSE bypass[l]]
  BY ZenonT(30) DEF CountBypass
<1>3. bypass \in [Level -> Nat] /\ 0 \in Nat
  BY SMTT(30) DEF BypassInv
<1>4. bypass' \in [Level -> Nat]
  BY <1>2, <1>3, ZenonT(30)
<1>5. ASSUME NEW l \in Level
      PROVE  IF empty(mlq_ready_queue'[l]) THEN bypass'[l] = 0 ELSE WaitBound(slot', bypass'[l], l)
  <2>1. CASE empty(mlq_ready_queue'[l])
    BY <1>2, <2>1, ZenonT(30)
  <2>2. CASE ~empty(mlq_ready_queue'[l])
    <3>1. bypass'[l] = bypass[l]
      BY <1>2, <2>2, ZenonT(30)
    <3>2. WaitBound(slot, bypass[l], l)
      <4>1. CASE empty(mlq_ready_queue[l])
        <5>1. bypass[l] = 0
          BY <4>1, ZenonT(30) DEF BypassInv
        <5>2. WaitBound(slot, 0, l)
          BY <1>1, WaitStarts, ZenonT(30)
        <5> QED  BY <5>1, <5>2, ZenonT(30)
      <4>2. CASE ~empty(mlq_ready_queue[l])
        BY <4>2, ZenonT(30) DEF BypassInv
      <4> QED  BY <4>1, <4>2
    <3> QED  BY <2>2, <3>1, <3>2, ZenonT(30)
  <2> QED  BY <2>1, <2>2
<1> QED  BY <1>4, <1>5, ZenonT(30) DEF BypassInv, WaitBound

\* get_mlq_proc() that finds a process.
LEMMA GetKeepsBypass ==
  ASSUME SchedInv, BypassInv, CountBypass, NEW c \in Cpu, proc[c] = NULL, get_mlq_proc(c)
  PROVE  BypassInv'
<1>1. PICK m \in Eligible(Budgets) :
        /\ \A k \in Eligible(Budgets) : m <= k
        /\ proc' = [proc EXCEPT ![c] = Front(mlq_ready_queue[m])]
        /\ mlq_ready_queue' = [mlq_ready_queue EXCEPT ![m] = dequeue(mlq_ready_queue[m])]
        /\ slot' = EndOfRound([Budgets EXCEPT ![m] = Budgets[m] - 1])
  BY ZenonT(30) DEF get_mlq_proc
<1>2. /\ m \in Level /\ Budgets[m] > 0 /\ ~empty(mlq_ready_queue[m])
      /\ Front(mlq_ready_queue[m]) \in Elements(mlq_ready_queue[m])
  BY SMTT(30) DEF Eligible, empty, SchedInv, SchedTypeOK, Elements, Front
<1>3. /\ prio[Front(mlq_ready_queue[m])] = m /\ Front(mlq_ready_queue[m]) # NULL
  BY <1>2, SchedAssumption DEF SchedInv, SchedTypeOK, OneHome, ReadyOnce, Live
<1>4. /\ proc'[c] = Front(mlq_ready_queue[m]) /\ \A d \in Cpu : d # c => proc'[d] = proc[d]
  BY <1>1, SMTT(30) DEF SchedInv, SchedTypeOK
<1>5. \A l \in Level : DispatchedFrom(l) <=> l = m
  BY <1>3, <1>4, ZenonT(30) DEF DispatchedFrom
<1>6. \A l \in Level : l # m => mlq_ready_queue'[l] = mlq_ready_queue[l]
  BY <1>1, SMTT(30) DEF SchedInv, SchedTypeOK
<1>7. /\ bypass \in [Level -> Nat] /\ 0 \in Nat /\ \A k \in Nat : k + 1 \in Nat
  BY SMTT(30) DEF BypassInv
<1>8. bypass' = [l \in Level |-> IF empty(mlq_ready_queue'[l]) \/ l = m THEN 0 ELSE bypass[l] + 1]
  BY <1>2, <1>5, ZenonT(30) DEF CountBypass
<1>9. bypass' \in [Level -> Nat]
  BY <1>7, <1>8, ZenonT(30)
<1>10. InRound(slot) /\ InRound(Budgets)
  BY BudgetsProperties, ZenonT(30) DEF InRound, SchedInv, SchedTypeOK, BudgetsInRound
<1>11. InRound(slot')
  <2>1. SchedInv'
    BY GetKeepsInv, ZenonT(30)
  <2> QED  BY <2>1, ZenonT(30) DEF InRound, SchedInv, SchedTypeOK, BudgetsInRound
<1>12. ASSUME NEW l \in Level
       PROVE  IF empty(mlq_ready_queue'[l]) THEN bypass'[l] = 0 ELSE WaitBound(slot', bypass'[l], l)
  <2>1. CASE empty(mlq_ready_queue'[l])
    BY <1>8, <2>1, ZenonT(30)
  <2>2. CASE ~empty(mlq_ready_queue'[l]) /\ l = m
    <3>1. bypass'[l] = 0
      BY <1>8, <2>2, ZenonT(30)
    <3>2. WaitBound(slot', 0, l)
      BY <1>11, WaitStarts, ZenonT(30)
    <3> QED  BY <2>2, <3>1, <3>2, ZenonT(30)
  <2>3. CASE ~empty(mlq_ready_queue'[l]) /\ l # m
    <3>1. bypass'[l] = bypass[l] + 1 /\ ~empty(mlq_ready_queue[l]) /\ bypass[l] \in Nat
      BY <1>6, <1>7, <1>8, <2>3, ZenonT(30)
    <3>2. WaitBound(slot, bypass[l], l)
      BY <3>1, ZenonT(30) DEF BypassInv
    <3>3. WaitBound(Budgets, bypass[l], l)
      <4>1. CASE Eligible(slot) = {}
        <5>1. slot[l] = 0
          <6>1. ~(slot[l] > 0) /\ slot[l] \in Nat
            BY <1>10, <3>1, <4>1, ZenonT(30) DEF Eligible, InRound
          <6> QED  BY <6>1, SMTT(30)
        <5>2. WaitBound(FullRound, bypass[l], l)
          BY <3>1, <3>2, <5>1, WaitOfNewRound, ZenonT(30)
        <5> QED  BY <4>1, <5>2, ZenonT(30) DEF Budgets
      <4>2. CASE Eligible(slot) # {}
        BY <3>2, <4>2, ZenonT(30) DEF Budgets
      <4> QED  BY <4>1, <4>2
    <3>4. Budgets[l] > 0 => m < l
      <4>1. Budgets[l] > 0 => m <= l
        BY <1>1, <3>1, ZenonT(30) DEF Eligible
      <4> QED  BY <1>2, <2>3, <4>1, LevelProperties, SMTT(30)
    <3>5. WaitBound(EndOfRound([Budgets EXCEPT ![m] = Budgets[m] - 1]), bypass[l] + 1, l)
      BY <1>2, <1>10, <2>3, <3>1, <3>3, <3>4, WaitGrows, ZenonT(30)
    <3> QED  BY <1>1, <2>3, <3>1, <3>5, ZenonT(30)
  <2> QED  BY <2>1, <2>2, <2>3
<1> QED  BY <1>9, <1>12, ZenonT(30) DEF BypassInv, WaitBound

\* get_mlq_proc() finds nothing only if nobody waits.
LEMMA GetNoneKeepsBypass ==
  ASSUME SchedInv, BypassInv, CountBypass, NEW c \in Cpu, get_mlq_proc_none(c)
  PROVE  BypassInv'
<1>1. \A l \in Level : FullRound[l] > 0
  BY LevelProperties, SchedAssumption, SMTT(30) DEF Level
<1>2. \A l \in Level : empty(mlq_ready_queue[l])
  <2>1. Eligible(Budgets) = {}
    BY ZenonT(30) DEF get_mlq_proc_none
  <2>2. Eligible(FullRound) = {}
    BY <2>1, ZenonT(30) DEF Budgets
  <2> QED  BY <1>1, <2>2, ZenonT(30) DEF Eligible
<1>3. \A l \in Level : empty(mlq_ready_queue'[l])
  BY <1>2, ZenonT(30) DEF get_mlq_proc_none
<1>4. bypass' = [l \in Level |-> 0]
  BY <1>3, ZenonT(30) DEF CountBypass
<1>5. 0 \in Nat
  BY SMTT(30)
<1>6. bypass' \in [Level -> Nat] /\ \A l \in Level : bypass'[l] = 0
  BY <1>4, <1>5, ZenonT(30)
<1> QED  BY <1>3, <1>6, ZenonT(30) DEF BypassInv

\* Every step keeps the bounds.
LEMMA StepKeepsBypass ==
  ASSUME SchedInv, BypassInv, BypassNext
  PROVE  BypassInv'
<1>1. CountBypass /\ SchedNext
  BY ZenonT(30) DEF BypassNext
<1>2. ASSUME NEW p \in Proc, add_proc(p) PROVE BypassInv'
  <2>1. slot' = slot /\ proc' = proc
    BY <1>2, SMTT(30) DEF add_proc
  <2>2. \A m \in Level : ~DispatchedFrom(m)
    BY <2>1, ZenonT(30) DEF DispatchedFrom
  <2> QED  BY <1>1, <2>1, <2>2, NoDispatchKeepsBypass, ZenonT(30)
<1>3. ASSUME NEW c \in Cpu, put_proc(c) \/ finish_proc(c) PROVE BypassInv'
  <2>1. slot' = slot /\ (proc' = proc \/ proc' = [proc EXCEPT ![c] = NULL])
    BY <1>3, SMTT(30) DEF put_proc, finish_proc
  <2>2. \A d \in Cpu : proc'[d] = proc[d] \/ proc'[d] = NULL
    BY <2>1, SMTT(30) DEF SchedInv, SchedTypeOK
  <2>3. \A m \in Level : ~DispatchedFrom(m)
    BY <2>2, ZenonT(30) DEF DispatchedFrom
  <2> QED  BY <1>1, <2>1, <2>3, NoDispatchKeepsBypass, ZenonT(30)
<1>4. ASSUME NEW c \in Cpu, get_proc_idle(c) PROVE BypassInv'
  <2>1. proc[c] = NULL /\ (get_mlq_proc(c) \/ get_mlq_proc_none(c))
    BY <1>4, ZenonT(30) DEF get_proc_idle, get_proc
  <2> QED  BY <1>1, <2>1, GetKeepsBypass, GetNoneKeepsBypass, ZenonT(30)
<1> QED  BY <1>1, <1>2, <1>3, <1>4, ZenonT(30) DEF SchedNext

\* A waiting level is passed over at most as often as the weights of
\* get_mlq_proc() say: for the rest of the round of the other levels, and then for
\* the higher ones, whatever the arrivals, the number of CPUs and of levels.
THEOREM WaitsAreBounded == BypassSpec => []BoundedBypass
<1>1. BypassInit => SchedInv /\ BypassInv
  <2> SUFFICES ASSUME BypassInit PROVE SchedInv /\ BypassInv
    OBVIOUS
  <2>1. init_scheduler /\ bypass = [l \in Level |-> 0]
    BY DEF BypassInit
  <2>2. \A l \in Level : empty(mlq_ready_queue[l])
    BY <2>1, SMTT(30) DEF init_scheduler, empty
  <2>3. bypass \in [Level -> Nat] /\ \A l \in Level : bypass[l] = 0
    BY <2>1, SMTT(30)
  <2> QED  BY <2>1, <2>2, <2>3, InitInv, ZenonT(30) DEF BypassInv
<1>2. SchedInv /\ BypassInv /\ [BypassNext]_bypassVars => (SchedInv /\ BypassInv)'
  <2> SUFFICES ASSUME SchedInv, BypassInv, [BypassNext]_bypassVars PROVE SchedInv' /\ BypassInv'
    BY ZenonT(30)
  <2>1. CASE BypassNext
    <3>1. [SchedNext]_schedVars
      BY <2>1, ZenonT(30) DEF BypassNext
    <3> QED  BY <2>1, <3>1, StepKeepsInv, StepKeepsBypass, ZenonT(30)
  <2>2. CASE UNCHANGED bypassVars
    <3>1. [SchedNext]_schedVars
      BY <2>2, ZenonT(30) DEF bypassVars
    <3>2. mlq_ready_queue' = mlq_ready_queue /\ slot' = slot /\ bypass' = bypass
      BY <2>2, ZenonT(30) DEF bypassVars, schedVars
    <3>3. BypassInv'
      BY <3>2, ZenonT(30) DEF BypassInv, WaitBound
    <3> QED  BY <3>1, <3>3, StepKeepsInv, ZenonT(30)
  <2> QED  BY <2>1, <2>2, ZenonT(30)
<1>3. SchedInv /\ BypassInv => BoundedBypass
  <2> SUFFICES ASSUME BypassInv, NEW l \in Level PROVE bypass[l] <= BypassBound[l]
    BY ZenonT(30) DEF BoundedBypass
  <2> DEFINE a == Left(slot, 0 .. l - 1)
             o == Left(slot, Level \ {l})
             f == RoundShare(0 .. l - 1)
             g == RoundShare(Level \ {l})
  <2>1. a \in Nat /\ o \in Nat /\ f \in Nat /\ g \in Nat /\ BypassBound[l] = g + f
    BY BoundTerms, ZenonT(30)
  <2>2. bypass[l] \in Nat /\ (bypass[l] = 0 \/ bypass[l] + a <= BypassBound[l] \/ bypass[l] + o <= g)
    BY ZenonT(30) DEF BypassInv, WaitBound
  <2> HIDE DEF a, o, f, g
  <2> QED  BY <2>1, <2>2, SMTT(30)
<1> QED  BY <1>1, <1>2, <1>3, PTL DEF BypassSpec

-----------------------------------------------------------------------------
(***************************************************************************)
(* The threads.  The heart of the invariant is SeenEmpty.  A CPU decides   *)
(* to stop in two steps, get_proc() and is_done(), while other CPUs put    *)
(* their processes back and the loader adds new ones in between.  What     *)
(* saves the process put back is that the CPU that puts it back asks again *)
(* right away: once a CPU has seen every queue empty and the loader has    *)
(* not added anything in the slot, there are no more processes in the      *)
(* queues than CPUs about to ask for one.                                  *)
(***************************************************************************)

\* The loader is through with its work, or has added nothing in this slot yet.
LoaderQuiet == lpc \in {"detach", "exited"} \/ (lpc = "load" /\ phase[Ld] = "working")

\* CPU c has decided to stop.
Stopped(c) == cpc[c] \in {"detach", "exited"}

\* What waits in a ready queue, and the CPUs between put_proc() and get_proc().
Ready == {p \in Proc : Waiting(p)}

Requeuing == {c \in Cpu : cpc[c] = "reload"}

Injective(f) == \A x, y \in DOMAIN f : f[x] = f[y] => x = y

\* The points of cpu_routine() between its calls.
CpuPoints == {"top", "reload_zero", "reload", "recheck", "slot", "detach", "exited"}

\* The first n processes of the configuration file.
FirstOfOrder(n) == {order[i] : i \in 1 .. n}

\* Where the loader is and what it has loaded by then.
LoaderInv ==
  /\ done <=> lpc \in {"detach", "exited"}
  /\ done => loaded = Proc
  /\ lpc = "added" => li <= Len(order)
  /\ ~done /\ ~aborted =>
       loaded = FirstOfOrder(IF lpc = "added" THEN li ELSE li - 1)
  /\ phase[Ld] = "finished" <=> lpc = "exited"
  /\ phase[Ld] = "arrived" => lpc = "load"

\* Where a CPU is and what it holds there; a CPU stops only after the loader, and
\* one without a process has no quantum left over.
CpuInv ==
  \A c \in Cpu :
     /\ cpc[c] \in {"reload", "reload_zero"} => proc[c] = NULL
     /\ Stopped(c) => proc[c] = NULL /\ done
     /\ phase[c] = "finished" <=> cpc[c] = "exited"
     /\ phase[c] = "arrived" => cpc[c] = "top"
     /\ proc[c] = NULL /\ cpc[c] # "reload_zero" => time_left[c] = 0

\* A process that ran in this slot is still on the CPU that ran it, which is
\* waiting for the next slot.
RanInv == \A p \in ran : \E c \in Cpu : proc[c] = p /\ (cpc[c] = "slot" \/ phase[c] = "arrived")

\* What has been waiting since the slot began is still waiting, and every CPU
\* that has made its get_proc() of this slot got a process.
WaitedInv ==
  /\ waited \subseteq Ready
  /\ waited # {} => \A c \in Cpu :
       (phase[c] # "working" \/ cpc[c] \in {"recheck", "slot", "detach"}) => proc[c] # NULL

\* CPU c has stopped, or has seen every queue empty and is about to ask whether
\* it may stop.
Idle(c) == Stopped(c) \/ (cpc[c] = "recheck" /\ proc[c] = NULL)

\* What is left in the queues has a CPU of its own about to take it.
SeenEmpty ==
  LoaderQuiet /\ (\E c \in Cpu : Idle(c)) =>
     \E f \in [Ready -> Requeuing] : Injective(f)

\* The inductive invariant.
OsInv ==
  /\ OsTypeOK /\ SchedInv /\ LoaderInv /\ CpuInv /\ RunsToItsEnd
  /\ RanInv /\ WaitedInv /\ SeenEmpty
-----------------------------------------------------------------------------
(* What the steps leave alone.                                             *)

USE ZenonT(30)

\* Every call a CPU makes into sched.c is one Sched allows, and leaves what is
\* loaded and the loader alone; put_proc() does not give up.
LEMMA CpuCallsSched ==
  ASSUME OsInv, NEW c \in Cpu, cpu_routine(c)
  PROVE  [SchedNext]_schedVars /\ loaded' = loaded /\ aborted' = aborted
<1>1. cpc[c] \in {"reload", "reload_zero"} => proc[c] = NULL
  BY DEF OsInv, CpuInv
<1>2. proc[c] # NULL => valid_mlq_prio(proc[c]) /\ HasRoom(mlq_ready_queue[prio[proc[c]]])
  BY RequeueRoom DEF OsInv, SchedInv, OneHome, HeldOnce, RequeueHasRoom
<1>3. ASSUME proc[c] = NULL, get_proc(c) PROVE SchedNext /\ loaded' = loaded /\ aborted' = aborted
  BY <1>3 DEF SchedNext, get_proc_idle, get_proc, get_mlq_proc, get_mlq_proc_none
<1>4. ASSUME put_proc(c) PROVE SchedNext /\ loaded' = loaded /\ aborted' = aborted
  BY <1>2, <1>4 DEF SchedNext, put_proc
<1>5. ASSUME finish_proc(c) PROVE SchedNext /\ loaded' = loaded /\ aborted' = aborted
  BY <1>5 DEF SchedNext, finish_proc
<1>6. ASSUME UNCHANGED schedVars PROVE loaded' = loaded /\ aborted' = aborted
  BY <1>6 DEF schedVars
<1> QED
  BY <1>1, <1>3, <1>4, <1>5, <1>6
     DEF cpu_routine, cpu_first_load, cpu_finish, cpu_finish_reload, cpu_requeue,
         cpu_requeue_reload, cpu_continue, cpu_stop, cpu_skip_slot, cpu_run, cpu_next_slot,
         cpu_detach, Reload, Running

\* A CPU moves nothing of the loader's or of another CPU's.
LEMMA CpuFrame ==
  ASSUME OsInv, NEW c \in Cpu, cpu_routine(c)
  PROVE  /\ UNCHANGED ldVars /\ phase'[Ld] = phase[Ld]
         /\ ~aborted /\ phase[c] = "working"
         /\ time' = time /\ stopped' = stopped
         /\ phase' \in [Dev -> B!Phase] /\ cpc' \in [Cpu -> CpuPoints]
         /\ time_left' \in [Cpu -> Int]
         /\ \A d \in Cpu : d # c => /\ cpc'[d] = cpc[d] /\ proc'[d] = proc[d]
                                    /\ phase'[d] = phase[d] /\ time_left'[d] = time_left[d]
<1>1. /\ phase \in [Dev -> B!Phase] /\ cpc \in [Cpu -> CpuPoints]
      /\ time_left \in [Cpu -> Int] /\ proc \in [Cpu -> Proc \cup {NULL}]
      /\ c \in Dev /\ Ld \in Dev /\ Ld # c /\ Cpu \subseteq Dev
      /\ time_slot \in Nat
  BY OsAssumption DEF OsInv, OsTypeOK, SchedTypeOK, B!BarrierTypeOK, CpuPoints, Dev
<1>2. /\ UNCHANGED ldVars /\ ~aborted /\ phase[c] = "working"
  BY DEF cpu_routine, cpu_first_load, cpu_finish, cpu_finish_reload, cpu_requeue,
         cpu_requeue_reload, cpu_continue, cpu_stop, cpu_skip_slot, cpu_run, cpu_next_slot,
         cpu_detach, Running, ldVars
<1>3. /\ time' = time /\ stopped' = stopped
      /\ \/ phase' = phase
         \/ phase' = [phase EXCEPT ![c] = "arrived"]
         \/ phase' = [phase EXCEPT ![c] = "finished"]
  BY DEF cpu_routine, cpu_first_load, cpu_finish, cpu_finish_reload, cpu_requeue,
         cpu_requeue_reload, cpu_continue, cpu_stop, cpu_skip_slot, cpu_run, cpu_next_slot,
         cpu_detach, slotVars, B!Arrive, B!Finish
<1>4. \E pt \in CpuPoints : cpc' = [cpc EXCEPT ![c] = pt]
  BY DEF cpu_routine, cpu_first_load, cpu_finish, cpu_finish_reload, cpu_requeue,
         cpu_requeue_reload, cpu_continue, cpu_stop, cpu_skip_slot, cpu_run, cpu_next_slot,
         cpu_detach, goto, CpuPoints
<1>5. \E n \in Int : time_left' = [time_left EXCEPT ![c] = n]
  <2>1. CASE cpu_run(c)
    <3> DEFINE n == (IF time_left[c] = 0 THEN time_slot ELSE time_left[c]) - 1
    <3>1. time_left' = [time_left EXCEPT ![c] = n]
      BY <2>1 DEF cpu_run
    <3>2. n \in Int
      BY <1>1, SMTT(30)
    <3> QED  BY <3>1, <3>2
  <2>2. CASE cpu_finish_reload(c)
    <3>1. time_left' = [time_left EXCEPT ![c] = 0]
      BY <2>2 DEF cpu_finish_reload
    <3>2. 0 \in Int
      BY SMTT(30)
    <3> QED  BY <3>1, <3>2
  <2>3. CASE time_left' = time_left
    BY <1>1, <2>3
  <2> QED
    BY <2>1, <2>2, <2>3
       DEF cpu_routine, cpu_first_load, cpu_finish, cpu_requeue,
         cpu_requeue_reload, cpu_continue, cpu_stop, cpu_skip_slot, cpu_next_slot, cpu_detach
<1>6. \A d \in Cpu : d # c => proc'[d] = proc[d]
  <2>1. \/ proc' = proc
        \/ \E x : proc' = [proc EXCEPT ![c] = x]
    BY DEF cpu_routine, cpu_first_load, cpu_finish, cpu_finish_reload, cpu_requeue,
         cpu_requeue_reload, cpu_continue, cpu_stop, cpu_skip_slot, cpu_run, cpu_next_slot,
         cpu_detach, Reload, get_proc, get_mlq_proc, get_mlq_proc_none, put_proc, finish_proc,
         schedVars
  <2> QED  BY <1>1, <2>1
<1>7. /\ cpc' \in [Cpu -> CpuPoints] /\ time_left' \in [Cpu -> Int]
      /\ \A d \in Cpu : d # c => cpc'[d] = cpc[d] /\ time_left'[d] = time_left[d]
  BY <1>1, <1>4, <1>5
<1>8. /\ phase' \in [Dev -> B!Phase] /\ phase'[Ld] = phase[Ld]
      /\ \A d \in Cpu : d # c => phase'[d] = phase[d]
  BY <1>1, <1>3 DEF B!Phase
<1> QED  BY <1>2, <1>3, <1>6, <1>7, <1>8

\* The loader moves nothing of a CPU's, and calls only add_proc().
LEMMA LoaderFrame ==
  ASSUME OsInv, ld_routine
  PROVE  /\ [SchedNext]_schedVars /\ ~aborted
         /\ UNCHANGED <<proc, finished, cpc, time_left, pc, ran, waited, time, stopped>>
         /\ phase[Ld] = "working" /\ phase' \in [Dev -> B!Phase]
         /\ \A c \in Cpu : phase'[c] = phase[c]
<1>1. ASSUME li <= Len(order), add_proc(order[li]) PROVE SchedNext
  <2>1. order[li] \in Proc
    BY <1>1, OsAssumption, SMTT(30) DEF OsInv, OsTypeOK
  <2> QED  BY <1>1, <2>1 DEF SchedNext
<1>2. /\ [SchedNext]_schedVars /\ ~aborted /\ phase[Ld] = "working"
      /\ UNCHANGED <<proc, finished, cpc, time_left, pc, ran, waited, time, stopped>>
      /\ \/ phase' = phase
         \/ phase' = [phase EXCEPT ![Ld] = "arrived"]
         \/ phase' = [phase EXCEPT ![Ld] = "finished"]
  BY <1>1
     DEF ld_routine, ld_wait, ld_add, ld_next, ld_set_done, ld_detach, Loading, add_proc,
         schedVars, slotVars, ldVars, cpuVars, B!Arrive, B!Finish
<1>3. phase \in [Dev -> B!Phase] /\ Ld \in Dev /\ \A c \in Cpu : c \in Dev /\ c # Ld
  BY OsAssumption DEF OsInv, OsTypeOK, B!BarrierTypeOK, Dev
<1>4. phase' \in [Dev -> B!Phase] /\ \A c \in Cpu : phase'[c] = phase[c]
  BY <1>2, <1>3 DEF B!Phase
<1> QED  BY <1>2, <1>4

\* The timer moves only the slot, and starts a slot with everybody's position in
\* the code unchanged.
LEMMA TimerFrame ==
  ASSUME OsInv, timer_routine
  PROVE  /\ UNCHANGED <<schedVars, ldVars, cpuVars>> /\ ~aborted
         /\ time' \in Nat /\ stopped' \in BOOLEAN
         /\ phase' \in [Dev -> B!Phase]
         /\ \A d \in Dev : phase[d] # "working"
         /\ \A d \in Dev : (phase'[d] = "finished") <=> (phase[d] = "finished")
         /\ \A d \in Dev : phase'[d] # "arrived"
<1>1. phase \in [Dev -> B!Phase] /\ time \in Nat /\ MaxStart \in Nat
  BY OsAssumption DEF OsInv, OsTypeOK, B!BarrierTypeOK
<1>2. CASE Tick
  BY <1>1, <1>2, SMTT(30) DEF Tick, B!Released, B!AllFinished, B!Phase
<1>3. CASE StopClock
  BY <1>1, <1>3, SMTT(30) DEF StopClock, B!Stop, B!AllFinished
<1> QED  BY <1>2, <1>3 DEF timer_routine

\* Every step of the simulator is one Sched allows.
LEMMA StepsOfSched ==
  ASSUME OsInv, [OsNext]_osVars
  PROVE  [SchedNext]_schedVars
BY CpuCallsSched, LoaderFrame, TimerFrame DEF OsNext, osVars, schedVars

\* Every step of the simulator keeps what is proved of the scheduler.
LEMMA SchedInvKept ==
  ASSUME OsInv, [OsNext]_osVars
  PROVE  SchedInv'
BY StepsOfSched, StepKeepsInv DEF OsInv

-----------------------------------------------------------------------------
(* The ready processes: the live ones that no CPU holds.                   *)

\* A live process waits when no CPU holds it.
LEMMA ReadyIsNotHeld ==
  ASSUME SchedInv
  PROVE  Ready = {p \in Live : ~Held(p)}
<1>1. Live \subseteq Proc
  BY DEF SchedInv, SchedTypeOK, Live
<1> QED  BY <1>1 DEF SchedInv, OneHome, ReadyOnce, Ready, Waiting

\* The same after a step.
LEMMA ReadyIsNotHeldAfter ==
  ASSUME SchedInv'
  PROVE  Ready' = {p \in Live' : ~Held(p)'}
<1>1. Live' \subseteq Proc
  BY DEF SchedInv, SchedTypeOK, Live
<1> QED  BY <1>1 DEF SchedInv, OneHome, ReadyOnce, Ready, Waiting

\* get_proc() takes a ready process if there is one: it returns NULL only when
\* every queue is empty.
LEMMA GetTakesReady ==
  ASSUME SchedInv, SchedInv', NEW c \in Cpu, proc[c] = NULL, get_proc(c)
  PROVE  /\ finished' = finished /\ loaded' = loaded
         /\ proc'[c] = NULL => Ready = {} /\ Ready' = {}
         /\ proc'[c] # NULL => proc'[c] \in Ready /\ Ready' = Ready \ {proc'[c]}
<1>1. /\ finished' = finished /\ loaded' = loaded /\ Live' = Live
  BY DEF get_proc, get_mlq_proc, get_mlq_proc_none, Live
<1>2. proc \in [Cpu -> Proc \cup {NULL}] /\ NULL \notin Proc /\ Live \subseteq Proc
  BY SchedAssumption DEF SchedInv, SchedTypeOK, Live
<1>3. \E x : proc' = [proc EXCEPT ![c] = x]
  BY DEF get_proc, get_mlq_proc, get_mlq_proc_none
<1>4. \A x \in Proc : Held(x)' <=> Held(x) \/ x = proc'[c]
  BY <1>2, <1>3 DEF Held
<1>5. CASE get_mlq_proc(c)
  <2>1. PICK l \in Eligible(Budgets) : proc' = [proc EXCEPT ![c] = Front(mlq_ready_queue[l])]
    BY <1>5 DEF get_mlq_proc
  <2>2. l \in Level /\ mlq_ready_queue[l] \in Seq(Proc) /\ 1 \in 1 .. Len(mlq_ready_queue[l])
    BY <2>1, SMTT(30) DEF Eligible, empty, SchedInv, SchedTypeOK
  <2>3. Front(mlq_ready_queue[l]) \in Elements(mlq_ready_queue[l])
    BY <2>2 DEF Elements, Front
  <2>4. Front(mlq_ready_queue[l]) \in Ready /\ proc'[c] = Front(mlq_ready_queue[l])
    BY <1>2, <2>1, <2>2, <2>3 DEF Ready, Waiting, SchedInv, OneHome, ReadyOnce
  <2>5. proc'[c] # NULL /\ proc'[c] \in Ready
    BY <1>2, <2>4 DEF Ready
  <2>6. Ready' = {p \in Live' : ~Held(p)'}
    BY ReadyIsNotHeldAfter
  <2> QED  BY <1>1, <1>2, <1>4, <2>5, <2>6, ReadyIsNotHeld
<1>6. CASE get_mlq_proc_none(c)
  <2>1. proc'[c] = NULL /\ Eligible(Budgets) = {} /\ mlq_ready_queue' = mlq_ready_queue
    BY <1>2, <1>6 DEF get_mlq_proc_none
  <2>2. Budgets = FullRound
    BY <2>1 DEF Budgets
  <2>3. \A l \in Level : Budgets[l] > 0
    BY <2>2, LevelProperties, SMTT(30)
  <2>4. \A l \in Level : mlq_ready_queue[l] \in Seq(Proc) /\ Len(mlq_ready_queue[l]) = 0
    BY <2>1, <2>3 DEF Eligible, empty, SchedInv, SchedTypeOK
  <2>5. \A l \in Level : Elements(mlq_ready_queue[l]) = {}
    BY <2>4, SMTT(30) DEF Elements
  <2> QED  BY <1>1, <2>1, <2>5 DEF Ready, Waiting
<1> QED  BY <1>5, <1>6 DEF get_proc

\* put_proc() makes the process of the CPU ready.
LEMMA PutMakesReady ==
  ASSUME SchedInv, SchedInv', NEW c \in Cpu, put_proc(c)
  PROVE  /\ finished' = finished /\ loaded' = loaded
         /\ proc'[c] = NULL /\ proc[c] \in Proc
         /\ Ready' = Ready \cup {proc[c]} /\ proc[c] \notin Ready
<1>1. proc[c] # NULL /\ valid_mlq_prio(proc[c]) /\ HasRoom(mlq_ready_queue[prio[proc[c]]])
  BY RequeueRoom DEF put_proc, SchedInv, OneHome, HeldOnce, RequeueHasRoom
<1>2. proc' = [proc EXCEPT ![c] = NULL] /\ finished' = finished /\ loaded' = loaded
  BY <1>1 DEF put_proc
<1>3. /\ proc'[c] = NULL
      /\ \A x : x # NULL => (Held(x)' <=> Held(x) /\ x # proc[c])
  BY <1>1, <1>2, ReleaseCpu
<1>4. proc[c] \in Live /\ Held(proc[c]) /\ Live' = Live /\ Live \subseteq Proc /\ NULL \notin Proc
  BY <1>1, <1>2, SchedAssumption DEF SchedInv, SchedTypeOK, OneHome, HeldOnce, Held, Live
<1>5. Ready' = {p \in Live' : ~Held(p)'}
  BY ReadyIsNotHeldAfter
<1> QED  BY <1>2, <1>3, <1>4, <1>5, ReadyIsNotHeld

\* finish_proc() leaves the ready processes alone.
LEMMA FinishLeavesReady ==
  ASSUME SchedInv, NEW c \in Cpu, finish_proc(c)
  PROVE  /\ finished' = finished \cup {proc[c]} /\ loaded' = loaded
         /\ proc'[c] = NULL /\ proc[c] \in Proc
         /\ Ready' = Ready
BY DEF finish_proc, SchedInv, SchedTypeOK, Ready, Waiting

\* add_proc() takes nothing away from the ready processes.
LEMMA AddKeepsReady ==
  ASSUME SchedInv, SchedInv', NEW p \in Proc, add_proc(p)
  PROVE  Ready \subseteq Ready'
<1>1. proc' = proc /\ Live \subseteq Live'
  BY DEF add_proc, add_mlq_proc, add_mlq_proc_fails, Live
<1>2. Ready' = {x \in Live' : ~Held(x)'}
  BY ReadyIsNotHeldAfter
<1> QED  BY <1>1, <1>2, ReadyIsNotHeld DEF Held

-----------------------------------------------------------------------------
(* What a step of CPU c does, point by point.                              *)

\* get_proc(), from any of its three call sites.
Gets(c) ==
  /\ cpc[c] \in {"top", "reload", "reload_zero"} /\ proc[c] = NULL
  /\ cpc'[c] = "recheck" \/ (cpc'[c] = "slot" /\ proc'[c] = NULL)
  /\ \/ proc'[c] = NULL /\ Ready = {} /\ Ready' = {}
     \/ proc'[c] # NULL /\ proc'[c] \in Ready /\ Ready' = Ready \ {proc'[c]}
  /\ time_left'[c] = 0
  /\ waited' = waited \ {proc'[c]}
  /\ UNCHANGED <<phase, pc, ran, finished>>

\* finish_proc()
Finishes(c) ==
  /\ cpc[c] = "top" /\ proc[c] \in Proc /\ pc[proc[c]] = size[proc[c]]
  /\ cpc'[c] = "reload_zero" /\ proc'[c] = NULL
  /\ finished' = finished \cup {proc[c]}
  /\ Ready' = Ready
  /\ UNCHANGED <<phase, time_left, pc, ran, waited>>

\* put_proc()
Requeues(c) ==
  /\ cpc[c] = "top" /\ proc[c] \in Proc /\ time_left[c] = 0
  /\ cpc'[c] = "reload" /\ proc'[c] = NULL
  /\ Ready' = Ready \cup {proc[c]} /\ proc[c] \notin Ready
  /\ UNCHANGED <<phase, time_left, pc, ran, waited, finished>>

\* run()
Runs(c) ==
  /\ cpc[c] = "recheck" /\ proc[c] \in Proc
  /\ cpc'[c] = "slot"
  /\ pc' = run(proc[c]) /\ ran' = ran \cup {proc[c]}
  /\ UNCHANGED <<phase, proc, Ready, waited, finished>>

\* The steps between the calls.
Passes(c) ==
  /\ \/ cpc[c] = "top" /\ proc[c] # NULL /\ cpc'[c] = "recheck"
     \/ cpc[c] = "recheck" /\ proc[c] = NULL /\ done /\ cpc'[c] = "detach"
     \/ cpc[c] = "recheck" /\ proc[c] = NULL /\ ~done /\ cpc'[c] = "slot"
  /\ UNCHANGED <<phase, proc, time_left, pc, ran, waited, finished, Ready>>

\* next_slot() and detach_event()
Leaves(c) ==
  /\ \/ cpc[c] = "slot" /\ cpc'[c] = "top" /\ phase'[c] = "arrived"
     \/ cpc[c] = "detach" /\ cpc'[c] = "exited" /\ phase'[c] = "finished"
  /\ UNCHANGED <<proc, time_left, pc, ran, waited, finished, Ready>>

\* A step of cpu_routine() is one of these.
LEMMA CpuEffects ==
  ASSUME OsInv, SchedInv', NEW c \in Cpu, cpu_routine(c)
  PROVE  Gets(c) \/ Finishes(c) \/ Requeues(c) \/ Runs(c) \/ Passes(c) \/ Leaves(c)
<1>1. /\ phase \in [Dev -> B!Phase] /\ cpc \in [Cpu -> CpuPoints] /\ c \in Dev
      /\ time_left \in [Cpu -> Int] /\ proc \in [Cpu -> Proc \cup {NULL}]
  BY DEF OsInv, OsTypeOK, SchedTypeOK, B!BarrierTypeOK, CpuPoints, Dev
<1>2. \A pt : goto(c, pt) => cpc'[c] = pt
  BY <1>1 DEF goto
<1>3. /\ cpc[c] \in {"reload", "reload_zero"} => proc[c] = NULL
      /\ proc[c] = NULL /\ cpc[c] # "reload_zero" => time_left[c] = 0
  BY DEF OsInv, CpuInv
<1>4. SchedInv
  BY DEF OsInv
<1>5. (UNCHANGED schedVars) => UNCHANGED <<proc, finished, Ready>>
  BY DEF schedVars, Ready, Waiting
<1>6. ASSUME proc[c] = NULL, Reload(c)
      PROVE  /\ \/ proc'[c] = NULL /\ Ready = {} /\ Ready' = {}
                \/ proc'[c] # NULL /\ proc'[c] \in Ready /\ Ready' = Ready \ {proc'[c]}
             /\ waited' = waited \ {proc'[c]} /\ finished' = finished
  BY <1>4, <1>6, GetTakesReady DEF Reload
<1>7. CASE cpu_first_load(c)
  BY <1>2, <1>3, <1>6, <1>7 DEF cpu_first_load, Running, slotVars, Gets
<1>8. CASE cpu_finish(c)
  <2>1. proc[c] \in Proc /\ proc'[c] = NULL /\ finished' = finished \cup {proc[c]} /\ Ready' = Ready
    BY <1>4, <1>8, FinishLeavesReady DEF cpu_finish
  <2> QED  BY <1>2, <1>8, <2>1 DEF cpu_finish, Running, slotVars, Finishes
<1>9. CASE cpu_finish_reload(c)
  <2>1. time_left'[c] = 0
    BY <1>1, <1>9 DEF cpu_finish_reload
  <2> QED  BY <1>2, <1>3, <1>6, <1>9, <2>1 DEF cpu_finish_reload, Running, slotVars, Gets
<1>10. CASE cpu_requeue(c)
  <2>1. /\ finished' = finished /\ proc'[c] = NULL /\ proc[c] \in Proc
        /\ Ready' = Ready \cup {proc[c]} /\ proc[c] \notin Ready
    BY <1>4, <1>10, PutMakesReady DEF cpu_requeue
  <2> QED  BY <1>2, <1>10, <2>1 DEF cpu_requeue, Running, slotVars, Requeues
<1>11. CASE cpu_requeue_reload(c)
  <2>1. time_left'[c] = 0
    BY <1>3, <1>11 DEF cpu_requeue_reload, Running
  <2> QED  BY <1>2, <1>3, <1>6, <1>11, <2>1 DEF cpu_requeue_reload, Running, slotVars, Gets
<1>12. CASE cpu_continue(c)
  BY <1>2, <1>5, <1>12 DEF cpu_continue, Running, slotVars, Passes
<1>13. CASE cpu_stop(c)
  BY <1>2, <1>5, <1>13 DEF cpu_stop, Running, slotVars, Passes
<1>14. CASE cpu_skip_slot(c)
  BY <1>2, <1>5, <1>14 DEF cpu_skip_slot, Running, slotVars, Passes
<1>15. CASE cpu_run(c)
  <2>1. proc[c] \in Proc
    BY <1>1, <1>15 DEF cpu_run
  <2> QED  BY <1>2, <1>5, <1>15, <2>1 DEF cpu_run, Running, slotVars, Runs
<1>16. CASE cpu_next_slot(c)
  <2>1. phase'[c] = "arrived"
    BY <1>1, <1>16 DEF cpu_next_slot, B!Arrive
  <2> QED  BY <1>2, <1>5, <1>16, <2>1 DEF cpu_next_slot, Running, Leaves
<1>17. CASE cpu_detach(c)
  <2>1. phase'[c] = "finished"
    BY <1>1, <1>17 DEF cpu_detach, B!Finish
  <2> QED  BY <1>2, <1>5, <1>17, <2>1 DEF cpu_detach, Running, Leaves
<1> QED
  BY <1>7, <1>8, <1>9, <1>10, <1>11, <1>12, <1>13, <1>14, <1>15, <1>16, <1>17 DEF cpu_routine

-----------------------------------------------------------------------------
(* Every part of the invariant is kept.                                    *)

\* A step is the timer's, the loader's, or a CPU's.
LEMMA StepCases ==
  ASSUME [OsNext]_osVars
  PROVE  /\ UNCHANGED config
         /\ \/ timer_routine
            \/ ld_routine
            \/ \E c \in Cpu : cpu_routine(c)
            \/ UNCHANGED osVars
BY DEF OsNext, osVars

\* What ld_add and ld_next do to the processes loaded so far.
LEMMA LoadedGrows ==
  ASSUME NEW n \in Nat
  PROVE  /\ FirstOfOrder(n + 1) = FirstOfOrder(n) \cup {order[n + 1]}
         /\ FirstOfOrder(Len(order)) = Proc
<1>1. 1 .. n + 1 = (1 .. n) \cup {n + 1}
  BY SMTT(30)
<1>2. FirstOfOrder(n + 1) = FirstOfOrder(n) \cup {order[n + 1]}
  BY <1>1 DEF FirstOfOrder
<1>3. FirstOfOrder(Len(order)) = Proc
  BY OsAssumption DEF FirstOfOrder, Elements
<1> QED  BY <1>2, <1>3

\* ld_routine() keeps its own part of the invariant.
LEMMA LoaderKeepsLoaderInv ==
  ASSUME OsInv, ld_routine
  PROVE  LoaderInv' /\ li' \in 1 .. Len(order) + 1 /\ lpc' \in {"load", "added", "detach", "exited"}
                    /\ done' \in BOOLEAN
<1>1. /\ li \in 1 .. Len(order) + 1 /\ lpc \in {"load", "added", "detach", "exited"}
      /\ done \in BOOLEAN /\ Len(order) \in Nat
      /\ phase \in [Dev -> B!Phase] /\ Ld \in Dev
  BY OsAssumption, SMTT(30) DEF OsInv, OsTypeOK, B!BarrierTypeOK, Dev
<1>2. LoaderInv
  BY DEF OsInv
<1>3. ~aborted /\ phase[Ld] = "working"
  BY LoaderFrame
<1>4. CASE ld_wait
  <2>1. /\ lpc = "load" /\ UNCHANGED <<done, li, lpc, loaded, aborted>>
        /\ phase' = [phase EXCEPT ![Ld] = "arrived"]
    BY <1>4 DEF ld_wait, Loading, schedVars, ldVars, B!Arrive
  <2>2. phase'[Ld] = "arrived"
    BY <1>1, <2>1
  <2> QED  BY <1>1, <1>2, <1>3, <2>1, <2>2 DEF LoaderInv
<1>5. CASE ld_add
  <2>1. /\ lpc = "load" /\ lpc' = "added" /\ li <= Len(order) /\ add_proc(order[li])
        /\ UNCHANGED <<done, li, phase>>
    BY <1>5 DEF ld_add, Loading, slotVars
  <2>2. loaded' = loaded \cup {order[li]} \/ aborted'
    BY <2>1 DEF add_proc, add_mlq_proc, add_mlq_proc_fails
  <2>3. ~done /\ loaded = FirstOfOrder(li - 1) /\ li - 1 \in Nat
    BY <1>1, <1>2, <1>3, <2>1, SMTT(30) DEF LoaderInv
  <2>4. ~aborted' => loaded' = FirstOfOrder(li)
    <3>1. FirstOfOrder((li - 1) + 1) = FirstOfOrder(li - 1) \cup {order[(li - 1) + 1]}
      BY <2>3, LoadedGrows
    <3>2. (li - 1) + 1 = li
      BY <1>1, SMTT(30)
    <3> QED  BY <2>2, <2>3, <3>1, <3>2
  <2> QED  BY <1>1, <1>2, <1>3, <2>1, <2>3, <2>4 DEF LoaderInv
<1>6. CASE ld_next
  <2>1. /\ lpc = "added" /\ lpc' = "load" /\ li' = li + 1 /\ UNCHANGED <<done, loaded, aborted>>
        /\ phase' = [phase EXCEPT ![Ld] = "arrived"]
    BY <1>6 DEF ld_next, Loading, schedVars, B!Arrive
  <2>2. phase'[Ld] = "arrived"
    BY <1>1, <2>1
  <2>3. ~done /\ loaded = FirstOfOrder(li) /\ li <= Len(order)
    BY <1>1, <1>2, <1>3, <2>1 DEF LoaderInv
  <2>4. li' - 1 = li /\ li' \in 1 .. Len(order) + 1
    BY <1>1, <2>1, <2>3, SMTT(30)
  <2> QED  BY <1>1, <1>2, <1>3, <2>1, <2>2, <2>3, <2>4 DEF LoaderInv
<1>7. CASE ld_set_done
  <2>1. /\ lpc = "load" /\ lpc' = "detach" /\ li > Len(order) /\ done' = TRUE
        /\ UNCHANGED <<li, loaded, aborted, phase>>
    BY <1>7 DEF ld_set_done, Loading, schedVars, slotVars
  <2>2. ~done /\ loaded = FirstOfOrder(li - 1)
    BY <1>1, <1>2, <1>3, <2>1 DEF LoaderInv
  <2>3. li - 1 = Len(order)
    BY <1>1, <2>1, SMTT(30)
  <2>4. loaded' = Proc
    BY <1>1, <2>1, <2>2, <2>3, LoadedGrows
  <2> QED  BY <1>1, <1>2, <1>3, <2>1, <2>4 DEF LoaderInv
<1>8. CASE ld_detach
  <2>1. /\ lpc = "detach" /\ lpc' = "exited" /\ UNCHANGED <<done, li, loaded, aborted>>
        /\ phase' = [phase EXCEPT ![Ld] = "finished"]
    BY <1>8 DEF ld_detach, Loading, schedVars, B!Finish
  <2>2. phase'[Ld] = "finished"
    BY <1>1, <2>1
  <2> QED  BY <1>1, <1>2, <1>3, <2>1, <2>2 DEF LoaderInv
<1> QED  BY <1>4, <1>5, <1>6, <1>7, <1>8 DEF ld_routine

\* Every step keeps LoaderInv.
LEMMA LoaderInvKept ==
  ASSUME OsInv, [OsNext]_osVars
  PROVE  LoaderInv'
<1>0. LoaderInv /\ Ld \in Dev
  BY DEF OsInv, Dev
<1>1. CASE timer_routine
  <2>1. UNCHANGED <<done, li, lpc, loaded, aborted>>
    BY <1>1, TimerFrame DEF schedVars, ldVars
  <2> QED  BY <1>0, <1>1, <2>1, TimerFrame DEF LoaderInv
<1>2. CASE ld_routine
  BY <1>2, LoaderKeepsLoaderInv
<1>3. ASSUME NEW c \in Cpu, cpu_routine(c) PROVE LoaderInv'
  <2>1. UNCHANGED <<done, li, lpc, loaded, aborted>> /\ phase'[Ld] = phase[Ld]
    BY <1>3, CpuFrame, CpuCallsSched DEF ldVars
  <2> QED  BY <1>0, <2>1 DEF LoaderInv
<1>4. CASE UNCHANGED osVars
  BY <1>0, <1>4 DEF LoaderInv, osVars, schedVars, ldVars, slotVars
<1> QED  BY <1>1, <1>2, <1>3, <1>4, StepCases

\* Every step keeps CpuInv.
LEMMA CpuInvKept ==
  ASSUME OsInv, [OsNext]_osVars
  PROVE  CpuInv'
<1>0. CpuInv /\ Cpu \subseteq Dev
  BY DEF OsInv, Dev
<1>1. CASE timer_routine
  <2>1. UNCHANGED <<done, proc, cpc, time_left>>
    BY <1>1, TimerFrame DEF schedVars, ldVars, cpuVars
  <2> QED  BY <1>0, <1>1, <2>1, TimerFrame DEF CpuInv, Stopped
<1>2. CASE ld_routine
  <2>1. /\ UNCHANGED <<proc, cpc, time_left>> /\ \A c \in Cpu : phase'[c] = phase[c]
    BY <1>2, LoaderFrame
  <2>2. done => done'
    BY <1>2 DEF ld_routine, ld_wait, ld_add, ld_next, ld_set_done, ld_detach, ldVars
  <2> QED  BY <1>0, <2>1, <2>2 DEF CpuInv, Stopped
<1>3. ASSUME NEW c \in Cpu, cpu_routine(c) PROVE CpuInv'
  <2>1. /\ done' = done /\ phase[c] = "working"
        /\ \A d \in Cpu : d # c => /\ cpc'[d] = cpc[d] /\ proc'[d] = proc[d]
                                   /\ phase'[d] = phase[d] /\ time_left'[d] = time_left[d]
    BY <1>3, CpuFrame DEF ldVars
  <2>2. Gets(c) \/ Finishes(c) \/ Requeues(c) \/ Runs(c) \/ Passes(c) \/ Leaves(c)
    BY <1>3, SchedInvKept, CpuEffects
  <2>3. /\ cpc'[c] \in {"reload", "reload_zero"} => proc'[c] = NULL
        /\ Stopped(c)' => proc'[c] = NULL /\ done
        /\ phase'[c] = "finished" <=> cpc'[c] = "exited"
        /\ phase'[c] = "arrived" => cpc'[c] = "top"
        /\ proc'[c] = NULL /\ cpc'[c] # "reload_zero" => time_left'[c] = 0
    <3>0. NULL \notin Proc
      BY SchedAssumption
    <3>1. CASE Gets(c)
      BY <1>0, <2>1, <3>1 DEF Gets, Stopped, CpuInv
    <3>2. CASE Finishes(c)
      BY <1>0, <2>1, <3>2 DEF Finishes, Stopped, CpuInv
    <3>3. CASE Requeues(c)
      BY <1>0, <2>1, <3>3 DEF Requeues, Stopped, CpuInv
    <3>4. CASE Runs(c)
      BY <1>0, <2>1, <3>0, <3>4 DEF Runs, Stopped, CpuInv
    <3>5. CASE Passes(c)
      BY <1>0, <2>1, <3>5 DEF Passes, Stopped, CpuInv
    <3>6. CASE Leaves(c)
      BY <1>0, <2>1, <3>6 DEF Leaves, Stopped, CpuInv
    <3> QED  BY <2>2, <3>1, <3>2, <3>3, <3>4, <3>5, <3>6
  <2>4. ASSUME NEW d \in Cpu, d # c
        PROVE  /\ cpc'[d] \in {"reload", "reload_zero"} => proc'[d] = NULL
               /\ Stopped(d)' => proc'[d] = NULL /\ done
               /\ phase'[d] = "finished" <=> cpc'[d] = "exited"
               /\ phase'[d] = "arrived" => cpc'[d] = "top"
               /\ proc'[d] = NULL /\ cpc'[d] # "reload_zero" => time_left'[d] = 0
    BY <1>0, <2>1, <2>4 DEF CpuInv, Stopped
  <2> QED  BY <2>1, <2>3, <2>4 DEF CpuInv
<1>4. CASE UNCHANGED osVars
  BY <1>0, <1>4 DEF CpuInv, Stopped, osVars, schedVars, ldVars, slotVars, cpuVars
<1> QED  BY <1>1, <1>2, <1>3, <1>4, StepCases

\* run() moves a pc by at most one, never past the end of the code.
LEMMA RunAdvances ==
  ASSUME OsTypeOK, RunsToItsEnd, NEW p \in Proc
  PROVE  /\ run(p) \in [Proc -> Nat]
         /\ \A x \in Proc : x # p => run(p)[x] = pc[x]
         /\ pc[p] = size[p] => run(p) = pc
         /\ run(p)[p] <= size[p]
<1>1. pc \in [Proc -> Nat] /\ size \in [Proc -> Nat] /\ pc[p] <= size[p]
  BY DEF OsTypeOK, RunsToItsEnd
<1>2. CASE pc[p] >= size[p]
  BY <1>1, <1>2 DEF run
<1>3. CASE ~(pc[p] >= size[p])
  BY <1>1, <1>3, SMTT(30) DEF run
<1> QED  BY <1>2, <1>3

\* Every step keeps RunsToItsEnd.
LEMMA RunsToItsEndKept ==
  ASSUME OsInv, [OsNext]_osVars
  PROVE  RunsToItsEnd'
<1>0. RunsToItsEnd /\ OsTypeOK /\ size' = size
  BY StepCases DEF OsInv, config
<1>1. CASE timer_routine
  BY <1>0, <1>1, TimerFrame DEF RunsToItsEnd, schedVars, cpuVars
<1>2. CASE ld_routine
  BY <1>0, <1>2, LoaderFrame DEF RunsToItsEnd
<1>3. ASSUME NEW c \in Cpu, cpu_routine(c) PROVE RunsToItsEnd'
  <2>1. Gets(c) \/ Finishes(c) \/ Requeues(c) \/ Runs(c) \/ Passes(c) \/ Leaves(c)
    BY <1>3, SchedInvKept, CpuEffects
  <2>2. CASE Runs(c)
    <3>1. proc[c] \in Proc /\ pc' = run(proc[c]) /\ finished' = finished
      BY <2>2 DEF Runs
    <3>2. proc[c] \notin finished
      BY <3>1, SchedAssumption DEF OsInv, SchedInv, OneHome, HeldOnce, Live
    <3> QED  BY <1>0, <3>1, <3>2, RunAdvances DEF RunsToItsEnd
  <2>3. CASE Finishes(c)
    BY <1>0, <2>3 DEF Finishes, RunsToItsEnd
  <2>4. CASE ~Runs(c) /\ ~Finishes(c)
    BY <1>0, <2>1, <2>4 DEF Gets, Requeues, Passes, Leaves, RunsToItsEnd
  <2> QED  BY <2>2, <2>3, <2>4
<1>4. CASE UNCHANGED osVars
  BY <1>0, <1>4 DEF RunsToItsEnd, osVars, schedVars, cpuVars
<1> QED  BY <1>1, <1>2, <1>3, <1>4, StepCases

\* Every step keeps the types.
LEMMA OsTypeKept ==
  ASSUME OsInv, [OsNext]_osVars
  PROVE  OsTypeOK'
<1>0. OsTypeOK /\ RunsToItsEnd /\ SchedTypeOK'
  BY SchedInvKept DEF OsInv, SchedInv
<1>1. UNCHANGED config
  BY StepCases
<1>2. CASE timer_routine
  <2>1. B!BarrierTypeOK'
    BY <1>2, TimerFrame DEF B!BarrierTypeOK
  <2>2. ran' \in SUBSET Proc /\ waited' \in SUBSET Proc
    BY <1>0, <1>2 DEF OsTypeOK, timer_routine, Tick, StopClock
  <2> QED  BY <1>0, <1>1, <1>2, <2>1, <2>2, TimerFrame DEF OsTypeOK, config, ldVars, cpuVars
<1>3. CASE ld_routine
  <2>1. B!BarrierTypeOK'
    BY <1>0, <1>3, LoaderFrame DEF OsTypeOK, B!BarrierTypeOK
  <2> QED
    BY <1>0, <1>1, <1>3, <2>1, LoaderFrame, LoaderKeepsLoaderInv DEF OsTypeOK, config
<1>4. ASSUME NEW c \in Cpu, cpu_routine(c) PROVE OsTypeOK'
  <2>1. B!BarrierTypeOK'
    BY <1>0, <1>4, CpuFrame DEF OsTypeOK, B!BarrierTypeOK
  <2>2. Gets(c) \/ Finishes(c) \/ Requeues(c) \/ Runs(c) \/ Passes(c) \/ Leaves(c)
    BY <1>4, SchedInvKept, CpuEffects
  <2>3. pc' \in [Proc -> Nat] /\ ran' \in SUBSET Proc
    <3>1. CASE Runs(c)
      BY <1>0, <3>1, RunAdvances DEF Runs, OsTypeOK
    <3>2. CASE ~Runs(c)
      BY <1>0, <2>2, <3>2 DEF Gets, Finishes, Requeues, Passes, Leaves, OsTypeOK
    <3> QED  BY <3>1, <3>2
  <2>4. waited' \in SUBSET Proc
    BY <1>0, <2>2 DEF Gets, Finishes, Requeues, Runs, Passes, Leaves, OsTypeOK
  <2>5. cpc' \in [Cpu -> CpuPoints] /\ time_left' \in [Cpu -> Int] /\ UNCHANGED ldVars
    BY <1>4, CpuFrame
  <2> QED
    BY <1>0, <1>1, <2>1, <2>3, <2>4, <2>5 DEF OsTypeOK, config, ldVars, CpuPoints
<1>5. CASE UNCHANGED osVars
  BY <1>0, <1>5 DEF OsTypeOK, B!BarrierTypeOK, osVars, config, ldVars, slotVars, cpuVars
<1> QED  BY <1>2, <1>3, <1>4, <1>5, StepCases

\* Every step keeps RanInv: a process that has run stays on its CPU until the
\* slot is over.
LEMMA RanInvKept ==
  ASSUME OsInv, [OsNext]_osVars
  PROVE  RanInv'
<1>0. RanInv
  BY DEF OsInv
<1>1. CASE timer_routine
  <2>1. CASE Tick
    BY <2>1 DEF Tick, RanInv
  <2>2. CASE StopClock
    BY <1>0, <2>2 DEF StopClock, B!Stop, RanInv, schedVars, cpuVars
  <2> QED  BY <1>1, <2>1, <2>2 DEF timer_routine
<1>2. CASE ld_routine
  BY <1>0, <1>2, LoaderFrame, SMTT(30) DEF RanInv
<1>3. ASSUME NEW c \in Cpu, cpu_routine(c) PROVE RanInv'
  <2>1. /\ phase[c] = "working"
        /\ \A d \in Cpu : d # c => /\ cpc'[d] = cpc[d] /\ proc'[d] = proc[d]
                                   /\ phase'[d] = phase[d]
    BY <1>3, CpuFrame
  <2>2. Gets(c) \/ Finishes(c) \/ Requeues(c) \/ Runs(c) \/ Passes(c) \/ Leaves(c)
    BY <1>3, SchedInvKept, CpuEffects
  <2>3. ASSUME cpc[c] # "slot", ran' = ran PROVE RanInv'
    <3> SUFFICES ASSUME NEW p \in ran
                 PROVE  \E d \in Cpu : proc'[d] = p /\ (cpc'[d] = "slot" \/ phase'[d] = "arrived")
      BY <2>3 DEF RanInv
    <3>1. PICK d \in Cpu : proc[d] = p /\ (cpc[d] = "slot" \/ phase[d] = "arrived")
      BY <1>0 DEF RanInv
    <3>2. d # c
      BY <2>1, <2>3, <3>1
    <3> QED  BY <2>1, <3>1, <3>2
  <2>4. CASE Runs(c)
    <3> SUFFICES ASSUME NEW p \in ran'
                 PROVE  \E d \in Cpu : proc'[d] = p /\ (cpc'[d] = "slot" \/ phase'[d] = "arrived")
      BY DEF RanInv
    <3>1. CASE p = proc[c]
      BY <2>4, <3>1 DEF Runs
    <3>2. CASE p # proc[c]
      <4>1. PICK d \in Cpu : proc[d] = p /\ (cpc[d] = "slot" \/ phase[d] = "arrived")
        BY <1>0, <2>4, <3>2 DEF RanInv, Runs
      <4>2. d # c
        BY <3>2, <4>1
      <4> QED  BY <2>1, <4>1, <4>2
    <3> QED  BY <3>1, <3>2
  <2>5. CASE Leaves(c)
    <3> SUFFICES ASSUME NEW p \in ran
                 PROVE  \E d \in Cpu : proc'[d] = p /\ (cpc'[d] = "slot" \/ phase'[d] = "arrived")
      BY <2>5 DEF RanInv, Leaves
    <3>1. PICK d \in Cpu : proc[d] = p /\ (cpc[d] = "slot" \/ phase[d] = "arrived")
      BY <1>0 DEF RanInv
    <3>2. CASE d = c
      BY <2>1, <2>5, <3>1, <3>2 DEF Leaves
    <3>3. CASE d # c
      BY <2>1, <3>1, <3>3
    <3> QED  BY <3>2, <3>3
  <2> QED  BY <2>2, <2>3, <2>4, <2>5 DEF Gets, Finishes, Requeues, Passes
<1>4. CASE UNCHANGED osVars
  BY <1>0, <1>4 DEF RanInv, osVars, schedVars, slotVars, cpuVars
<1> QED  BY <1>1, <1>2, <1>3, <1>4, StepCases

\* When nobody works, no CPU is between put_proc() and get_proc(), and the CPUs
\* that have stopped have nobody waiting.
LEMMA NobodyWaitsForStopped ==
  ASSUME OsInv, \A d \in Dev : phase[d] # "working"
  PROVE  /\ \A c \in Cpu : cpc[c] \in {"top", "exited"}
         /\ (\E c \in Cpu : Stopped(c)) => Ready = {}
<1>1. \A c \in Cpu : phase[c] \in {"arrived", "finished"}
  BY DEF OsInv, OsTypeOK, B!BarrierTypeOK, B!Phase, Dev
<1>2. \A c \in Cpu : cpc[c] \in {"top", "exited"}
  BY <1>1 DEF OsInv, CpuInv
<1>3. ASSUME NEW c \in Cpu, Stopped(c) PROVE Ready = {}
  <2>1. LoaderQuiet
    BY <1>3 DEF OsInv, CpuInv, LoaderInv, LoaderQuiet
  <2>2. PICK f \in [Ready -> Requeuing] : Injective(f)
    BY <1>3, <2>1 DEF OsInv, SeenEmpty, Idle
  <2>3. Requeuing = {}
    BY <1>2 DEF Requeuing
  <2> QED  BY <2>2, <2>3
<1> QED  BY <1>2, <1>3

\* Every step keeps WaitedInv.
LEMMA WaitedInvKept ==
  ASSUME OsInv, [OsNext]_osVars
  PROVE  WaitedInv'
<1>0. WaitedInv /\ Cpu \subseteq Dev
  BY DEF OsInv, Dev
<1>1. CASE timer_routine
  <2>0. /\ UNCHANGED <<proc, cpc, Ready>>
        /\ \A d \in Dev : phase[d] # "working"
        /\ \A d \in Dev : (phase'[d] = "finished") <=> (phase[d] = "finished")
        /\ \A d \in Dev : phase'[d] # "arrived" /\ phase'[d] \in B!Phase
    BY <1>1, TimerFrame DEF schedVars, cpuVars, Ready, Waiting
  <2>1. CASE Tick
    <3>1. waited' = Ready
      BY <2>1 DEF Tick, Ready
    <3>2. ASSUME NEW c \in Cpu, phase'[c] # "working" \/ cpc'[c] \in {"recheck", "slot", "detach"}
          PROVE  Ready = {}
      <4>1. cpc[c] \in {"top", "exited"} /\ (phase[c] = "finished" <=> cpc[c] = "exited")
        BY <2>0, NobodyWaitsForStopped DEF OsInv, CpuInv
      <4>2. phase'[c] = "finished"
        BY <1>0, <2>0, <3>2, <4>1 DEF B!Phase
      <4>3. Stopped(c)
        BY <1>0, <2>0, <4>1, <4>2 DEF Stopped
      <4> QED  BY <2>0, <4>3, NobodyWaitsForStopped
    <3> QED  BY <2>0, <3>1, <3>2 DEF WaitedInv
  <2>2. CASE StopClock
    <3>1. UNCHANGED <<phase, waited>>
      BY <2>2 DEF StopClock, B!Stop
    <3> QED  BY <1>0, <2>0, <3>1 DEF WaitedInv
  <2> QED  BY <1>1, <2>1, <2>2 DEF timer_routine
<1>2. CASE ld_routine
  <2>1. UNCHANGED <<proc, cpc, waited>> /\ \A c \in Cpu : phase'[c] = phase[c]
    BY <1>2, LoaderFrame
  <2>2. Ready \subseteq Ready'
    <3>1. CASE ld_add
      <4>1. order[li] \in Proc /\ add_proc(order[li])
        BY <3>1, OsAssumption, SMTT(30) DEF ld_add, OsInv, OsTypeOK
      <4> QED  BY <4>1, SchedInvKept, AddKeepsReady DEF OsInv
    <3>2. CASE UNCHANGED schedVars
      BY <3>2 DEF schedVars, Ready, Waiting
    <3> QED
      BY <1>2, <3>1, <3>2 DEF ld_routine, ld_wait, ld_next, ld_set_done, ld_detach
  <2> QED  BY <1>0, <2>1, <2>2 DEF WaitedInv
<1>3. ASSUME NEW c \in Cpu, cpu_routine(c) PROVE WaitedInv'
  <2>1. /\ phase[c] = "working"
        /\ \A d \in Cpu : d # c => /\ cpc'[d] = cpc[d] /\ proc'[d] = proc[d]
                                   /\ phase'[d] = phase[d]
    BY <1>3, CpuFrame
  <2>2. Gets(c) \/ Finishes(c) \/ Requeues(c) \/ Runs(c) \/ Passes(c) \/ Leaves(c)
    BY <1>3, SchedInvKept, CpuEffects
  <2>3. waited' \subseteq waited /\ waited' \subseteq Ready'
    BY <1>0, <2>2 DEF Gets, Finishes, Requeues, Runs, Passes, Leaves, WaitedInv
  <2>4. waited' # {} /\ (phase'[c] # "working" \/ cpc'[c] \in {"recheck", "slot", "detach"})
          => proc'[c] # NULL
    <3>1. CASE Gets(c)
      BY <2>1, <2>3, <3>1 DEF Gets
    <3>2. CASE Finishes(c) \/ Requeues(c)
      BY <2>1, <3>2 DEF Finishes, Requeues
    <3>3. CASE Runs(c)
      BY <1>0, <2>1, <3>3 DEF Runs, WaitedInv
    <3>4. CASE Passes(c)
      BY <1>0, <2>1, <3>4 DEF Passes, WaitedInv
    <3>5. CASE Leaves(c)
      BY <1>0, <2>1, <3>5 DEF Leaves, WaitedInv
    <3> QED  BY <2>2, <3>1, <3>2, <3>3, <3>4, <3>5
  <2>5. ASSUME NEW d \in Cpu, d # c, waited' # {},
               phase'[d] # "working" \/ cpc'[d] \in {"recheck", "slot", "detach"}
        PROVE  proc'[d] # NULL
    BY <1>0, <2>1, <2>3, <2>5 DEF WaitedInv
  <2> QED  BY <2>3, <2>4, <2>5 DEF WaitedInv
<1>4. CASE UNCHANGED osVars
  BY <1>0, <1>4 DEF WaitedInv, Ready, Waiting, osVars, schedVars, slotVars, cpuVars
<1> QED  BY <1>1, <1>2, <1>3, <1>4, StepCases

\* The CPUs about to ask again outnumber what they have put back: taking one
\* process from the queues and one CPU from those about to ask keeps it so ...
LEMMA InjectionShrinks ==
  ASSUME NEW S, NEW T, NEW f \in [S -> T], Injective(f), NEW x \in S, NEW c
  PROVE  \E g \in [S \ {x} -> T \ {c}] : Injective(g)
<1> DEFINE g == [p \in S \ {x} |-> IF f[p] = c THEN f[x] ELSE f[p]]
<1>1. \A p \in S \ {x} : g[p] \in T \ {c}
  BY DEF Injective
<1>2. Injective(g)
  <2> SUFFICES ASSUME NEW p \in S \ {x}, NEW q \in S \ {x}, g[p] = g[q] PROVE p = q
    BY DEF Injective
  <2>1. \A a, b \in S : f[a] = f[b] => a = b
    BY DEF Injective
  <2> QED  BY <2>1
<1>3. g \in [S \ {x} -> T \ {c}]
  BY <1>1
<1> QED  BY <1>2, <1>3

\* ... and so does adding one to each.
LEMMA InjectionGrows ==
  ASSUME NEW S, NEW T, NEW f \in [S -> T], Injective(f), NEW x, x \notin S, NEW c, c \notin T
  PROVE  \E g \in [S \cup {x} -> T \cup {c}] : Injective(g)
<1> DEFINE g == [p \in S \cup {x} |-> IF p = x THEN c ELSE f[p]]
<1>1. g \in [S \cup {x} -> T \cup {c}]
  OBVIOUS
<1>2. Injective(g)
  <2> SUFFICES ASSUME NEW p \in S \cup {x}, NEW q \in S \cup {x}, g[p] = g[q] PROVE p = q
    BY DEF Injective
  <2>1. \A a, b \in S : f[a] = f[b] => a = b
    BY DEF Injective
  <2>2. \A a \in S : f[a] # c
    OBVIOUS
  <2> QED  BY <2>1, <2>2
<1> QED  BY <1>1, <1>2

\* Every step keeps SeenEmpty.
LEMMA SeenEmptyKept ==
  ASSUME OsInv, [OsNext]_osVars
  PROVE  SeenEmpty'
<1>0. SeenEmpty /\ Ld \in Dev
  BY DEF OsInv, Dev
<1>1. CASE timer_routine
  <2>1. /\ UNCHANGED <<proc, cpc, Ready, lpc>>
        /\ \A d \in Dev : phase[d] # "working"
    BY <1>1, TimerFrame DEF schedVars, cpuVars, ldVars, Ready, Waiting
  <2>2. ASSUME NEW c \in Cpu, Idle(c) PROVE LoaderQuiet
    <3>1. Stopped(c)
      BY <2>1, <2>2, NobodyWaitsForStopped DEF Idle
    <3> QED  BY <3>1 DEF OsInv, CpuInv, LoaderInv, LoaderQuiet
  <2>3. \A c \in Cpu : Idle(c)' <=> Idle(c)
    BY <2>1 DEF Idle, Stopped
  <2>4. Requeuing' = Requeuing
    BY <2>1 DEF Requeuing
  <2> QED  BY <1>0, <2>1, <2>2, <2>3, <2>4 DEF SeenEmpty
<1>2. CASE ld_routine
  <2>1. UNCHANGED <<proc, cpc>> /\ phase[Ld] = "working"
    BY <1>2, LoaderFrame
  <2>2. CASE ld_wait \/ ld_next
    <3>1. lpc' = "load" /\ phase' = [phase EXCEPT ![Ld] = "arrived"]
      BY <2>2 DEF ld_wait, ld_next, Loading, ldVars, B!Arrive
    <3>2. phase \in [Dev -> B!Phase]
      BY DEF OsInv, OsTypeOK, B!BarrierTypeOK
    <3>3. phase'[Ld] = "arrived"
      BY <1>0, <3>1, <3>2
    <3> QED  BY <3>1, <3>3 DEF SeenEmpty, LoaderQuiet
  <2>3. CASE ld_add
    BY <2>3 DEF ld_add, SeenEmpty, LoaderQuiet
  <2>4. CASE ld_set_done \/ ld_detach
    <3>1. LoaderQuiet /\ UNCHANGED schedVars
      BY <2>1, <2>4 DEF ld_set_done, ld_detach, Loading, LoaderQuiet
    <3>2. Ready' = Ready /\ Requeuing' = Requeuing
      BY <2>1, <3>1 DEF Ready, Waiting, Requeuing, schedVars
    <3>3. \A c \in Cpu : Idle(c)' <=> Idle(c)
      BY <2>1 DEF Idle, Stopped
    <3> QED  BY <1>0, <3>1, <3>2, <3>3 DEF SeenEmpty
  <2> QED  BY <1>2, <2>2, <2>3, <2>4 DEF ld_routine
<1>3. ASSUME NEW c \in Cpu, cpu_routine(c) PROVE SeenEmpty'
  <2>1. /\ \A d \in Cpu : d # c => cpc'[d] = cpc[d] /\ proc'[d] = proc[d]
        /\ LoaderQuiet' <=> LoaderQuiet
    BY <1>3, CpuFrame DEF ldVars, LoaderQuiet
  <2>2. Gets(c) \/ Finishes(c) \/ Requeues(c) \/ Runs(c) \/ Passes(c) \/ Leaves(c)
    BY <1>3, SchedInvKept, CpuEffects
  <2>3. \A d \in Cpu : d # c => (Idle(d)' <=> Idle(d))
    BY <2>1 DEF Idle, Stopped
  <2>4. SUFFICES ASSUME LoaderQuiet, NEW d \in Cpu, Idle(d)'
                 PROVE  \E g \in [Ready' -> Requeuing'] : Injective(g)
    BY <2>1, <2>3 DEF SeenEmpty
  <2>5. CASE Gets(c)
    <3>1. Requeuing' = Requeuing \ {c}
      BY <2>1, <2>5 DEF Gets, Requeuing
    <3>2. CASE proc'[c] = NULL
      <4> DEFINE g == [p \in {} |-> p]
      <4>1. Ready' = {}
        BY <2>5, <3>2 DEF Gets
      <4>2. g \in [{} -> Requeuing'] /\ Injective(g)
        BY DEF Injective
      <4> QED  BY <4>1, <4>2
    <3>3. CASE proc'[c] # NULL
      <4>1. d # c
        BY <2>4, <2>5, <3>3 DEF Gets, Idle, Stopped
      <4>2. PICK f \in [Ready -> Requeuing] : Injective(f)
        BY <1>0, <2>3, <2>4, <4>1 DEF SeenEmpty
      <4>3. proc'[c] \in Ready /\ Ready' = Ready \ {proc'[c]}
        BY <2>5, <3>3 DEF Gets
      <4> QED  BY <3>1, <4>2, <4>3, InjectionShrinks
    <3> QED  BY <3>2, <3>3
  <2>6. CASE Requeues(c)
    <3>1. d # c
      BY <2>4, <2>6 DEF Requeues, Idle, Stopped
    <3>2. PICK f \in [Ready -> Requeuing] : Injective(f)
      BY <1>0, <2>3, <2>4, <3>1 DEF SeenEmpty
    <3>3. Requeuing' = Requeuing \cup {c} /\ c \notin Requeuing
      BY <2>1, <2>6 DEF Requeues, Requeuing
    <3>4. Ready' = Ready \cup {proc[c]} /\ proc[c] \notin Ready
      BY <2>6 DEF Requeues
    <3> QED  BY <3>2, <3>3, <3>4, InjectionGrows
  <2>7. CASE Finishes(c) \/ Runs(c) \/ Passes(c) \/ Leaves(c)
    <3>1. Ready' = Ready
      BY <2>7 DEF Finishes, Runs, Passes, Leaves
    <3>2. Requeuing' = Requeuing
      BY <2>1, <2>7 DEF Finishes, Runs, Passes, Leaves, Requeuing
    <3>3. Idle(c)' => Idle(c)
      BY <2>7, SchedAssumption DEF Finishes, Runs, Passes, Leaves, Idle, Stopped
    <3> QED  BY <1>0, <2>3, <2>4, <3>1, <3>2, <3>3 DEF SeenEmpty
  <2> QED  BY <2>2, <2>5, <2>6, <2>7
<1>4. CASE UNCHANGED osVars
  BY <1>0, <1>4 DEF SeenEmpty, Idle, Stopped, LoaderQuiet, Ready, Requeuing, Waiting,
                    osVars, schedVars, ldVars, slotVars, cpuVars
<1> QED  BY <1>1, <1>2, <1>3, <1>4, StepCases

\* What read_config() and the initialisations in main() establish.
LEMMA OsInitInv == OsInit => OsInv
<1> SUFFICES ASSUME OsInit PROVE OsInv
  OBVIOUS
<1>1. SchedInv
  BY InitInv DEF OsInit
<1>2. /\ start_time \in [Proc -> Nat] /\ size \in [Proc -> Nat] /\ time_slot \in Nat
  BY OsAssumption, SMTT(30) DEF OsInit, read_config
<1>3. /\ proc = [c \in Cpu |-> NULL] /\ loaded = {} /\ finished = {} /\ aborted = FALSE
      /\ time = 0 /\ phase = [d \in Dev |-> "working"] /\ stopped = FALSE
      /\ done = FALSE /\ li = 1 /\ lpc = "load" /\ cpc = [c \in Cpu |-> "top"]
      /\ time_left = [c \in Cpu |-> 0] /\ pc = [p \in Proc |-> 0] /\ ran = {} /\ waited = {}
      /\ Cpu \subseteq Dev /\ Ld \in Dev /\ Len(order) \in Nat
  BY OsAssumption, SMTT(30) DEF OsInit, init_scheduler, B!BarrierInit, Dev
<1>4. OsTypeOK
  <2>1. B!BarrierTypeOK
    BY <1>3 DEF B!BarrierTypeOK, B!Phase
  <2>2. cpc \in [Cpu -> {"top", "reload_zero", "reload", "recheck", "slot", "detach", "exited"}]
    BY <1>3
  <2>3. time_left \in [Cpu -> Int] /\ pc \in [Proc -> Nat] /\ li \in 1 .. Len(order) + 1
    BY <1>3, SMTT(30)
  <2> QED  BY <1>1, <1>2, <1>3, <2>1, <2>2, <2>3 DEF OsTypeOK, SchedInv
<1>5. LoaderInv
  <2>1. FirstOfOrder(li - 1) = {}
    BY <1>3, SMTT(30) DEF FirstOfOrder
  <2> QED  BY <1>3, <2>1 DEF LoaderInv
<1>6. CpuInv
  BY <1>3 DEF CpuInv, Stopped
<1>7. RunsToItsEnd
  BY <1>2, <1>3, SMTT(30) DEF RunsToItsEnd
<1>8. RanInv /\ WaitedInv
  BY <1>3 DEF RanInv, WaitedInv
<1>9. SeenEmpty
  BY <1>3 DEF SeenEmpty, Idle, Stopped
<1> QED  BY <1>1, <1>4, <1>5, <1>6, <1>7, <1>8, <1>9 DEF OsInv

\* Every step of every thread keeps the invariant.
LEMMA OsStepKeepsInv == OsInv /\ [OsNext]_osVars => OsInv'
BY SchedInvKept, OsTypeKept, LoaderInvKept, CpuInvKept, RunsToItsEndKept, RanInvKept,
   WaitedInvKept, SeenEmptyKept DEF OsInv

-----------------------------------------------------------------------------
(* The theorems.                                                           *)

\* The inductive invariant holds in every reachable state, for every number of
\* CPUs and processes, all sizes, start times and quanta.
THEOREM OsInvariant == OsSpec => []OsInv
BY OsInitInv, OsStepKeepsInv, PTL DEF OsSpec

\* Type correctness of the simulator's state.
THEOREM OsTypesHold == OsSpec => []OsTypeOK
<1>1. OsInv => OsTypeOK
  BY DEF OsInv
<1> QED  BY <1>1, OsInvariant, PTL

\* The threads of os.c call the scheduler only as Sched allows: the simulator
\* implements Sched, and what is proved of Sched above holds of it.
THEOREM OsImplementsSched == OsSpec => UsesSchedCorrectly
<1>1. OsInit => init_scheduler
  BY DEF OsInit
<1>2. OsInv /\ [OsNext]_osVars => [SchedNext]_schedVars
  BY StepsOfSched
<1> QED  BY <1>1, <1>2, OsInvariant, PTL DEF OsSpec, UsesSchedCorrectly, SchedSpec

\* A process finishes with each of its instructions executed exactly once.
THEOREM EveryInstructionOnce == OsSpec => []RunsToItsEnd
<1>1. OsInv => RunsToItsEnd
  BY DEF OsInv
<1> QED  BY <1>1, OsInvariant, PTL

\* If there is a CPU at all, the CPUs stop only when every process has been
\* loaded and has finished.
THEOREM NobodyIsAbandoned ==
  ASSUME Cpu # {}
  PROVE  OsSpec => []NoProcessAbandoned
<1>1. OsInv => NoProcessAbandoned
  <2> SUFFICES ASSUME OsInv, \A c \in Cpu : Stopped(c) PROVE finished = Proc
    BY DEF NoProcessAbandoned, Stopped
  <2>1. PICK c \in Cpu : Stopped(c)
    OBVIOUS
  <2>2. done /\ LoaderQuiet /\ loaded = Proc
    BY <2>1 DEF OsInv, CpuInv, LoaderInv, LoaderQuiet
  <2>3. PICK f \in [Ready -> Requeuing] : Injective(f)
    BY <2>1, <2>2 DEF OsInv, SeenEmpty, Idle
  <2>4. Ready = {}
    BY <2>3 DEF Requeuing, Stopped
  <2>5. \A d \in Cpu : proc[d] = NULL
    BY DEF OsInv, CpuInv
  <2>6. \A p \in Proc : ~Held(p)
    BY <2>5, SchedAssumption DEF Held
  <2>7. Live = {}
    BY <2>4, <2>6, ReadyIsNotHeld DEF OsInv, SchedInv, SchedTypeOK, Live
  <2> QED  BY <2>2, <2>7 DEF Live, OsInv, SchedInv, SchedTypeOK
<1> QED  BY <1>1, OsInvariant, PTL

\* No CPU idles through, or has stopped before, a slot in which a process is
\* ready from beginning to end.
THEOREM NoCpuIdles == OsSpec => []WorkConserving
<1>1. OsInv => WorkConserving
  BY DEF OsInv, WaitedInv, WorkConserving, Dev
<1> QED  BY <1>1, OsInvariant, PTL

\* No process executes two instructions in one slot, however often it changes
\* CPUs in it.
THEOREM OneInstructionEach == OsSpec => OneInstructionPerSlot
<1>1. OsInv /\ [OsNext]_osVars => [\A p \in Proc : pc'[p] # pc[p] => p \notin ran]_osVars
  <2> SUFFICES ASSUME OsInv, OsNext, NEW p \in Proc, pc'[p] # pc[p] PROVE p \notin ran
    OBVIOUS
  <2>1. CASE timer_routine \/ ld_routine
    BY <2>1, TimerFrame, LoaderFrame DEF cpuVars
  <2>2. ASSUME NEW c \in Cpu, cpu_routine(c) PROVE p \notin ran
    <3>1. Gets(c) \/ Finishes(c) \/ Requeues(c) \/ Runs(c) \/ Passes(c) \/ Leaves(c)
      BY <2>2, SchedInvKept, CpuEffects
    <3>2. Runs(c)
      BY <3>1 DEF Gets, Finishes, Requeues, Passes, Leaves
    <3>3. p = proc[c] /\ cpc[c] = "recheck" /\ phase[c] = "working" /\ p # NULL
      BY <2>2, <3>2, RunAdvances, CpuFrame, SchedAssumption DEF Runs, OsInv
    <3>4. \A d \in Cpu : proc[d] = p => d = c
      BY <3>3 DEF OsInv, SchedInv, OneHome, HeldOnce
    <3> QED  BY <3>3, <3>4 DEF OsInv, RanInv
  <2> QED  BY <2>1, <2>2 DEF OsNext
<1> QED  BY <1>1, OsInvariant, PTL DEF OsSpec, OneInstructionPerSlot

\* A CPU that takes over a process starts it with a fresh quantum.
THEOREM QuantumIsFresh == OsSpec => FreshQuantum
<1>1. OsInv /\ [OsNext]_osVars =>
        [\A c \in Cpu : proc'[c] \notin {NULL, proc[c]} => time_left'[c] = 0]_osVars
  <2> SUFFICES ASSUME OsInv, OsNext, NEW c \in Cpu, proc'[c] \notin {NULL, proc[c]}
               PROVE  time_left'[c] = 0
    OBVIOUS
  <2>1. CASE timer_routine \/ ld_routine
    BY <2>1, TimerFrame, LoaderFrame DEF schedVars
  <2>2. ASSUME NEW d \in Cpu, cpu_routine(d) PROVE time_left'[c] = 0
    <3>1. d = c
      BY <2>2, CpuFrame
    <3>2. Gets(c) \/ Finishes(c) \/ Requeues(c) \/ Runs(c) \/ Passes(c) \/ Leaves(c)
      BY <2>2, <3>1, SchedInvKept, CpuEffects
    <3> QED  BY <3>2 DEF Gets, Finishes, Requeues, Runs, Passes, Leaves
  <2> QED  BY <2>1, <2>2 DEF OsNext
<1> QED  BY <1>1, OsInvariant, PTL DEF OsSpec, FreshQuantum
=============================================================================
