----------------------------- MODULE ProcQueue -----------------------------
(***************************************************************************)
(* queue.c: a bounded array of processes used as a FIFO queue.  A queue is *)
(* the sequence of its first size cells; the cells beyond size are never   *)
(* read.                                                                   *)
(***************************************************************************)
EXTENDS Lists

CONSTANTS MAX_QUEUE_SIZE

ASSUME QueueSizeAssumption == MAX_QUEUE_SIZE \in Nat \ {0}

empty(q) == Len(q) = 0

HasRoom(q) == Len(q) < MAX_QUEUE_SIZE

\* What enqueue() leaves behind when there is room.
enqueue(q, p) == Append(q, p)

\* The loop that closes the gap at position i.
ShiftOut_short(q, i) == [j \in 1 .. Len(q) - 1 |-> q[j]]

ShiftOut(q, i) == [j \in 1 .. Len(q) - 1 |-> IF j < i THEN q[j] ELSE q[j + 1]]

\* What dequeue() leaves behind; it returns Front(q).
Front(q) == q[1]

dequeue(q) == ShiftOut(q, 1)

\* i is the first position of p, where the scan of the array stops.
FirstAt(q, p, i) ==
  /\ i \in 1 .. Len(q)
  /\ q[i] = p
  /\ \A j \in 1 .. i - 1 : q[j] # p

\* What purgequeue() leaves behind.
purgequeue(q, p) ==
  IF p \in Elements(q)
  THEN ShiftOut(q, CHOOSE i \in 1 .. Len(q) : FirstAt(q, p, i))
  ELSE q
============================================================================
