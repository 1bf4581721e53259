----------------------------- MODULE RegionList ----------------------------
(***************************************************************************)
(* Regions and the list of free ones that a process keeps: what            *)
(* get_free_vmrg_area() of libmem.c and enlist_vm_rg_node() of mm64.c make *)
(* of a list.  A region is the half-open interval [s, e) of byte           *)
(* addresses.                                                              *)
(***************************************************************************)
EXTENDS Lists

Region(s, e) == [s |-> s, e |-> e]
Empty == Region(0, 0)

Bytes(rg) == rg.s .. rg.e - 1

Fits(list, size, i) == list[i].s + size <= list[i].e

HasFit(list, size) == \E i \in DOMAIN list : Fits(list, size, i)

\* The traversal stops at the first node that is large enough.
FirstFit(list, size) ==
  CHOOSE i \in DOMAIN list : Fits(list, size, i) /\ \A j \in 1 .. i - 1 : ~Fits(list, size, j)

\* The region get_free_vmrg_area() returns.
Taken(list, size) ==
  LET n == list[FirstFit(list, size)] IN Region(n.s, n.s + size)

\* What it leaves of the list: a node used up is overwritten by the next one,
\* and the last node becomes a region of size 0.
Remaining(list, size) ==
  LET i == FirstFit(list, size)
  IN  IF list[i].s + size = list[i].e /\ i < Len(list)
      THEN RemoveAt(list, i)
      ELSE [list EXCEPT ![i].s = @ + size]

\* enlist_vm_rg_node(): the new node goes before the first one that does not
\* start below it, ...
Position(list, rg) ==
  CHOOSE k \in 0 .. Len(list) :
    /\ \A j \in 1 .. k : list[j].s < rg.s
    /\ k < Len(list) => list[k + 1].s >= rg.s

\* ... takes in the next node if it ends where that one starts ...
MergeNext(list, rg, k) ==
  IF k < Len(list) /\ rg.e = list[k + 1].s
  THEN <<Region(rg.s, list[k + 1].e)>> \o SubSeq(list, k + 2, Len(list))
  ELSE <<rg>> \o SubSeq(list, k + 1, Len(list))

\* The node taken in by the previous one stays in the list.
MergePrev_overlap(front, rest) ==
  IF front # << >> /\ Last(front).e = rest[1].s
  THEN [front EXCEPT ![Len(front)].e = rest[1].e] \o rest
  ELSE front \o rest

\* ... and is taken in by the previous one in the same way.
MergePrev(front, rest) ==
  IF front # << >> /\ Last(front).e = rest[1].s
  THEN [front EXCEPT ![Len(front)].e = rest[1].e] \o Tail(rest)
  ELSE front \o rest

enlist_vm_rg_node(list, rg) ==
  IF rg.s >= rg.e THEN list
  ELSE LET k == Position(list, rg) IN MergePrev(SubSeq(list, 1, k), MergeNext(list, rg, k))
============================================================================
