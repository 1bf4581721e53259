--------------------------- MODULE RegionProofs ----------------------------
(***************************************************************************)
(* Proofs about the regions of the heaps, for every set of processes and   *)
(* symbols, every page size, and heaps and requests of every size.  First  *)
(* what the operators of RegionList do to a list of free regions, then the *)
(* invariant of a heap and the steps that keep it.                         *)
(***************************************************************************)
EXTENDS CopyMem, FiniteSetTheorems, TLAPS

USE ZenonT(30)

\* A region whose end is not below its start.
Nodes == {rg \in [s : Nat, e : Nat] : rg.s <= rg.e}

\* A node that is not empty starts after every earlier node, and after its end.
Ordered(list) ==
  \A i, j \in DOMAIN list :
    i < j /\ list[j].s < list[j].e => list[i].s < list[j].s /\ list[i].e <= list[j].s

ListBytes(list) == UNION {Bytes(list[i]) : i \in DOMAIN list}

\* The list with x in the place of the nodes between lo and hi.
Splice(list, lo, x, hi) == SubSeq(list, 1, lo) \o (<<x>> \o SubSeq(list, hi, Len(list)))
----------------------------------------------------------------------------
(* The operators of RegionList.                                            *)

\* Region() makes a node, and Bytes() are the addresses from its start to its end.
LEMMA RegionIsNode ==
  ASSUME NEW s \in Nat, NEW e \in Nat, s <= e
  PROVE  Region(s, e) \in Nodes /\ Region(s, e).s = s /\ Region(s, e).e = e
BY DEF Region, Nodes

\* The bytes of a node.
LEMMA BytesOfNode ==
  ASSUME NEW rg \in Nodes, NEW a
  PROVE  a \in Bytes(rg) <=> a \in Int /\ rg.s <= a /\ a < rg.e
<1>1. rg.s \in Nat /\ rg.e \in Nat
  BY DEF Nodes
<1> DEFINE u == rg.s
           v == rg.e
<1> HIDE DEF u, v
<1>2. u \in Nat /\ v \in Nat
  BY <1>1 DEF u, v
<1>3. a \in u .. v - 1 <=> a \in Int /\ u <= a /\ a < v
  BY <1>2, SMTT(30)
<1> QED  BY <1>3 DEF Bytes, u, v

\* An interval of addresses and its two parts.
LEMMA IntervalParts ==
  ASSUME NEW a, NEW l \in Nat, NEW m \in Nat, NEW h \in Nat, l <= m, m <= h
  PROVE  (a \in Int /\ l <= a /\ a < h)
           <=> (a \in Int /\ l <= a /\ a < m) \/ (a \in Int /\ m <= a /\ a < h)
BY SMTT(30)

\* A list of nodes.
LEMMA ListOfNodes ==
  ASSUME NEW L \in Seq(Nodes)
  PROVE  Len(L) \in Nat /\ DOMAIN L = 1 .. Len(L) /\ \A i \in 1 .. Len(L) : L[i] \in Nodes
BY SMTT(30)

\* Two lists are equal if their elements are.
LEMMA SameNodes ==
  ASSUME NEW L \in Seq(Nodes), NEW M \in Seq(Nodes), Len(L) = Len(M),
         \A i \in 1 .. Len(L) : L[i] = M[i]
  PROVE  L = M
BY SMTT(30)

\* What the elements of two lists in a row are, and those of a list without its
\* first.
LEMMA JoinProperties ==
  ASSUME NEW L \in Seq(Nodes), NEW M \in Seq(Nodes)
  PROVE  /\ L \o M \in Seq(Nodes) /\ Len(L \o M) = Len(L) + Len(M)
         /\ \A i \in 1 .. Len(L) + Len(M) : (L \o M)[i] = IF i <= Len(L) THEN L[i] ELSE M[i - Len(L)]
BY SMTT(30)

\* A list without its first node.
LEMMA TailProperties ==
  ASSUME NEW L \in Seq(Nodes), L # << >>
  PROVE  /\ Tail(L) \in Seq(Nodes) /\ Len(Tail(L)) = Len(L) - 1
         /\ \A i \in 1 .. Len(Tail(L)) : Tail(L)[i] = L[i + 1]
BY SMTT(30)

\* Concatenation is associative.
LEMMA ConcatNodes ==
  ASSUME NEW L \in Seq(Nodes), NEW M \in Seq(Nodes), NEW N \in Seq(Nodes)
  PROVE  (L \o M) \o N = L \o (M \o N)
BY SMTT(30)

\* A set of natural numbers that is not empty has a least element.
LEMMA LeastElement ==
  ASSUME NEW T \in SUBSET Nat, T # {}
  PROVE  \E x \in T : \A y \in T : x <= y
<1>1. PICK x \in T : \A y \in T : ~(<<y, x>> \in OpToRel(<, Nat))
  BY NatLessThanWellFounded, WFMin
<1>2. \A y \in T : ~(y < x)
  BY <1>1 DEF OpToRel
<1> QED  BY <1>2, SMTT(30)

\* A list has x in one place, and the nodes before lo and from hi on in their order.
LEMMA SpliceElements ==
  ASSUME NEW L \in Seq(Nodes), NEW x \in Nodes, NEW lo \in 0 .. Len(L),
         NEW hi \in lo + 1 .. Len(L) + 1
  PROVE  LET R == Splice(L, lo, x, hi)
         IN  /\ R \in Seq(Nodes)
             /\ Len(R) = lo + 1 + (Len(L) - hi + 1)
             /\ \A i \in 1 .. lo : R[i] = L[i]
             /\ R[lo + 1] = x
             /\ \A i \in lo + 2 .. Len(R) : R[i] = L[i - lo - 2 + hi]
<1> DEFINE A == SubSeq(L, 1, lo)
           B == <<x>>
           C == SubSeq(L, hi, Len(L))
<1>0. Len(L) \in Nat /\ L \in [1 .. Len(L) -> Nodes]
  BY SMTT(30)
<1>1. /\ A \in Seq(Nodes) /\ Len(A) = lo /\ \A i \in 1 .. lo : A[i] = L[i]
  BY <1>0, SMTT(30)
<1>2. /\ C \in Seq(Nodes) /\ Len(C) = Len(L) - hi + 1
      /\ \A i \in 1 .. Len(L) - hi + 1 : C[i] = L[hi + i - 1]
  BY <1>0, SMTT(30)
<1>3. B \in Seq(Nodes) /\ Len(B) = 1 /\ B[1] = x
  BY SMTT(30)
<1> HIDE DEF A, B, C
<1>4. /\ A \o B \in Seq(Nodes) /\ Len(A \o B) = lo + 1
      /\ \A i \in 1 .. lo + 1 : (A \o B)[i] = IF i <= lo THEN A[i] ELSE B[i - lo]
  <2>1. /\ A \o B \in Seq(Nodes) /\ Len(A \o B) = Len(A) + Len(B)
        /\ \A i \in 1 .. Len(A) + Len(B) :
             (A \o B)[i] = IF i <= Len(A) THEN A[i] ELSE B[i - Len(A)]
    <3>1. A \in Seq(Nodes) /\ B \in Seq(Nodes)
      BY <1>1, <1>3
    <3> QED  BY <3>1, JoinProperties
  <2>2. Len(A) = lo /\ Len(B) = 1
    BY <1>1, <1>3
  <2> QED  BY <2>1, <2>2
<1> DEFINE D == A \o B
<1>5. D \in Seq(Nodes) /\ Len(D) = lo + 1 /\ \A i \in 1 .. lo + 1 : D[i] = IF i <= lo THEN A[i] ELSE B[i - lo]
  BY <1>4
<1> HIDE DEF D
<1>6. (\A i \in 1 .. lo : D[i] = L[i]) /\ D[lo + 1] = x
  BY <1>1, <1>3, <1>5, SMTT(30)
<1>7. /\ D \o C \in Seq(Nodes) /\ Len(D \o C) = (lo + 1) + (Len(L) - hi + 1)
      /\ \A i \in 1 .. (lo + 1) + (Len(L) - hi + 1) :
           (D \o C)[i] = IF i <= lo + 1 THEN D[i] ELSE C[i - (lo + 1)]
  <2>1. /\ D \o C \in Seq(Nodes) /\ Len(D \o C) = Len(D) + Len(C)
        /\ \A i \in 1 .. Len(D) + Len(C) :
             (D \o C)[i] = IF i <= Len(D) THEN D[i] ELSE C[i - Len(D)]
    <3>1. D \in Seq(Nodes) /\ C \in Seq(Nodes)
      BY <1>2, <1>5
    <3> QED  BY <3>1, JoinProperties
  <2>2. Len(D) = lo + 1 /\ Len(C) = Len(L) - hi + 1
    BY <1>2, <1>5
  <2> QED  BY <2>1, <2>2
<1> DEFINE R == D \o C
<1>8. Splice(L, lo, x, hi) = R
  <2>1. A \in Seq(Nodes) /\ B \in Seq(Nodes) /\ C \in Seq(Nodes)
    BY <1>1, <1>2, <1>3
  <2>2. (A \o B) \o C = A \o (B \o C)
    BY <2>1, ConcatNodes
  <2> QED  BY <2>2 DEF Splice, A, B, C, D
<1>9. /\ R \in Seq(Nodes) /\ Len(R) = lo + 1 + (Len(L) - hi + 1)
      /\ \A i \in 1 .. (lo + 1) + (Len(L) - hi + 1) : R[i] = IF i <= lo + 1 THEN D[i] ELSE C[i - (lo + 1)]
  BY <1>7
<1> HIDE DEF R
<1>10. (\A i \in 1 .. lo : R[i] = L[i]) /\ R[lo + 1] = x
  <2>1. \A i \in 1 .. lo + 1 : i \in 1 .. (lo + 1) + (Len(L) - hi + 1) /\ i <= lo + 1
    BY <1>0, SMTT(30)
  <2>2. \A i \in 1 .. lo + 1 : R[i] = D[i]
    BY <1>9, <2>1
  <2>3. (\A i \in 1 .. lo : i \in 1 .. lo + 1) /\ lo + 1 \in 1 .. lo + 1
    BY SMTT(30)
  <2> QED  BY <1>6, <2>2, <2>3
<1>11. \A i \in lo + 2 .. Len(R) : R[i] = L[i - lo - 2 + hi]
  <2> TAKE i \in lo + 2 .. Len(R)
  <2>1. i \in 1 .. (lo + 1) + (Len(L) - hi + 1) /\ ~(i <= lo + 1)
    BY <1>0, <1>9, SMTT(30)
  <2>2. i - (lo + 1) \in 1 .. Len(L) - hi + 1 /\ hi + (i - (lo + 1)) - 1 = i - lo - 2 + hi
    BY <1>0, <2>1, SMTT(30)
  <2> QED  BY <1>2, <1>9, <2>1, <2>2
<1> QED  BY <1>8, <1>9, <1>10, <1>11

\* Putting x, which lies between what is left of the list on both sides, in the
\* place of the nodes between keeps the list in order.
LEMMA SpliceIsOrdered ==
  ASSUME NEW L \in Seq(Nodes), Ordered(L), NEW x \in Nodes, NEW lo \in 0 .. Len(L),
         NEW hi \in lo + 1 .. Len(L) + 1,
         \A i \in 1 .. lo : L[i].s < x.s /\ L[i].e <= x.s,
         \A j \in hi .. Len(L) : L[j].s < L[j].e => x.s < L[j].s /\ x.e <= L[j].s
  PROVE  LET R == Splice(L, lo, x, hi)
         IN  /\ R \in Seq(Nodes) /\ Ordered(R)
             /\ \E i \in DOMAIN R : R[i] = x
             /\ \A a : a \in ListBytes(R) <=>
                         \/ a \in Bytes(x)
                         \/ \E i \in 1 .. lo : a \in Bytes(L[i])
                         \/ \E i \in hi .. Len(L) : a \in Bytes(L[i])
<1> DEFINE R == Splice(L, lo, x, hi)
<1>1. /\ R \in Seq(Nodes)
      /\ Len(R) = lo + 1 + (Len(L) - hi + 1)
      /\ \A i \in 1 .. lo : R[i] = L[i]
      /\ R[lo + 1] = x
      /\ \A i \in lo + 2 .. Len(R) : R[i] = L[i - lo - 2 + hi]
  BY SpliceElements
<1> HIDE DEF R
<1>2. /\ Len(L) \in Nat /\ DOMAIN L = 1 .. Len(L) /\ \A i \in 1 .. Len(L) : L[i] \in Nodes
      /\ Len(R) \in Nat /\ DOMAIN R = 1 .. Len(R) /\ \A i \in 1 .. Len(R) : R[i] \in Nodes
  <2>1. Len(L) \in Nat /\ DOMAIN L = 1 .. Len(L) /\ \A i \in 1 .. Len(L) : L[i] \in Nodes
    BY ListOfNodes
  <2>2. R \in Seq(Nodes)
    BY <1>1
  <2>3. Len(R) \in Nat /\ DOMAIN R = 1 .. Len(R) /\ \A i \in 1 .. Len(R) : R[i] \in Nodes
    BY <2>2, ListOfNodes
  <2> QED  BY <2>1, <2>3
<1>3. \A i \in 1 .. Len(R) :
        \/ i \in 1 .. lo
        \/ i = lo + 1
        \/ i \in lo + 2 .. Len(R) /\ i - lo - 2 + hi \in hi .. Len(L)
  BY <1>1, <1>2, SMTT(30)
<1>4. \A i \in hi .. Len(L) : i - hi + lo + 2 \in lo + 2 .. Len(R) /\ (i - hi + lo + 2) - lo - 2 + hi = i
  BY <1>1, <1>2, SMTT(30)
<1>5. lo + 1 \in 1 .. Len(R) /\ \A i \in 1 .. lo : i \in 1 .. Len(R)
  BY <1>1, <1>2, SMTT(30)
<1>6. Ordered(R)
  <2> SUFFICES ASSUME NEW i \in 1 .. Len(R), NEW j \in 1 .. Len(R), i < j, R[j].s < R[j].e
               PROVE  R[i].s < R[j].s /\ R[i].e <= R[j].s
    BY <1>2 DEF Ordered
  <2>1. CASE j \in 1 .. lo
    <3>1. i \in 1 .. lo /\ i \in 1 .. Len(L) /\ j \in 1 .. Len(L)
      BY <1>2, <2>1, SMTT(30)
    <3> QED  BY <1>1, <1>2, <2>1, <3>1 DEF Ordered
  <2>2. CASE j = lo + 1
    <3>1. i \in 1 .. lo
      BY <1>2, <2>2, SMTT(30)
    <3> QED  BY <1>1, <2>2, <3>1
  <2>3. CASE j \in lo + 2 .. Len(R) /\ j - lo - 2 + hi \in hi .. Len(L)
    <3>1. R[j] = L[j - lo - 2 + hi] /\ j - lo - 2 + hi \in 1 .. Len(L)
      <4>1. j - lo - 2 + hi \in 1 .. Len(L)
        BY <1>2, <2>3, SMTT(30)
      <4> QED  BY <1>1, <2>3, <4>1
    <3>2. CASE i \in 1 .. lo
      <4>1. i \in 1 .. Len(L) /\ i < j - lo - 2 + hi
        BY <1>2, <2>3, <3>2, SMTT(30)
      <4> QED  BY <1>1, <1>2, <3>1, <3>2, <4>1 DEF Ordered
    <3>3. CASE i = lo + 1
      BY <1>1, <2>3, <3>1, <3>3
    <3>4. CASE i \in lo + 2 .. Len(R) /\ i - lo - 2 + hi \in hi .. Len(L)
      <4>1. i - lo - 2 + hi \in 1 .. Len(L) /\ i - lo - 2 + hi < j - lo - 2 + hi
        BY <1>2, <3>4, SMTT(30)
      <4> QED  BY <1>1, <1>2, <3>1, <3>4, <4>1 DEF Ordered
    <3> QED  BY <1>3, <3>2, <3>3, <3>4
  <2> QED  BY <1>3, <2>1, <2>2, <2>3
<1>7. ASSUME NEW a PROVE a \in ListBytes(R) <=> \/ a \in Bytes(x)
                                                \/ \E i \in 1 .. lo : a \in Bytes(L[i])
                                                \/ \E i \in hi .. Len(L) : a \in Bytes(L[i])
  <2>1. ASSUME a \in ListBytes(R)
        PROVE  \/ a \in Bytes(x)
               \/ \E i \in 1 .. lo : a \in Bytes(L[i])
               \/ \E i \in hi .. Len(L) : a \in Bytes(L[i])
    <3>1. PICK i \in 1 .. Len(R) : a \in Bytes(R[i])
      BY <1>2, <2>1 DEF ListBytes
    <3> QED  BY <1>1, <1>3, <3>1
  <2>2. ASSUME NEW i \in 1 .. lo, a \in Bytes(L[i]) PROVE a \in ListBytes(R)
    BY <1>1, <1>2, <1>5, <2>2 DEF ListBytes
  <2>3. ASSUME NEW i \in hi .. Len(L), a \in Bytes(L[i]) PROVE a \in ListBytes(R)
    <3>1. R[i - hi + lo + 2] = L[i] /\ i - hi + lo + 2 \in 1 .. Len(R)
      <4>1. i - hi + lo + 2 \in 1 .. Len(R)
        BY <1>4, SMTT(30)
      <4> QED  BY <1>1, <1>4, <4>1
    <3> QED  BY <1>2, <2>3, <3>1 DEF ListBytes
  <2>4. a \in Bytes(x) => a \in ListBytes(R)
    BY <1>1, <1>2, <1>5 DEF ListBytes
  <2> QED  BY <2>1, <2>2, <2>3, <2>4
<1> QED  BY <1>1, <1>2, <1>5, <1>6, <1>7 DEF R

\* The place enlist_vm_rg_node() finds for the new node exists.
LEMMA PositionExists ==
  ASSUME NEW L \in Seq(Nodes), NEW rg \in Nodes
  PROVE  LET k == Position(L, rg)
         IN  /\ k \in 0 .. Len(L)
             /\ \A j \in 1 .. k : L[j].s < rg.s
             /\ k < Len(L) => L[k + 1].s >= rg.s
<1> DEFINE T == {k \in 0 .. Len(L) : k < Len(L) => L[k + 1].s >= rg.s}
           P(k) == /\ \A j \in 1 .. k : L[j].s < rg.s
                   /\ k < Len(L) => L[k + 1].s >= rg.s
<1>1. Len(L) \in Nat /\ \A i \in 1 .. Len(L) : L[i] \in Nodes
  BY ListOfNodes
<1>2. T \in SUBSET Nat /\ T # {}
  <2>1. Len(L) \in T
    BY <1>1, SMTT(30)
  <2> QED  BY <1>1, <2>1, SMTT(30)
<1>3. PICK k \in T : \A y \in T : k <= y
  <2> HIDE DEF T
  <2> QED  BY <1>2, LeastElement
<1>4. ASSUME NEW j \in 1 .. k PROVE L[j].s < rg.s
  <2>1. j - 1 \in 0 .. Len(L) /\ j - 1 < k /\ j \in 1 .. Len(L) /\ j - 1 < Len(L)
    BY <1>1, <1>3, SMTT(30)
  <2>2. j - 1 \notin T
    BY <1>1, <1>3, <2>1, SMTT(30)
  <2>3. (j - 1) + 1 = j
    BY SMTT(30)
  <2>4. ~(L[j].s >= rg.s)
    BY <2>1, <2>2, <2>3
  <2> QED  BY <1>1, <2>1, <2>4, SMTT(30) DEF Nodes
<1>5. k \in 0 .. Len(L) /\ P(k)
  BY <1>3, <1>4
<1>6. Position(L, rg) = CHOOSE m \in 0 .. Len(L) : P(m)
  BY DEF Position
<1> HIDE DEF P
<1>7. Position(L, rg) \in 0 .. Len(L) /\ P(Position(L, rg))
  BY <1>5, <1>6
<1> QED  BY <1>7 DEF P

\* The first element of a list and the others.
LEMMA ConsElements ==
  ASSUME NEW x \in Nodes, NEW C \in Seq(Nodes)
  PROVE  /\ <<x>> \o C \in Seq(Nodes) /\ (<<x>> \o C)[1] = x
         /\ Tail(<<x>> \o C) = C
<1>1. <<x>> \in Seq(Nodes) /\ Len(<<x>>) = 1 /\ <<x>>[1] = x
  BY SMTT(30)
<1> DEFINE R == <<x>> \o C
<1>2. /\ R \in Seq(Nodes) /\ Len(R) = Len(<<x>>) + Len(C)
      /\ \A i \in 1 .. Len(<<x>>) + Len(C) : R[i] = IF i <= Len(<<x>>) THEN <<x>>[i] ELSE C[i - Len(<<x>>)]
  BY <1>1, JoinProperties
<1>3. /\ Len(R) = 1 + Len(C)
      /\ \A i \in 1 .. 1 + Len(C) : R[i] = IF i <= 1 THEN <<x>>[i] ELSE C[i - 1]
  BY <1>1, <1>2
<1> HIDE DEF R
<1>4. Len(C) \in Nat
  BY ListOfNodes
<1>5. R[1] = x
  BY <1>1, <1>3, <1>4, SMTT(30)
<1>6. \A i \in 1 .. Len(C) : R[i + 1] = C[i]
  <2> TAKE i \in 1 .. Len(C)
  <2>1. i + 1 \in 1 .. 1 + Len(C) /\ ~(i + 1 <= 1) /\ i + 1 - 1 = i
    BY <1>4, SMTT(30)
  <2> QED  BY <1>3, <2>1, SMTT(30)
<1>7. R # << >>
  BY <1>2, <1>3, <1>4, SMTT(30)
<1>8. /\ Tail(R) \in Seq(Nodes) /\ Len(Tail(R)) = Len(R) - 1
      /\ \A i \in 1 .. Len(Tail(R)) : Tail(R)[i] = R[i + 1]
  BY <1>2, <1>7, TailProperties
<1>9. Len(Tail(R)) = Len(C)
  BY <1>3, <1>4, <1>8, SMTT(30)
<1>10. Tail(R) = C
  BY <1>6, <1>8, <1>9, SameNodes
<1> QED  BY <1>2, <1>5, <1>10 DEF R

\* A node that ends where the new one starts, and which the new one takes in.
LEMMA LastGrows ==
  ASSUME NEW L \in Seq(Nodes), NEW k \in 1 .. Len(L), NEW v \in Nat, L[k].e <= v
  PROVE  [SubSeq(L, 1, k) EXCEPT ![k].e = v] = SubSeq(L, 1, k - 1) \o <<Region(L[k].s, v)>>
<1> DEFINE F == SubSeq(L, 1, k)
           F1 == [F EXCEPT ![k].e = v]
           x == Region(L[k].s, v)
           A == SubSeq(L, 1, k - 1)
           G == A \o <<x>>
<1>0. Len(L) \in Nat /\ L \in [1 .. Len(L) -> Nodes] /\ L[k] \in Nodes
  BY SMTT(30)
<1>1. x \in Nodes /\ x = [s |-> L[k].s, e |-> v]
  BY <1>0, SMTT(30) DEF Region, Nodes
<1>2. F \in Seq(Nodes) /\ Len(F) = k /\ \A i \in 1 .. k : F[i] = L[i]
  BY <1>0, SMTT(30)
<1>3. A \in Seq(Nodes) /\ Len(A) = k - 1 /\ \A i \in 1 .. k - 1 : A[i] = L[i]
  BY <1>0, SMTT(30)
<1>4. [L[k] EXCEPT !.e = v] = x
  BY <1>0, <1>1, SMTT(30) DEF Nodes
<1> HIDE DEF F, x, A
<1>5. F1 = [F EXCEPT ![k] = x]
  <2>1. F[k] = L[k]
    BY <1>2, SMTT(30)
  <2>2. F1 = [F EXCEPT ![k] = [F[k] EXCEPT !.e = v]]
    OBVIOUS
  <2> QED  BY <1>4, <2>1, <2>2
<1>6. F1 \in Seq(Nodes) /\ Len(F1) = k /\ F1[k] = x /\ \A i \in 1 .. k - 1 : F1[i] = L[i]
  BY <1>1, <1>2, <1>5, SMTT(30)
<1>7. G \in Seq(Nodes) /\ Len(G) = k /\ G[k] = x /\ \A i \in 1 .. k - 1 : G[i] = L[i]
  <2>1. <<x>> \in Seq(Nodes) /\ Len(<<x>>) = 1 /\ <<x>>[1] = x
    BY <1>1, SMTT(30)
  <2> DEFINE B == <<x>>
  <2> HIDE DEF B
  <2>2. B \in Seq(Nodes) /\ Len(B) = 1 /\ B[1] = x
    BY <2>1 DEF B
  <2>4. /\ A \o B \in Seq(Nodes) /\ Len(A \o B) = Len(A) + Len(B)
        /\ \A i \in 1 .. Len(A) + Len(B) : (A \o B)[i] = IF i <= Len(A) THEN A[i] ELSE B[i - Len(A)]
    <3>1. A \in Seq(Nodes) /\ B \in Seq(Nodes)
      BY <1>3, <2>2
    <3> QED  BY <3>1, JoinProperties
  <2>3. A \o B \in Seq(Nodes) /\ Len(A \o B) = k
    <3>1. Len(A) + Len(B) = k
      BY <1>3, <2>2, SMTT(30)
    <3> QED  BY <2>4, <3>1
  <2>5. (A \o B)[k] = x /\ \A i \in 1 .. k - 1 : (A \o B)[i] = L[i]
    <3> DEFINE H == A \o B
    <3>1. \A i \in 1 .. k - 1 + 1 : H[i] = IF i <= k - 1 THEN A[i] ELSE B[i - (k - 1)]
      BY <1>3, <2>2, <2>4
    <3> HIDE DEF H
    <3>2. k \in 1 .. k - 1 + 1 /\ ~(k <= k - 1) /\ k - (k - 1) = 1
      BY SMTT(30)
    <3>3. H[k] = B[k - (k - 1)]
      BY <3>1, <3>2
    <3>4. H[k] = x
      BY <2>2, <3>2, <3>3
    <3>5. \A i \in 1 .. k - 1 : H[i] = L[i]
      BY <1>3, <3>1, SMTT(30)
    <3> QED  BY <3>4, <3>5 DEF H
  <2> QED  BY <2>3, <2>5 DEF B
<1> HIDE DEF F1, G
<1>8. \A i \in 1 .. k : F1[i] = G[i]
  <2> TAKE i \in 1 .. k
  <2>1. i \in 1 .. k - 1 \/ i = k
    BY SMTT(30)
  <2> QED  BY <1>6, <1>7, <2>1
<1>9. F1 = G
  BY <1>6, <1>7, <1>8, SameNodes
<1> QED  BY <1>9 DEF F, F1, x, A, G

\* What MergePrev() makes of the first k nodes, a node x and the nodes from hi on.
LEMMA MergePrevSplices ==
  ASSUME NEW L \in Seq(Nodes), NEW x \in Nodes, NEW k \in 0 .. Len(L),
         NEW hi \in k + 1 .. Len(L) + 1
  PROVE  LET R == MergePrev(SubSeq(L, 1, k), <<x>> \o SubSeq(L, hi, Len(L)))
         IN  IF k > 0 /\ L[k].e = x.s
             THEN R = Splice(L, k - 1, Region(L[k].s, x.e), hi)
             ELSE R = Splice(L, k, x, hi)
<1> DEFINE F == SubSeq(L, 1, k)
           C == SubSeq(L, hi, Len(L))
           M == <<x>> \o C
<1>0. Len(L) \in Nat /\ L \in [1 .. Len(L) -> Nodes]
  BY SMTT(30)
<1>1. F \in Seq(Nodes) /\ Len(F) = k /\ (k > 0 => F[k] = L[k])
  BY <1>0, SMTT(30)
<1>2. C \in Seq(Nodes)
  BY <1>0, SMTT(30)
<1>3. M[1] = x /\ Tail(M) = C
  BY <1>2, ConsElements
<1>4. F # << >> <=> k > 0
  BY <1>1, SMTT(30)
<1>5. Last(F) = F[k]
  BY <1>1 DEF Last
<1>6. CASE k > 0 /\ L[k].e = x.s
  <2>1. MergePrev(F, M) = [F EXCEPT ![Len(F)].e = M[1].e] \o Tail(M)
    BY <1>1, <1>3, <1>4, <1>5, <1>6 DEF MergePrev
  <2>2. MergePrev(F, M) = [F EXCEPT ![k].e = x.e] \o C
    BY <1>1, <1>3, <2>1
  <2>3. k \in 1 .. Len(L) /\ x.e \in Nat /\ L[k].e <= x.e
    BY <1>0, <1>6, SMTT(30) DEF Nodes
  <2>4. [F EXCEPT ![k].e = x.e] = SubSeq(L, 1, k - 1) \o <<Region(L[k].s, x.e)>>
    BY <2>3, LastGrows
  <2>5. SubSeq(L, 1, k - 1) \in Seq(Nodes) /\ <<Region(L[k].s, x.e)>> \in Seq(Nodes)
    BY <1>0, <2>3, <1>6, SMTT(30) DEF Region, Nodes
  <2>6. MergePrev(F, M) = SubSeq(L, 1, k - 1) \o (<<Region(L[k].s, x.e)>> \o C)
    <3> DEFINE P == SubSeq(L, 1, k - 1)
               Q == <<Region(L[k].s, x.e)>>
    <3>1. P \in Seq(Nodes) /\ Q \in Seq(Nodes) /\ MergePrev(F, M) = (P \o Q) \o C
      BY <2>2, <2>4, <2>5
    <3> HIDE DEF P, Q, C, F, M
    <3>2. (P \o Q) \o C = P \o (Q \o C)
      BY <1>2, <3>1, ConcatNodes
    <3> QED  BY <3>1, <3>2 DEF P, Q
  <2> QED  BY <1>6, <2>6 DEF Splice
<1>7. CASE ~(k > 0 /\ L[k].e = x.s)
  <2>1. MergePrev(F, M) = F \o M
    BY <1>1, <1>3, <1>4, <1>5, <1>7 DEF MergePrev
  <2> QED  BY <1>7, <2>1 DEF Splice
<1> QED  BY <1>6, <1>7

\* Where the new node goes, everything before it ends at or before its start, and
\* everything after it starts at or after its end.
LEMMA PositionSeparates ==
  ASSUME NEW L \in Seq(Nodes), Ordered(L), NEW rg \in Nodes, rg.s < rg.e,
         Bytes(rg) \cap ListBytes(L) = {}
  PROVE  LET k == Position(L, rg)
         IN  /\ \A i \in 1 .. k : L[i].s < rg.s /\ L[i].e <= rg.s
             /\ \A j \in k + 1 .. Len(L) : L[j].s < L[j].e => rg.s < L[j].s /\ rg.e <= L[j].s
<1> DEFINE k == Position(L, rg)
<1>1. /\ k \in 0 .. Len(L) /\ \A j \in 1 .. k : L[j].s < rg.s
      /\ k < Len(L) => L[k + 1].s >= rg.s
  BY PositionExists
<1>2. Len(L) \in Nat /\ DOMAIN L = 1 .. Len(L) /\ \A i \in 1 .. Len(L) : L[i] \in Nodes
  BY ListOfNodes
<1> HIDE DEF k
<1>3. \A i \in 1 .. Len(L) : \A a \in Bytes(rg) : a \notin Bytes(L[i])
  BY <1>2 DEF ListBytes
<1>4. \A i \in 1 .. Len(L) : \A a \in Int : rg.s <= a /\ a < rg.e => ~(L[i].s <= a /\ a < L[i].e)
  BY <1>2, <1>3, BytesOfNode
<1>5. ASSUME NEW i \in 1 .. k PROVE L[i].s < rg.s /\ L[i].e <= rg.s
  <2>1. i \in 1 .. Len(L) /\ L[i].s < rg.s
    BY <1>1, <1>2, SMTT(30)
  <2> QED  BY <1>2, <1>4, <2>1, SMTT(30) DEF Nodes
<1>6. ASSUME NEW j \in k + 1 .. Len(L), L[j].s < L[j].e PROVE rg.s < L[j].s /\ rg.e <= L[j].s
  <2>1. j \in 1 .. Len(L) /\ k + 1 \in 1 .. Len(L) /\ L[k + 1].s >= rg.s
    BY <1>1, <1>2, SMTT(30)
  <2>2. L[k + 1].s <= L[j].s
    <3>1. CASE j = k + 1
      BY <1>2, <2>1, <3>1, SMTT(30) DEF Nodes
    <3>2. CASE k + 1 < j
      <4>1. L[k + 1].s < L[j].s
        BY <1>2, <1>6, <2>1, <3>2 DEF Ordered
      <4> QED  BY <1>2, <2>1, <4>1, SMTT(30) DEF Nodes
    <3> QED  BY <1>1, <1>2, <3>1, <3>2, SMTT(30)
  <2>3. rg.s <= L[j].s
    BY <1>2, <2>1, <2>2, SMTT(30) DEF Nodes
  <2> QED  BY <1>2, <1>4, <1>6, <2>1, <2>3, SMTT(30) DEF Nodes
<1> QED  BY <1>5, <1>6 DEF k

\* enlist_vm_rg_node() splices one node into the list: the new one, joined with the
\* node after it if that starts where the new one ends, and with the node before it
\* if that ends where the new one starts.
LEMMA EnlistSplices ==
  ASSUME NEW L \in Seq(Nodes), NEW rg \in Nodes, rg.s < rg.e
  PROVE  LET k == Position(L, rg)
             next == k < Len(L) /\ rg.e = L[k + 1].s
             x == IF next THEN Region(rg.s, L[k + 1].e) ELSE rg
             hi == IF next THEN k + 2 ELSE k + 1
         IN  IF k > 0 /\ L[k].e = rg.s
             THEN enlist_vm_rg_node(L, rg) = Splice(L, k - 1, Region(L[k].s, x.e), hi)
             ELSE enlist_vm_rg_node(L, rg) = Splice(L, k, x, hi)
<1> DEFINE k == Position(L, rg)
           next == k < Len(L) /\ rg.e = L[k + 1].s
           x == IF next THEN Region(rg.s, L[k + 1].e) ELSE rg
           hi == IF next THEN k + 2 ELSE k + 1
<1>1. k \in 0 .. Len(L)
  BY PositionExists
<1>2. Len(L) \in Nat /\ \A i \in 1 .. Len(L) : L[i] \in Nodes
  BY ListOfNodes
<1>3. enlist_vm_rg_node(L, rg) = MergePrev(SubSeq(L, 1, k), MergeNext(L, rg, k))
  <2>1. ~(rg.s >= rg.e)
    BY SMTT(30) DEF Nodes
  <2> QED  BY <2>1 DEF enlist_vm_rg_node
<1>4. MergeNext(L, rg, k) = <<x>> \o SubSeq(L, hi, Len(L))
  BY DEF MergeNext
<1> HIDE DEF k
<1>5. x \in Nodes /\ x.s = rg.s
  <2>1. CASE next
    <3>1. k + 1 \in 1 .. Len(L)
      BY <1>1, <1>2, <2>1, SMTT(30)
    <3> QED  BY <1>2, <2>1, <3>1, SMTT(30) DEF Region, Nodes
  <2>2. CASE ~next
    BY <2>2
  <2> QED  BY <2>1, <2>2
<1>6. hi \in k + 1 .. Len(L) + 1
  BY <1>1, <1>2, SMTT(30)
<1> HIDE DEF x, hi
<1>7. IF k > 0 /\ L[k].e = x.s
      THEN enlist_vm_rg_node(L, rg) = Splice(L, k - 1, Region(L[k].s, x.e), hi)
      ELSE enlist_vm_rg_node(L, rg) = Splice(L, k, x, hi)
  BY <1>1, <1>3, <1>4, <1>5, <1>6, MergePrevSplices
<1> QED  BY <1>5, <1>7 DEF k, x, hi

\* enlist_vm_rg_node() of a region that has no byte in the list: the list stays in
\* order, has just those bytes more, and has all of them in one node.
LEMMA EnlistProperties ==
  ASSUME NEW L \in Seq(Nodes), Ordered(L), NEW rg \in Nodes, rg.s < rg.e,
         Bytes(rg) \cap ListBytes(L) = {}
  PROVE  LET R == enlist_vm_rg_node(L, rg)
         IN  /\ R \in Seq(Nodes) /\ Ordered(R)
             /\ ListBytes(R) = ListBytes(L) \cup Bytes(rg)
             /\ \E i \in DOMAIN R : R[i].s <= rg.s /\ rg.e <= R[i].e
<1> DEFINE k == Position(L, rg)
           R == enlist_vm_rg_node(L, rg)
           next == k < Len(L) /\ rg.e = L[k + 1].s
           x == IF next THEN Region(rg.s, L[k + 1].e) ELSE rg
           hi == IF next THEN k + 2 ELSE k + 1
           prev == k > 0 /\ L[k].e = rg.s
           y == IF prev THEN Region(L[k].s, x.e) ELSE x
           lo == IF prev THEN k - 1 ELSE k
<1>1. k \in 0 .. Len(L)
  BY PositionExists
<1>2. Len(L) \in Nat /\ DOMAIN L = 1 .. Len(L) /\ \A i \in 1 .. Len(L) : L[i] \in Nodes
  BY ListOfNodes
<1>3. /\ \A i \in 1 .. k : L[i].s < rg.s /\ L[i].e <= rg.s
      /\ \A j \in k + 1 .. Len(L) : L[j].s < L[j].e => rg.s < L[j].s /\ rg.e <= L[j].s
  BY PositionSeparates
<1>4. R = Splice(L, lo, y, hi)
  BY EnlistSplices
<1> HIDE DEF k, R
<1>n. /\ next => x = Region(rg.s, L[k + 1].e) /\ hi = k + 2 /\ k < Len(L) /\ rg.e = L[k + 1].s
      /\ ~next => x = rg /\ hi = k + 1
  OBVIOUS
<1>p. /\ prev => y = Region(L[k].s, x.e) /\ lo = k - 1 /\ k > 0 /\ L[k].e = rg.s
      /\ ~prev => y = x /\ lo = k
  OBVIOUS
<1> HIDE DEF next, x, hi, prev, y, lo
<1>5. rg.s \in Nat /\ rg.e \in Nat /\ \A i \in 1 .. Len(L) : L[i].s \in Nat /\ L[i].e \in Nat /\ L[i].s <= L[i].e
  BY <1>2 DEF Nodes
<1>6. hi \in k + 1 .. Len(L) + 1
  BY <1>1, <1>2, <1>n, SMTT(30)
<1>7. next => k + 1 \in 1 .. Len(L) /\ k + 1 \in k + 1 .. Len(L)
  BY <1>1, <1>2, <1>n, SMTT(30)
<1>8. x \in Nodes /\ x.s = rg.s /\ x.e = IF next THEN L[k + 1].e ELSE rg.e
  <2>1. CASE next
    <3>1. rg.s <= L[k + 1].e
      BY <1>n, <1>p, <1>5, <1>7, <2>1, SMTT(30)
    <3>2. rg.s \in Nat /\ L[k + 1].e \in Nat
      BY <1>5, <1>7, <2>1
    <3>3. x = Region(rg.s, L[k + 1].e)
      BY <1>n, <2>1
    <3> QED  BY <2>1, <3>1, <3>2, <3>3, RegionIsNode
  <2>2. CASE ~next
    BY <1>n, <1>p, <2>2
  <2> QED  BY <1>n, <1>p, <2>1, <2>2
<1>9. x.s < x.e /\ rg.e <= x.e
  <2>1. CASE next
    BY <1>n, <1>p, <1>5, <1>7, <1>8, <2>1, SMTT(30)
  <2>2. CASE ~next
    BY <1>n, <1>p, <1>5, <1>8, <2>2, SMTT(30)
  <2> QED  BY <1>n, <1>p, <2>1, <2>2
<1>10. ASSUME NEW j \in hi .. Len(L), L[j].s < L[j].e PROVE x.s < L[j].s /\ x.e <= L[j].s
  <2>1. j \in k + 1 .. Len(L) /\ j \in 1 .. Len(L)
    BY <1>n, <1>p, <1>1, <1>2, <1>6, SMTT(30)
  <2>2. x.s < L[j].s
    BY <1>n, <1>p, <1>3, <1>8, <1>10, <2>1
  <2>3. CASE next
    <3>1. k + 1 < j
      BY <1>n, <1>p, <1>1, <1>2, <2>3, SMTT(30)
    <3> QED  BY <1>n, <1>p, <1>2, <1>7, <1>8, <1>10, <2>1, <2>2, <2>3, <3>1 DEF Ordered
  <2>4. CASE ~next
    BY <1>n, <1>p, <1>3, <1>8, <1>10, <2>1, <2>2, <2>4
  <2> QED  BY <1>n, <1>p, <2>3, <2>4
<1>11. ASSUME NEW a
       PROVE  a \in Bytes(x) <=> a \in Bytes(rg) \/ (next /\ a \in Bytes(L[k + 1]))
  <2>1. CASE next
    <3>1. a \in Bytes(x) <=> a \in Int /\ rg.s <= a /\ a < L[k + 1].e
      BY <1>n, <1>p, <1>8, <2>1, BytesOfNode
    <3>2. a \in Bytes(L[k + 1]) <=> a \in Int /\ rg.e <= a /\ a < L[k + 1].e
      BY <1>n, <1>p, <1>2, <1>7, <2>1, BytesOfNode
    <3>3. a \in Bytes(rg) <=> a \in Int /\ rg.s <= a /\ a < rg.e
      BY BytesOfNode
    <3>4. rg.e <= L[k + 1].e /\ L[k + 1].e \in Nat
      BY <1>n, <1>p, <1>2, <1>5, <1>7, <2>1
    <3>5. rg.s <= rg.e
      BY <1>5, SMTT(30)
    <3> QED  BY <1>5, <2>1, <3>1, <3>2, <3>3, <3>4, <3>5, IntervalParts
  <2>2. CASE ~next
    BY <1>n, <1>p, <1>8, <2>2
  <2> QED  BY <1>n, <1>p, <2>1, <2>2
<1>12. lo \in 0 .. Len(L) /\ hi \in lo + 1 .. Len(L) + 1
  BY <1>n, <1>p, <1>1, <1>2, <1>6, SMTT(30)
<1>13. prev => k \in 1 .. k /\ k \in 1 .. Len(L)
  BY <1>n, <1>p, <1>1, <1>2, SMTT(30)
<1>14. x.s \in Nat /\ x.e \in Nat
  BY <1>8 DEF Nodes
<1>15. y \in Nodes /\ y.e = x.e /\ y.s = (IF prev THEN L[k].s ELSE x.s) /\ y.s <= x.s
  <2>1. CASE prev
    <3>1. L[k].s <= x.e /\ L[k].s <= x.s
      BY <1>n, <1>p, <1>5, <1>8, <1>9, <1>13, <1>14, <2>1, SMTT(30)
    <3>2. L[k].s \in Nat /\ x.e \in Nat
      BY <1>5, <1>13, <1>14, <2>1
    <3>3. y = Region(L[k].s, x.e)
      BY <1>p, <2>1
    <3> QED  BY <2>1, <3>1, <3>2, <3>3, RegionIsNode
  <2>2. CASE ~prev
    BY <1>n, <1>p, <1>8, <1>14, <2>2, SMTT(30)
  <2> QED  BY <1>n, <1>p, <2>1, <2>2
<1>16. ASSUME NEW i \in 1 .. lo PROVE L[i].s < y.s /\ L[i].e <= y.s
  <2>1. i \in 1 .. k /\ i \in 1 .. Len(L)
    BY <1>n, <1>p, <1>1, <1>2, <1>12, SMTT(30)
  <2>2. CASE prev
    <3>1. i < k /\ L[k].s < L[k].e
      BY <1>n, <1>p, <1>1, <1>2, <1>3, <1>13, <2>2, SMTT(30)
    <3> QED  BY <1>n, <1>p, <1>2, <1>13, <1>15, <2>1, <2>2, <3>1 DEF Ordered
  <2>3. CASE ~prev
    BY <1>n, <1>p, <1>3, <1>8, <1>15, <2>1, <2>3
  <2> QED  BY <1>n, <1>p, <2>2, <2>3
<1>17. ASSUME NEW j \in hi .. Len(L), L[j].s < L[j].e PROVE y.s < L[j].s /\ y.e <= L[j].s
  <2>1. x.s < L[j].s /\ x.e <= L[j].s
    BY <1>10, <1>17
  <2>2. L[j].s \in Nat /\ y.s \in Nat
    <3>1. j \in 1 .. Len(L)
      BY <1>n, <1>p, <1>1, <1>2, <1>6, SMTT(30)
    <3> QED  BY <1>5, <1>15, <3>1 DEF Nodes
  <2> QED  BY <1>n, <1>p, <1>14, <1>15, <2>1, <2>2, SMTT(30)
<1>18. ASSUME NEW a
       PROVE  a \in Bytes(y) <=> a \in Bytes(x) \/ (prev /\ a \in Bytes(L[k]))
  <2>1. CASE prev
    <3>1. a \in Bytes(y) <=> a \in Int /\ L[k].s <= a /\ a < x.e
      BY <1>n, <1>p, <1>15, <2>1, BytesOfNode
    <3>2. a \in Bytes(L[k]) <=> a \in Int /\ L[k].s <= a /\ a < x.s
      BY <1>n, <1>p, <1>2, <1>8, <1>13, <2>1, BytesOfNode
    <3>3. a \in Bytes(x) <=> a \in Int /\ x.s <= a /\ a < x.e
      BY <1>8, BytesOfNode
    <3>4. L[k].s <= x.s /\ L[k].s \in Nat
      BY <1>n, <1>p, <1>5, <1>13, <1>15, <2>1
    <3>5. x.s <= x.e
      BY <1>9, <1>14, SMTT(30)
    <3> QED  BY <1>14, <2>1, <3>1, <3>2, <3>3, <3>4, <3>5, IntervalParts
  <2>2. CASE ~prev
    BY <1>n, <1>p, <2>2
  <2> QED  BY <1>n, <1>p, <2>1, <2>2
<1>19. /\ R \in Seq(Nodes) /\ Ordered(R) /\ \E i \in DOMAIN R : R[i] = y
       /\ \A a : a \in ListBytes(R) <=>
                   \/ a \in Bytes(y)
                   \/ \E i \in 1 .. lo : a \in Bytes(L[i])
                   \/ \E i \in hi .. Len(L) : a \in Bytes(L[i])
  <2>1. \A i \in 1 .. lo : L[i].s < y.s /\ L[i].e <= y.s
    BY <1>16
  <2>2. \A j \in hi .. Len(L) : L[j].s < L[j].e => y.s < L[j].s /\ y.e <= L[j].s
    BY <1>17
  <2>3. y \in Nodes
    BY <1>15
  <2> DEFINE W == Splice(L, lo, y, hi)
  <2>4. /\ W \in Seq(Nodes) /\ Ordered(W) /\ \E i \in DOMAIN W : W[i] = y
        /\ \A a : a \in ListBytes(W) <=>
                    \/ a \in Bytes(y)
                    \/ \E i \in 1 .. lo : a \in Bytes(L[i])
                    \/ \E i \in hi .. Len(L) : a \in Bytes(L[i])
    BY <1>12, <2>1, <2>2, <2>3, SpliceIsOrdered
  <2> QED  BY <1>4, <2>4
<1>20. ASSUME NEW a PROVE a \in ListBytes(R) <=> a \in ListBytes(L) \cup Bytes(rg)
  <2>1. \A i \in 1 .. Len(L) : \/ i \in 1 .. lo
                               \/ i \in hi .. Len(L)
                               \/ next /\ i = k + 1
                               \/ prev /\ i = k
    BY <1>n, <1>p, <1>1, <1>2, SMTT(30)
  <2>2. /\ \A i \in 1 .. lo : i \in 1 .. Len(L)
        /\ \A i \in hi .. Len(L) : i \in 1 .. Len(L)
    BY <1>n, <1>p, <1>2, <1>12, SMTT(30)
  <2>3. a \in ListBytes(L) <=> \E i \in 1 .. Len(L) : a \in Bytes(L[i])
    BY <1>2 DEF ListBytes
  <2> QED  BY <1>n, <1>p, <1>7, <1>11, <1>13, <1>18, <1>19, <2>1, <2>2, <2>3
<1>21. y.s <= rg.s /\ rg.e <= y.e
  BY <1>8, <1>9, <1>15
<1> QED  BY <1>19, <1>20, <1>21 DEF R

\* No byte is in two nodes of a list in order.
LEMMA OrderedDisjoint ==
  ASSUME NEW L \in Seq(Nodes), Ordered(L), NEW i \in 1 .. Len(L), NEW j \in 1 .. Len(L), i # j,
         NEW a, a \in Bytes(L[i])
  PROVE  a \notin Bytes(L[j])
<1>1. Len(L) \in Nat /\ DOMAIN L = 1 .. Len(L) /\ L[i] \in Nodes /\ L[j] \in Nodes
  BY ListOfNodes
<1>2. SUFFICES ASSUME a \in Bytes(L[j]) PROVE FALSE
  OBVIOUS
<1>3. /\ a \in Int /\ L[i].s <= a /\ a < L[i].e
      /\ L[j].s <= a /\ a < L[j].e
  BY <1>1, <1>2, BytesOfNode
<1>4. /\ L[i].s \in Nat /\ L[i].e \in Nat /\ L[i].s < L[i].e
      /\ L[j].s \in Nat /\ L[j].e \in Nat /\ L[j].s < L[j].e
  BY <1>1, <1>3, SMTT(30) DEF Nodes
<1>5. i < j => L[i].e <= L[j].s
  BY <1>1, <1>4 DEF Ordered
<1>6. j < i => L[j].e <= L[i].s
  BY <1>1, <1>4 DEF Ordered
<1> QED  BY <1>1, <1>3, <1>4, <1>5, <1>6, SMTT(30)

\* The traversal of get_free_vmrg_area() stops at a node that is large enough.
LEMMA FirstFitExists ==
  ASSUME NEW L \in Seq(Nodes), NEW size \in Nat, HasFit(L, size)
  PROVE  FirstFit(L, size) \in 1 .. Len(L) /\ Fits(L, size, FirstFit(L, size))
<1> DEFINE T == {i \in 1 .. Len(L) : Fits(L, size, i)}
           P(i) == Fits(L, size, i) /\ \A j \in 1 .. i - 1 : ~Fits(L, size, j)
<1>1. Len(L) \in Nat /\ DOMAIN L = 1 .. Len(L)
  BY ListOfNodes
<1>2. T \in SUBSET Nat /\ T # {}
  <2>1. T # {}
    BY <1>1 DEF HasFit
  <2>2. \A i \in 1 .. Len(L) : i \in Nat
    BY <1>1, SMTT(30)
  <2> QED  BY <2>1, <2>2
<1>3. PICK i \in T : \A j \in T : i <= j
  <2> HIDE DEF T
  <2> QED  BY <1>2, LeastElement
<1>4. \A j \in 1 .. i - 1 : j \in 1 .. Len(L) /\ ~(i <= j)
  BY <1>1, <1>3, SMTT(30)
<1>5. i \in DOMAIN L /\ P(i)
  BY <1>1, <1>3, <1>4
<1>6. FirstFit(L, size) = CHOOSE m \in DOMAIN L : P(m)
  BY DEF FirstFit
<1> HIDE DEF P
<1>7. FirstFit(L, size) \in DOMAIN L /\ P(FirstFit(L, size))
  BY <1>5, <1>6
<1> QED  BY <1>1, <1>7 DEF P

\* Without the node at position i, the list is still in order and has the bytes of
\* the other nodes.
LEMMA RemoveNode ==
  ASSUME NEW L \in Seq(Nodes), Ordered(L), NEW i \in 1 .. Len(L)
  PROVE  LET R == RemoveAt(L, i)
         IN  /\ R \in Seq(Nodes) /\ Ordered(R)
             /\ \A a : a \in ListBytes(R) <=> \E j \in 1 .. Len(L) : j # i /\ a \in Bytes(L[j])
<1> DEFINE A == SubSeq(L, 1, i - 1)
           C == SubSeq(L, i + 1, Len(L))
           R == RemoveAt(L, i)
<1>0. Len(L) \in Nat /\ DOMAIN L = 1 .. Len(L) /\ L \in [1 .. Len(L) -> Nodes]
  BY SMTT(30)
<1>1. A \in Seq(Nodes) /\ Len(A) = i - 1 /\ \A j \in 1 .. i - 1 : A[j] = L[j]
  BY <1>0, SMTT(30)
<1>2. C \in Seq(Nodes) /\ Len(C) = Len(L) - i /\ \A j \in 1 .. Len(L) - i : C[j] = L[i + j]
  <2> DEFINE hi == i + 1
  <2>1. hi \in 1 .. Len(L) + 1
    BY <1>0, SMTT(30)
  <2> HIDE DEF hi
  <2>2. /\ SubSeq(L, hi, Len(L)) \in Seq(Nodes) /\ Len(SubSeq(L, hi, Len(L))) = Len(L) - hi + 1
        /\ \A j \in 1 .. Len(L) - hi + 1 : SubSeq(L, hi, Len(L))[j] = L[hi + j - 1]
    BY <1>0, <2>1, SMTT(30)
  <2>3. /\ C \in Seq(Nodes) /\ Len(C) = Len(L) - (i + 1) + 1
        /\ \A j \in 1 .. Len(L) - (i + 1) + 1 : C[j] = L[i + 1 + j - 1]
    BY <2>2 DEF hi
  <2>4. Len(L) - (i + 1) + 1 = Len(L) - i /\ \A j \in 1 .. Len(L) - i : i + 1 + j - 1 = i + j
    BY <1>0, SMTT(30)
  <2> HIDE DEF C
  <2> QED  BY <2>3, <2>4
<1> HIDE DEF A, C
<1>3. R = A \o C
  BY DEF RemoveAt, A, C
<1> HIDE DEF R
<1>4. /\ R \in Seq(Nodes) /\ Len(R) = (i - 1) + (Len(L) - i)
      /\ \A j \in 1 .. (i - 1) + (Len(L) - i) : R[j] = IF j <= i - 1 THEN A[j] ELSE C[j - (i - 1)]
  <2>1. A \in Seq(Nodes) /\ C \in Seq(Nodes)
    BY <1>1, <1>2
  <2>2. /\ R \in Seq(Nodes) /\ Len(R) = Len(A) + Len(C)
        /\ \A j \in 1 .. Len(A) + Len(C) : R[j] = IF j <= Len(A) THEN A[j] ELSE C[j - Len(A)]
    <3>1. /\ A \o C \in Seq(Nodes) /\ Len(A \o C) = Len(A) + Len(C)
          /\ \A j \in 1 .. Len(A) + Len(C) :
               (A \o C)[j] = IF j <= Len(A) THEN A[j] ELSE C[j - Len(A)]
      BY <2>1, JoinProperties
    <3> QED  BY <1>3, <3>1
  <2> QED  BY <1>1, <1>2, <2>2
<1>5. Len(R) = Len(L) - 1 /\ DOMAIN R = 1 .. Len(R)
  BY <1>0, <1>4, SMTT(30)
<1>6. ASSUME NEW j \in 1 .. Len(R)
      PROVE  /\ j < i => R[j] = L[j] /\ j \in 1 .. Len(L)
             /\ ~(j < i) => R[j] = L[j + 1] /\ j + 1 \in 1 .. Len(L)
  <2>1. CASE j < i
    <3>1. j \in 1 .. i - 1 /\ j <= i - 1 /\ j \in 1 .. (i - 1) + (Len(L) - i) /\ j \in 1 .. Len(L)
      BY <1>0, <1>5, <2>1, SMTT(30)
    <3> QED  BY <1>1, <1>4, <2>1, <3>1
  <2>2. CASE ~(j < i)
    <3>1. /\ ~(j <= i - 1) /\ j \in 1 .. (i - 1) + (Len(L) - i) /\ j + 1 \in 1 .. Len(L)
          /\ j - (i - 1) \in 1 .. Len(L) - i /\ i + (j - (i - 1)) = j + 1
      BY <1>0, <1>5, <2>2, SMTT(30)
    <3> QED  BY <1>2, <1>4, <2>2, <3>1
  <2> QED  BY <2>1, <2>2
<1>7. Ordered(R)
  <2> SUFFICES ASSUME NEW j \in 1 .. Len(R), NEW m \in 1 .. Len(R), j < m, R[m].s < R[m].e
               PROVE  R[j].s < R[m].s /\ R[j].e <= R[m].s
    BY <1>5 DEF Ordered
  <2>1. CASE m < i
    <3>1. j < i
      BY <1>0, <1>5, <2>1, SMTT(30)
    <3> QED  BY <1>0, <1>6, <2>1, <3>1 DEF Ordered
  <2>2. CASE ~(m < i) /\ j < i
    <3>1. j < m + 1
      BY <1>0, <1>5, SMTT(30)
    <3> QED  BY <1>0, <1>6, <2>2, <3>1 DEF Ordered
  <2>3. CASE ~(m < i) /\ ~(j < i)
    <3>1. j + 1 < m + 1
      BY <1>0, <1>5, SMTT(30)
    <3> QED  BY <1>0, <1>6, <2>3, <3>1 DEF Ordered
  <2> QED  BY <2>1, <2>2, <2>3
<1>8. ASSUME NEW a PROVE a \in ListBytes(R) <=> \E j \in 1 .. Len(L) : j # i /\ a \in Bytes(L[j])
  <2>1. a \in ListBytes(R) <=> \E j \in 1 .. Len(R) : a \in Bytes(R[j])
    BY <1>5 DEF ListBytes
  <2>2. ASSUME NEW j \in 1 .. Len(R), a \in Bytes(R[j])
        PROVE  \E m \in 1 .. Len(L) : m # i /\ a \in Bytes(L[m])
    <3>1. (j < i => j # i) /\ (~(j < i) => j + 1 # i)
      BY <1>0, <1>5, SMTT(30)
    <3> QED  BY <1>6, <2>2, <3>1
  <2>3. ASSUME NEW m \in 1 .. Len(L), m # i, a \in Bytes(L[m])
        PROVE  \E j \in 1 .. Len(R) : a \in Bytes(R[j])
    <3>1. CASE m < i
      <4>1. m \in 1 .. Len(R)
        BY <1>0, <1>5, <3>1, SMTT(30)
      <4> QED  BY <1>6, <2>3, <3>1, <4>1
    <3>2. CASE ~(m < i)
      <4>1. m - 1 \in 1 .. Len(R) /\ ~(m - 1 < i) /\ (m - 1) + 1 = m
        BY <1>0, <1>5, <2>3, <3>2, SMTT(30)
      <4>2. R[m - 1] = L[m]
        BY <1>6, <4>1
      <4> QED  BY <2>3, <4>1, <4>2
    <3> QED  BY <3>1, <3>2
  <2> QED  BY <2>1, <2>2, <2>3
<1> QED  BY <1>4, <1>7, <1>8 DEF R

\* get_free_vmrg_area() takes a region of the size asked for out of the list: it is
\* part of one node, the rest of the list stays in order, and no byte is lost.
LEMMA TakeProperties ==
  ASSUME NEW L \in Seq(Nodes), Ordered(L), NEW size \in Nat \ {0}, HasFit(L, size)
  PROVE  LET T == Taken(L, size)
             R == Remaining(L, size)
         IN  /\ T \in Nodes /\ T.e = T.s + size
             /\ R \in Seq(Nodes) /\ Ordered(R)
             /\ ListBytes(R) \cup Bytes(T) = ListBytes(L)
             /\ ListBytes(R) \cap Bytes(T) = {}
<1> DEFINE i == FirstFit(L, size)
           T == Taken(L, size)
           R == Remaining(L, size)
           used_up == L[i].s + size = L[i].e
<1>1. Len(L) \in Nat /\ DOMAIN L = 1 .. Len(L) /\ L \in [1 .. Len(L) -> Nodes]
  BY SMTT(30)
<1>2. i \in 1 .. Len(L) /\ L[i].s + size <= L[i].e
  BY FirstFitExists DEF Fits
<1>3. T = Region(L[i].s, L[i].s + size)
  BY DEF Taken
<1>4. IF used_up /\ i < Len(L) THEN R = RemoveAt(L, i) ELSE R = [L EXCEPT ![i].s = L[i].s + size]
  BY DEF Remaining
<1> HIDE DEF i, T, R
<1>5. L[i] \in Nodes /\ L[i].s \in Nat /\ L[i].e \in Nat /\ L[i].s < L[i].e
  BY <1>1, <1>2, SMTT(30) DEF Nodes
<1>6. T \in Nodes /\ T.s = L[i].s /\ T.e = L[i].s + size
  <2>1. L[i].s + size \in Nat /\ L[i].s <= L[i].s + size
    BY <1>5, SMTT(30)
  <2> QED  BY <1>3, <1>5, <2>1, RegionIsNode
<1>7. ASSUME NEW a, a \in Bytes(T) PROVE a \in Bytes(L[i]) /\ \A j \in 1 .. Len(L) : j # i => a \notin Bytes(L[j])
  <2>1. a \in Int /\ L[i].s <= a /\ a < L[i].s + size
    BY <1>6, <1>7, BytesOfNode
  <2>2. a < L[i].e
    BY <1>2, <1>5, <2>1, SMTT(30)
  <2>3. a \in Bytes(L[i])
    BY <1>5, <2>1, <2>2, BytesOfNode
  <2> QED  BY <1>2, <2>3, OrderedDisjoint
<1>8. \A a : a \in ListBytes(L) <=> \E j \in 1 .. Len(L) : a \in Bytes(L[j])
  BY <1>1 DEF ListBytes
<1>9. CASE used_up /\ i < Len(L)
  <2>1. /\ R \in Seq(Nodes) /\ Ordered(R)
        /\ \A a : a \in ListBytes(R) <=> \E j \in 1 .. Len(L) : j # i /\ a \in Bytes(L[j])
    BY <1>2, <1>4, <1>9, RemoveNode
  <2>2. \A a : a \in Bytes(T) <=> a \in Bytes(L[i])
    BY <1>5, <1>6, <1>9, BytesOfNode
  <2> QED  BY <1>2, <1>6, <1>7, <1>8, <2>1, <2>2 DEF T, R
<1>10. CASE ~(used_up /\ i < Len(L))
  <2> DEFINE n == Region(L[i].s + size, L[i].e)
  <2>1. n \in Nodes /\ n.s = L[i].s + size /\ n.e = L[i].e
    <3>1. L[i].s + size \in Nat
      BY <1>5, SMTT(30)
    <3> QED  BY <1>2, <1>5, <3>1, RegionIsNode
  <2>2. [L[i] EXCEPT !.s = L[i].s + size] = n
    <3>1. \A r \in [s : Nat, e : Nat] : \A v : [r EXCEPT !.s = v] = [s |-> v, e |-> r.e]
      BY SMTT(30)
    <3>2. L[i] \in [s : Nat, e : Nat]
      BY <1>5 DEF Nodes
    <3> QED  BY <3>1, <3>2 DEF Region
  <2>3. R = [L EXCEPT ![i] = n]
    <3>1. R = [L EXCEPT ![i] = [L[i] EXCEPT !.s = L[i].s + size]]
      BY <1>4, <1>10
    <3> QED  BY <2>2, <3>1
  <2> HIDE DEF n
  <2>4. R \in Seq(Nodes) /\ Len(R) = Len(L) /\ DOMAIN R = 1 .. Len(L)
    BY <1>1, <1>2, <2>1, <2>3, SMTT(30)
  <2>5. R[i] = n /\ \A j \in 1 .. Len(L) : j # i => R[j] = L[j]
    BY <1>1, <1>2, <2>3
  <2>6. Ordered(R)
    <3> SUFFICES ASSUME NEW j \in 1 .. Len(L), NEW m \in 1 .. Len(L), j < m, R[m].s < R[m].e
                 PROVE  R[j].s < R[m].s /\ R[j].e <= R[m].s
      BY <2>4 DEF Ordered
    <3>1. j # m /\ L[j] \in Nodes /\ L[m] \in Nodes
      BY <1>1, SMTT(30)
    <3>2. /\ L[j].s \in Nat /\ L[j].e \in Nat /\ L[j].s <= L[j].e
          /\ L[m].s \in Nat /\ L[m].e \in Nat /\ L[m].s <= L[m].e
      BY <3>1 DEF Nodes
    <3>3. L[m].s < L[m].e => L[j].s < L[m].s /\ L[j].e <= L[m].s
      BY <1>1 DEF Ordered
    <3>4. CASE m = i
      <4>1. R[j] = L[j] /\ R[m] = n
        BY <2>5, <3>1, <3>4
      <4>2. L[j].s < L[m].s /\ L[j].e <= L[m].s
        BY <1>5, <3>3, <3>4
      <4> QED  BY <1>5, <2>1, <3>2, <3>4, <4>1, <4>2, SMTT(30)
    <3>5. CASE j = i
      <4>1. R[j] = n /\ R[m] = L[m]
        BY <2>5, <3>1, <3>5
      <4>2. L[j].s < L[m].s /\ L[j].e <= L[m].s
        BY <3>3, <4>1
      <4>3. i < Len(L)
        BY <1>1, <3>5, SMTT(30)
      <4>4. L[i].s + size # L[i].e
        BY <1>10, <4>3
      <4> QED  BY <1>2, <1>5, <2>1, <3>2, <3>5, <4>1, <4>2, <4>4, SMTT(30)
    <3>6. CASE m # i /\ j # i
      BY <2>5, <3>3, <3>6
    <3> QED  BY <3>4, <3>5, <3>6
  <2>7. ASSUME NEW a PROVE a \in Bytes(L[i]) <=> a \in Bytes(T) \/ a \in Bytes(n)
    <3>1. a \in Bytes(L[i]) <=> a \in Int /\ L[i].s <= a /\ a < L[i].e
      BY <1>5, BytesOfNode
    <3>2. a \in Bytes(T) <=> a \in Int /\ L[i].s <= a /\ a < n.s
      BY <1>6, <2>1, BytesOfNode
    <3>3. a \in Bytes(n) <=> a \in Int /\ n.s <= a /\ a < L[i].e
      BY <2>1, BytesOfNode
    <3>4. n.s \in Nat /\ L[i].s <= n.s /\ n.s <= L[i].e
      BY <1>2, <1>5, <2>1, SMTT(30)
    <3> QED  BY <1>5, <3>1, <3>2, <3>3, <3>4, IntervalParts
  <2>8. ASSUME NEW a, a \in Bytes(T) PROVE a \notin Bytes(n)
    <3>1. a \in Int /\ a < n.s
      BY <1>6, <2>1, <2>8, BytesOfNode
    <3>2. a \in Bytes(n) => n.s <= a
      BY <2>1, BytesOfNode
    <3> QED  BY <1>5, <2>1, <3>1, <3>2, SMTT(30)
  <2>9. \A a : a \in ListBytes(R) <=> a \in Bytes(n) \/ \E j \in 1 .. Len(L) : j # i /\ a \in Bytes(L[j])
    BY <1>2, <2>4, <2>5 DEF ListBytes
  <2>10. ListBytes(R) \cup Bytes(T) = ListBytes(L)
    BY <1>2, <1>8, <2>7, <2>9
  <2>11. ListBytes(R) \cap Bytes(T) = {}
    BY <1>7, <2>8, <2>9
  <2> QED  BY <1>6, <2>4, <2>6, <2>10, <2>11 DEF T, R
<1> QED  BY <1>9, <1>10
----------------------------------------------------------------------------
----------------------------------------------------------------------------
(* The scan of kernel_allocate_contiguous_frames().                        *)

Increasing(s) == \A i, j \in DOMAIN s : i < j => s[i] < s[j]

Sortable(S) == \E s \in [1 .. Cardinality(S) -> S] : Increasing(s)

\* A set of frames can be sorted.
LEMMA SortedExists ==
  ASSUME NEW n \in Nat, NEW S \in SUBSET (0 .. n - 1)
  PROVE  Sortable(S)
<1> DEFINE T == {m \in Nat : \E X \in SUBSET (0 .. m - 1) : ~Sortable(X)}
<1> SUFFICES ASSUME ~Sortable(S) PROVE FALSE
  OBVIOUS
<1>1. T \in SUBSET Nat /\ T # {}
  OBVIOUS
<1>2. PICK m \in T : \A y \in T : m <= y
  BY <1>1, LeastElement
<1>3. m \in Nat
  OBVIOUS
<1>4. PICK X \in SUBSET (0 .. m - 1) : ~Sortable(X)
  OBVIOUS
<1>5. \A k \in Nat : k < m => \A Y \in SUBSET (0 .. k - 1) : Sortable(Y)
  <2>1. \A k \in Nat : k < m => ~(m <= k)
    BY <1>3, SMTT(30)
  <2> QED  BY <1>2, <2>1
<1> HIDE DEF T
<1>6. \A x \in X : x \in Nat /\ x <= m - 1 /\ x < m
  BY <1>3, SMTT(30)
<1>7. CASE m = 0
  <2>1. X = {}
    BY <1>3, <1>7, SMTT(30)
  <2>2. Cardinality({}) = 0 /\ 1 .. 0 = {}
    BY FS_EmptySet, SMTT(30)
  <2>3. [i \in {} |-> 0] \in [1 .. 0 -> {}] /\ Increasing([i \in {} |-> 0])
    BY <2>2 DEF Increasing
  <2> QED  BY <1>4, <2>1, <2>2, <2>3 DEF Sortable
<1>8. CASE m # 0
  <2> DEFINE k == m - 1
             Y == X \ {k}
  <2>1. k \in Nat /\ k < m
    BY <1>3, <1>8, SMTT(30)
  <2>2. \A x \in Y : x \in 0 .. k - 1 /\ x < k
    BY <1>3, <1>6, <1>8, SMTT(30)
  <2>3. Sortable(Y)
    BY <1>5, <2>1, <2>2
  <2>4. CASE k \notin X
    BY <1>4, <2>3, <2>4
  <2>5. CASE k \in X
    <3>1. IsFiniteSet(X)
      <4>1. X \in SUBSET Nat /\ \A x \in X : x <= m
        BY <1>3, <1>6, SMTT(30)
      <4> QED  BY <1>3, <4>1, FS_BoundedSetOfNaturals
    <3>2. IsFiniteSet(Y) /\ Cardinality(Y) = Cardinality(X) - 1
      BY <2>5, <3>1, FS_RemoveElement
    <3>3. Cardinality(X) \in Nat /\ Cardinality(Y) \in Nat
      BY <3>1, <3>2, FS_CardinalityType
    <3> DEFINE c == Cardinality(Y)
    <3>4. c \in Nat /\ Cardinality(X) = c + 1
      BY <3>2, <3>3, SMTT(30)
    <3>5. PICK s \in [1 .. c -> Y] : Increasing(s)
      BY <2>3 DEF Sortable
    <3> DEFINE t == [i \in 1 .. c + 1 |-> IF i = c + 1 THEN k ELSE s[i]]
    <3> HIDE DEF c, k, Y
    <3>6. \A i \in 1 .. c + 1 : i # c + 1 => i \in 1 .. c
      BY <3>4, SMTT(30)
    <3>7. \A i \in 1 .. c + 1 : t[i] = IF i = c + 1 THEN k ELSE s[i]
      OBVIOUS
    <3>8. t \in [1 .. c + 1 -> X]
      BY <2>5, <3>5, <3>6 DEF Y
    <3> HIDE DEF t
    <3>9. ASSUME NEW i \in 1 .. c + 1, NEW j \in 1 .. c + 1, i < j
          PROVE  t[i] < t[j]
      <4>1. i \in 1 .. c /\ i # c + 1
        BY <3>4, <3>9, SMTT(30)
      <4>2. CASE j = c + 1
        BY <2>2, <3>5, <3>7, <4>1, <4>2
      <4>3. CASE j # c + 1
        BY <3>5, <3>6, <3>7, <3>9, <4>1, <4>3 DEF Increasing
      <4> QED  BY <4>2, <4>3
    <3>10. Increasing(t)
      BY <3>8, <3>9 DEF Increasing
    <3> QED  BY <1>4, <3>4, <3>8, <3>10 DEF Sortable
  <2> QED  BY <2>4, <2>5
<1> QED  BY <1>7, <1>8

\* SortedFree() has every free frame once, in order.
LEMMA SortedFreeProperties ==
  ASSUME NEW list, bounds.frames \in Nat
  PROVE  LET s == SortedFree(list)
             S == {f \in Frame : IsFree(list, f)}
         IN  /\ Cardinality(S) \in Nat
             /\ s \in [1 .. Cardinality(S) -> S]
             /\ Increasing(s)
             /\ \A f \in S : \E i \in 1 .. Cardinality(S) : s[i] = f
<1> DEFINE s == SortedFree(list)
           S == {f \in Frame : IsFree(list, f)}
           c == Cardinality(S)
<1>1. S \in SUBSET (0 .. bounds.frames - 1)
  BY DEF Frame, Frames
<1>2. IsFiniteSet(S) /\ c \in Nat
  <2>1. 0 \in Int /\ bounds.frames - 1 \in Int
    BY SMTT(30)
  <2>2. IsFiniteSet(0 .. bounds.frames - 1)
    BY <2>1, FS_Interval
  <2> QED  BY <1>1, <2>2, FS_Subset, FS_CardinalityType
<1>3. Sortable(S)
  BY <1>1, SortedExists
<1>4. s = CHOOSE x \in [1 .. c -> S] : \A i, j \in DOMAIN x : i < j => x[i] < x[j]
  BY DEF SortedFree
<1>5. S \subseteq Int
  BY <1>1, SMTT(30)
<1> HIDE DEF s, S, c
<1>6. s \in [1 .. c -> S] /\ Increasing(s)
  BY <1>3, <1>4 DEF Sortable, Increasing, c
<1>7. s \in Injection(1 .. c, S)
  <2>1. ASSUME NEW i \in 1 .. c, NEW j \in 1 .. c, s[i] = s[j]
        PROVE  i = j
    <3>1. s[i] \in Int /\ s[j] \in Int
      BY <1>5, <1>6
    <3>2. ~(s[i] < s[j]) /\ ~(s[j] < s[i])
      BY <2>1, <3>1, SMTT(30)
    <3>3. ~(i < j) /\ ~(j < i)
      BY <1>6, <3>2 DEF Increasing
    <3>4. i \in Int /\ j \in Int
      BY <1>2, SMTT(30)
    <3> QED  BY <3>3, <3>4, SMTT(30)
  <2> QED  BY <1>6, <2>1 DEF Injection, IsInjective
<1>8. Cardinality(1 .. c) = c
  <2>1. 1 \in Int /\ c \in Int
    BY <1>2, SMTT(30)
  <2>2. Cardinality(1 .. c) = IF 1 > c THEN 0 ELSE c - 1 + 1
    BY <2>1, FS_Interval
  <2> QED  BY <1>2, <2>2, SMTT(30)
<1>9. s \in Surjection(1 .. c, S)
  BY <1>2, <1>7, <1>8, FS_Injection DEF c
<1> QED  BY <1>2, <1>6, <1>9 DEF Surjection, s, S, c

\* What the scan adds up at position i of the sorted nodes.
RunAt(s, f, i) == IF i > 1 /\ s[i] = s[i - 1] + 1 THEN f[i - 1] + 1 ELSE 1

\* The recursion of RunLengths() has a solution.
LEMMA RunExists ==
  ASSUME NEW N \in Nat, NEW s
  PROVE  \E f \in [1 .. N -> Nat \ {0}] : \A i \in 1 .. N : f[i] = RunAt(s, f, i)
<1> DEFINE P(m) == \E f \in [1 .. m -> Nat \ {0}] : \A i \in 1 .. m : f[i] = RunAt(s, f, i)
           T == {m \in Nat : ~P(m)}
<1> SUFFICES ASSUME ~P(N) PROVE FALSE
  OBVIOUS
<1>1. T \in SUBSET Nat /\ T # {}
  OBVIOUS
<1>2. PICK m \in T : \A y \in T : m <= y
  BY <1>1, LeastElement
<1>3. m \in Nat /\ ~P(m)
  OBVIOUS
<1>4. CASE m = 0
  <2>1. 1 .. 0 = {}
    BY SMTT(30)
  <2>2. [i \in {} |-> 1] \in [1 .. 0 -> Nat \ {0}] /\ \A i \in 1 .. 0 : FALSE
    BY <2>1
  <2> QED  BY <1>3, <1>4, <2>2
<1>5. CASE m # 0
  <2> DEFINE k == m - 1
  <2>1. k \in Nat /\ ~(m <= k) /\ m = k + 1
    BY <1>3, <1>5, SMTT(30)
  <2>2. P(k)
    BY <1>2, <2>1
  <2>3. PICK f \in [1 .. k -> Nat \ {0}] : \A i \in 1 .. k : f[i] = RunAt(s, f, i)
    BY <2>2
  <2> HIDE DEF k, T
  <2> DEFINE v == RunAt(s, f, m)
             g == [i \in 1 .. m |-> IF i = m THEN v ELSE f[i]]
  <2>4. \A i \in 1 .. m : i # m => i \in 1 .. k
    BY <2>1, SMTT(30)
  <2>5. v \in Nat \ {0}
    <3>1. CASE m > 1 /\ s[m] = s[m - 1] + 1
      <4>1. m - 1 \in 1 .. k
        BY <1>3, <2>1, <3>1, SMTT(30)
      <4>2. f[m - 1] \in Nat \ {0}
        BY <2>3, <4>1
      <4>3. f[m - 1] + 1 \in Nat \ {0}
        BY <4>2, SMTT(30)
      <4> QED  BY <3>1, <4>3 DEF RunAt
    <3>2. CASE ~(m > 1 /\ s[m] = s[m - 1] + 1)
      <4>1. 1 \in Nat \ {0}
        BY SMTT(30)
      <4> QED  BY <3>2, <4>1 DEF RunAt
    <3> QED  BY <3>1, <3>2
  <2>6. g \in [1 .. m -> Nat \ {0}] /\ \A i \in 1 .. m : g[i] = IF i = m THEN v ELSE f[i]
    <3> HIDE DEF v
    <3>1. \A i \in 1 .. m : (IF i = m THEN v ELSE f[i]) \in Nat \ {0}
      BY <2>3, <2>4, <2>5
    <3> QED  BY <3>1
  <2> HIDE DEF g
  <2>7. ASSUME NEW i \in 1 .. m
        PROVE  g[i] = RunAt(s, g, i)
    <3>1. i > 1 => i - 1 \in 1 .. m /\ i - 1 # m
      BY <1>3, SMTT(30)
    <3>2. i > 1 => g[i - 1] = f[i - 1]
      BY <2>6, <3>1
    <3>3. RunAt(s, g, i) = RunAt(s, f, i)
      BY <3>2 DEF RunAt
    <3>4. CASE i = m
      BY <2>6, <3>3, <3>4
    <3>5. CASE i # m
      BY <2>3, <2>4, <2>6, <3>3, <3>5
    <3> QED  BY <3>4, <3>5
  <2> QED  BY <1>3, <2>6, <2>7
<1> QED  BY <1>4, <1>5

\* RunLengths() at every position.
LEMMA RunLengthsAt ==
  ASSUME NEW N \in Nat, NEW s, DOMAIN s = 1 .. N
  PROVE  /\ RunLengths(s) \in [1 .. N -> Nat \ {0}]
         /\ \A i \in 1 .. N : RunLengths(s)[i] = RunAt(s, RunLengths(s), i)
<1> DEFINE Def(f) == [i \in DOMAIN s |-> IF i > 1 /\ s[i] = s[i - 1] + 1 THEN f[i - 1] + 1 ELSE 1]
<1>1. RunLengths(s) = CHOOSE f : f = Def(f)
  BY DEF RunLengths
<1>2. PICK g \in [1 .. N -> Nat \ {0}] : \A i \in 1 .. N : g[i] = RunAt(s, g, i)
  BY RunExists
<1>3. g = Def(g)
  BY <1>2 DEF RunAt
<1> DEFINE r == RunLengths(s)
<1>4. r = Def(r)
  BY <1>1, <1>3
<1> HIDE DEF r
<1>5. DOMAIN r = 1 .. N /\ \A i \in 1 .. N : r[i] = RunAt(s, r, i)
  BY <1>4 DEF RunAt
<1>6. r = [i \in 1 .. N |-> r[i]]
  BY <1>4
<1>7. \A i \in 1 .. N : r[i] \in Nat \ {0}
  <2> SUFFICES ASSUME NEW i0 \in 1 .. N, r[i0] \notin Nat \ {0} PROVE FALSE
    OBVIOUS
  <2> DEFINE T == {i \in 1 .. N : r[i] \notin Nat \ {0}}
  <2>1. T \in SUBSET Nat /\ T # {}
    BY SMTT(30)
  <2>2. PICK m \in T : \A y \in T : m <= y
    BY <2>1, LeastElement
  <2>3. m \in 1 .. N /\ r[m] \notin Nat \ {0}
    OBVIOUS
  <2>4. m > 1 => m - 1 \in 1 .. N /\ ~(m <= m - 1)
    BY <2>3, SMTT(30)
  <2>5. m > 1 => r[m - 1] \in Nat \ {0}
    BY <2>2, <2>4
  <2>6. m > 1 => r[m - 1] + 1 \in Nat \ {0}
    BY <2>5, SMTT(30)
  <2>7. 1 \in Nat \ {0}
    BY SMTT(30)
  <2>8. RunAt(s, r, m) \in Nat \ {0}
    BY <2>6, <2>7 DEF RunAt
  <2> QED  BY <1>5, <2>3, <2>8
<1> QED  BY <1>5, <1>6, <1>7 DEF r

\* The nodes before the end of a run are consecutive frames, and the run was
\* shorter there.
LEMMA RunBack ==
  ASSUME NEW N \in Nat, NEW s \in [1 .. N -> Int], NEW i \in 1 .. N
  PROVE  \A k \in 0 .. RunLengths(s)[i] - 1 : /\ i - k \in 1 .. N
                                             /\ RunLengths(s)[i - k] = RunLengths(s)[i] - k
                                             /\ s[i - k] = s[i] - k
<1> DEFINE r == RunLengths(s)
<1>1. r \in [1 .. N -> Nat \ {0}] /\ \A j \in 1 .. N : r[j] = RunAt(s, r, j)
  BY RunLengthsAt
<1> HIDE DEF r
<1> DEFINE Good(j) == \A x \in 0 .. r[j] - 1 : /\ j - x \in 1 .. N
                                              /\ r[j - x] = r[j] - x
                                              /\ s[j - x] = s[j] - x
           T == {j \in 1 .. N : ~Good(j)}
<1> HIDE DEF Good, T
<1>2. T = {}
  <2> SUFFICES ASSUME T # {} PROVE FALSE
    OBVIOUS
  <2>1. T \in SUBSET Nat
    BY SMTT(30) DEF T
  <2>2. PICK m \in T : \A y \in T : m <= y
    BY <2>1, LeastElement
  <2>3. m \in 1 .. N /\ ~Good(m)
    BY DEF T
  <2>4. r[m] \in Nat \ {0} /\ s[m] \in Int
    BY <1>1, <2>3
  <2>5. CASE m > 1 /\ s[m] = s[m - 1] + 1
    <3>1. m - 1 \in 1 .. N /\ ~(m <= m - 1)
      BY <2>3, <2>5, SMTT(30)
    <3>2. Good(m - 1)
      BY <2>2, <3>1 DEF T
    <3>3. r[m] = r[m - 1] + 1
      BY <1>1, <2>3, <2>5 DEF RunAt
    <3>4. r[m - 1] \in Nat \ {0} /\ s[m - 1] \in Int
      BY <1>1, <3>1
    <3>5. ASSUME NEW x \in 0 .. r[m] - 1
          PROVE  m - x \in 1 .. N /\ r[m - x] = r[m] - x /\ s[m - x] = s[m] - x
      <4>1. CASE x = 0
        <5>1. m - 0 = m /\ r[m] - 0 = r[m] /\ s[m] - 0 = s[m]
          BY <2>3, <2>4, SMTT(30)
        <5> QED  BY <2>3, <4>1, <5>1
      <4>2. CASE x # 0
        <5>1. x - 1 \in 0 .. r[m - 1] - 1 /\ (m - 1) - (x - 1) = m - x
          BY <2>3, <3>3, <3>4, <4>2, SMTT(30)
        <5>2. m - x \in 1 .. N /\ r[m - x] = r[m - 1] - (x - 1) /\ s[m - x] = s[m - 1] - (x - 1)
          BY <3>2, <5>1 DEF Good
        <5> DEFINE a == r[m - 1]
                   b == s[m - 1]
        <5>3. a \in Int /\ b \in Int /\ x \in Int
          BY <2>4, <3>4, SMTT(30)
        <5>4. r[m] = a + 1 /\ s[m] = b + 1
          BY <2>5, <3>3
        <5>5. m - x \in 1 .. N /\ r[m - x] = a - (x - 1) /\ s[m - x] = b - (x - 1)
          BY <5>2
        <5> HIDE DEF a, b
        <5>6. a - (x - 1) = (a + 1) - x /\ b - (x - 1) = (b + 1) - x
          BY <5>3, SMTT(30)
        <5> QED  BY <5>4, <5>5, <5>6
      <4> QED  BY <4>1, <4>2
    <3> QED  BY <2>3, <3>5 DEF Good
  <2>6. CASE ~(m > 1 /\ s[m] = s[m - 1] + 1)
    <3>1. r[m] = 1
      BY <1>1, <2>3, <2>6 DEF RunAt
    <3>2. \A x \in 0 .. r[m] - 1 : x = 0
      BY <3>1, SMTT(30)
    <3>3. m - 0 = m /\ r[m] - 0 = r[m] /\ s[m] - 0 = s[m]
      BY <2>3, <2>4, SMTT(30)
    <3> QED  BY <2>3, <3>2, <3>3 DEF Good
  <2> QED  BY <2>5, <2>6
<1>3. Good(i)
  BY <1>2 DEF T
<1> QED  BY <1>3 DEF r, Good

\* Along a run of free frames the sorted nodes are consecutive and the count goes up.
LEMMA RunForward ==
  ASSUME NEW N \in Nat, NEW s \in [1 .. N -> Int], Increasing(s), NEW n \in Nat,
         NEW i \in 1 .. N, \A j \in 0 .. n - 1 : \E x \in 1 .. N : s[x] = s[i] + j,
         NEW j0 \in 0 .. n - 1
  PROVE  i + j0 \in 1 .. N /\ s[i + j0] = s[i] + j0 /\ RunLengths(s)[i + j0] >= j0 + 1
<1> DEFINE r == RunLengths(s)
<1>1. r \in [1 .. N -> Nat \ {0}] /\ \A j \in 1 .. N : r[j] = RunAt(s, r, j)
  BY RunLengthsAt
<1> HIDE DEF r
<1> DEFINE Good(j) == i + j \in 1 .. N /\ s[i + j] = s[i] + j /\ r[i + j] >= j + 1
           T == {j \in 0 .. n - 1 : ~Good(j)}
<1> HIDE DEF Good, T
<1>2. s[i] \in Int /\ r[i] \in Nat \ {0}
  BY <1>1
<1>3. T = {}
  <2> SUFFICES ASSUME T # {} PROVE FALSE
    OBVIOUS
  <2>1. T \in SUBSET Nat
    BY SMTT(30) DEF T
  <2>2. PICK m \in T : \A y \in T : m <= y
    BY <2>1, LeastElement
  <2>3. m \in 0 .. n - 1 /\ ~Good(m)
    BY DEF T
  <2>4. CASE m = 0
    <3>1. i + 0 = i /\ s[i] + 0 = s[i] /\ r[i] >= 0 + 1
      BY <1>2, SMTT(30)
    <3> QED  BY <2>3, <2>4, <3>1 DEF Good
  <2>5. CASE m # 0
    <3> DEFINE l == i + (m - 1)
    <3>1. m - 1 \in 0 .. n - 1 /\ ~(m <= m - 1)
      BY <2>3, <2>5, SMTT(30)
    <3>2. Good(m - 1)
      BY <2>2, <3>1 DEF T
    <3>3. l \in 1 .. N /\ s[l] = s[i] + (m - 1) /\ r[l] >= (m - 1) + 1 /\ l + 1 = i + m
      <4>1. i + (m - 1) + 1 = i + m
        BY <2>3, SMTT(30)
      <4> QED  BY <3>2, <4>1 DEF Good
    <3> HIDE DEF l
    <3>4. PICK x \in 1 .. N : s[x] = s[i] + m
      BY <2>3
    <3>5. s[x] = s[l] + 1 /\ s[l] \in Int
      BY <1>2, <2>3, <3>3, <3>4, SMTT(30)
    <3>6. \A y, z \in 1 .. N : y < z => s[y] < s[z]
      BY DEF Increasing
    <3>7. ~(x = l) /\ ~(x < l)
      <4>1. ~(s[x] = s[l]) /\ ~(s[x] < s[l])
        BY <3>5, SMTT(30)
      <4> QED  BY <3>3, <3>6, <4>1
    <3>8. x = l + 1
      <4> SUFFICES ASSUME x # l + 1 PROVE FALSE
        OBVIOUS
      <4>1. l + 1 \in 1 .. N /\ l < l + 1 /\ l + 1 < x
        BY <3>3, <3>7, SMTT(30)
      <4>2. s[l] < s[l + 1] /\ s[l + 1] < s[x] /\ s[l + 1] \in Int
        BY <3>3, <3>6, <4>1
      <4> QED  BY <3>5, <4>2, SMTT(30)
    <3>9. x > 1 /\ x - 1 = l
      BY <3>3, <3>8, SMTT(30)
    <3>10. r[x] = r[l] + 1
      BY <1>1, <3>5, <3>9 DEF RunAt
    <3>11. r[l] \in Nat
      BY <1>1, <3>3
    <3>12. r[x] >= m + 1
      BY <2>3, <3>3, <3>10, <3>11, SMTT(30)
    <3>13. x = i + m
      BY <3>3, <3>8
    <3> QED  BY <2>3, <3>4, <3>12, <3>13 DEF Good
  <2> QED  BY <2>4, <2>5
<1> QED  BY <1>3 DEF r, T, Good

\* The frames from which n consecutive ones are free.
FreeRuns(list, n) == {f \in Frame : \A i \in 0 .. n - 1 : f + i \in Frame /\ IsFree(list, f + i)}

\* The scan fails only if there is no run of n free frames, and returns the lowest.
LEMMA ScanIsRight ==
  ASSUME NEW list, bounds.frames \in Nat, NEW n \in Nat \ {0}
  PROVE  /\ CanAllocate(list, n) <=> FreeRuns(list, n) # {}
         /\ CanAllocate(list, n) =>
              /\ kernel_allocate_contiguous_frames(list, n) \in FreeRuns(list, n)
              /\ \A f \in FreeRuns(list, n) : kernel_allocate_contiguous_frames(list, n) <= f
<1> DEFINE s == SortedFree(list)
           r == RunLengths(s)
           S == {f \in Frame : IsFree(list, f)}
           N == Cardinality(S)
           stops == Stops(list, n)
           stop == CHOOSE i \in stops : \A j \in stops : i <= j
<1>1. N \in Nat /\ s \in [1 .. N -> S] /\ Increasing(s) /\ \A f \in S : \E i \in 1 .. N : s[i] = f
  BY SortedFreeProperties
<1>2. \A f \in Frame : f \in Int
  BY SMTT(30) DEF Frame, Frames
<1>3. s \in [1 .. N -> Int]
  BY <1>1, <1>2
<1>4. stops = {i \in 1 .. N : r[i] = n}
  BY <1>1 DEF Stops
<1>5. n > 0
  BY SMTT(30)
<1>6. CanAllocate(list, n) <=> stops # {}
  BY <1>5 DEF CanAllocate
<1>7. kernel_allocate_contiguous_frames(list, n) = s[stop - n + 1]
  BY DEF kernel_allocate_contiguous_frames
<1>8. \A f : f \in S <=> f \in Frame /\ IsFree(list, f)
  OBVIOUS
<1> HIDE DEF s, r, S, N, stops, stop
<1>9. ASSUME NEW m \in stops
      PROVE  m - n + 1 \in 1 .. N /\ s[m - n + 1] \in FreeRuns(list, n)
  <2>1. m \in 1 .. N /\ r[m] = n
    BY <1>4
  <2>2. \A k \in 0 .. n - 1 : m - k \in 1 .. N /\ s[m - k] = s[m] - k
    <3>1. N \in Nat /\ s \in [1 .. N -> Int] /\ m \in 1 .. N
      BY <1>1, <1>3, <2>1
    <3>2. \A k \in 0 .. RunLengths(s)[m] - 1 : /\ m - k \in 1 .. N
                                              /\ RunLengths(s)[m - k] = RunLengths(s)[m] - k
                                              /\ s[m - k] = s[m] - k
      BY <3>1, RunBack
    <3> QED  BY <2>1, <3>2 DEF r
  <2>3. n - 1 \in 0 .. n - 1 /\ m - (n - 1) = m - n + 1
    BY <2>1, SMTT(30)
  <2>4. m - n + 1 \in 1 .. N /\ s[m - n + 1] = s[m] - (n - 1)
    BY <2>2, <2>3
  <2>5. ASSUME NEW j \in 0 .. n - 1
        PROVE  s[m - n + 1] + j \in Frame /\ IsFree(list, s[m - n + 1] + j)
    <3>1. n - 1 - j \in 0 .. n - 1 /\ s[m] \in Int
      BY <1>3, <2>1, SMTT(30)
    <3>2. s[m - (n - 1 - j)] = s[m] - (n - 1 - j) /\ m - (n - 1 - j) \in 1 .. N
      BY <2>2, <3>1
    <3>3. s[m] - (n - 1 - j) = s[m - n + 1] + j
      BY <2>4, <3>1, SMTT(30)
    <3> QED  BY <1>1, <1>8, <3>2, <3>3
  <2>6. s[m - n + 1] \in Frame
    BY <1>1, <1>8, <2>4
  <2> QED  BY <2>4, <2>5, <2>6 DEF FreeRuns
<1>10. ASSUME NEW f \in FreeRuns(list, n)
       PROVE  \E m \in stops : s[m - n + 1] <= f /\ \A j \in stops : j <= m => s[j - n + 1] <= f
  <2>1. \A j \in 0 .. n - 1 : f + j \in S
    BY <1>8 DEF FreeRuns
  <2>2. 0 \in 0 .. n - 1 /\ n - 1 \in 0 .. n - 1 /\ f \in Int /\ f + 0 = f
    BY <1>2, SMTT(30) DEF FreeRuns
  <2>3. PICK i \in 1 .. N : s[i] = f
    BY <1>1, <2>1, <2>2
  <2>4. \A j \in 0 .. n - 1 : \E x \in 1 .. N : s[x] = s[i] + j
    BY <1>1, <2>1, <2>3
  <2> DEFINE e == i + (n - 1)
  <2>5. e \in 1 .. N /\ r[e] >= n - 1 + 1
    BY <1>1, <1>3, <2>2, <2>4, RunForward DEF r
  <2>6. r[e] \in Nat \ {0}
    BY <1>1, <2>5, RunLengthsAt DEF r
  <2>7. e = i + (n - 1)
    OBVIOUS
  <2> HIDE DEF e
  <2>8. r[e] - n \in 0 .. r[e] - 1 /\ r[e] - (r[e] - n) = n
    BY <2>5, <2>6, SMTT(30)
  <2> DEFINE m == e - (r[e] - n)
  <2>9. m \in 1 .. N /\ r[m] = n
    <3>1. N \in Nat /\ s \in [1 .. N -> Int] /\ e \in 1 .. N
      BY <1>1, <1>3, <2>5
    <3>2. \A k \in 0 .. RunLengths(s)[e] - 1 : /\ e - k \in 1 .. N
                                              /\ RunLengths(s)[e - k] = RunLengths(s)[e] - k
                                              /\ s[e - k] = s[e] - k
      BY <3>1, RunBack
    <3>3. \A k \in 0 .. r[e] - 1 : e - k \in 1 .. N /\ r[e - k] = r[e] - k
      BY <3>2 DEF r
    <3> QED  BY <2>8, <3>3
  <2>10. m - n + 1 <= i
    BY <2>5, <2>6, <2>7, SMTT(30)
  <2> HIDE DEF m
  <2>11. ASSUME NEW j \in stops, j <= m
         PROVE  s[j - n + 1] <= f
    <3>1. j - n + 1 \in 1 .. N
      BY <1>9
    <3>2. j - n + 1 <= i /\ (j - n + 1 < i \/ j - n + 1 = i)
      BY <1>4, <2>9, <2>10, <2>11, SMTT(30)
    <3>3. s[j - n + 1] < s[i] \/ s[j - n + 1] = s[i]
      BY <1>1, <3>1, <3>2 DEF Increasing
    <3>4. s[j - n + 1] \in Int
      BY <1>3, <3>1
    <3> QED  BY <2>2, <2>3, <3>3, <3>4, SMTT(30)
  <2>12. m \in stops /\ m <= m
    BY <1>4, <2>9, SMTT(30)
  <2> QED  BY <2>11, <2>12
<1>11. ASSUME stops # {}
       PROVE  stop \in stops /\ \A j \in stops : stop <= j
  <2>1. stops \in SUBSET Nat
    BY <1>4, SMTT(30)
  <2> QED  BY <1>11, <2>1, LeastElement DEF stop
<1>12. ASSUME stops # {}, NEW f \in FreeRuns(list, n)
       PROVE  s[stop - n + 1] <= f
  BY <1>10, <1>11, <1>12
<1>13. stops # {} <=> FreeRuns(list, n) # {}
  BY <1>9, <1>10
<1> QED  BY <1>6, <1>7, <1>9, <1>11, <1>12, <1>13
----------------------------------------------------------------------------
(* One heap: a list of free regions, a table of symbols, the end of the    *)
(* heap and the bytes that went with a symbol.                             *)

\* The symbols whose region is in the user's half of the addresses.
Low(tbl) == {r \in DOMAIN tbl : tbl[r].s < KBASE}

\* Every byte of the heap is in one place: in the list, in the region of one
\* symbol, or gone.
HeapOK(list, tbl, top, gone) ==
  /\ list \in Seq(Nodes) /\ Ordered(list) /\ ListBytes(list) \subseteq 0 .. top - 1
  /\ top \in Nat /\ top < KBASE
  /\ gone \subseteq 0 .. top - 1 /\ gone \cap ListBytes(list) = {}
  /\ \A r \in DOMAIN tbl : tbl[r] \in Nodes
  /\ \A r \in Low(tbl) : /\ tbl[r].e <= top
                         /\ Bytes(tbl[r]) \cap ListBytes(list) = {}
                         /\ Bytes(tbl[r]) \cap gone = {}
  /\ \A q, r \in Low(tbl) : q # r => Bytes(tbl[q]) \cap Bytes(tbl[r]) = {}
  /\ \A a \in 0 .. top - 1 : \/ a \in ListBytes(list)
                             \/ a \in gone
                             \/ \E r \in Low(tbl) : a \in Bytes(tbl[r])

\* The region no symbol has and a symbol has none.
LEMMA EmptyIsNode ==
  Empty \in Nodes /\ Bytes(Empty) = {} /\ Empty.s = 0 /\ Empty.e = 0
<1>1. Empty \in Nodes /\ Empty.s = 0 /\ Empty.e = 0
  BY RegionIsNode, SMTT(30) DEF Empty
<1>2. \A a : a \notin Bytes(Empty)
  BY <1>1, SMTT(30) DEF Bytes
<1> QED  BY <1>1, <1>2

\* init_mm(): a heap without bytes.
LEMMA FreshHeap ==
  ASSUME NEW S
  PROVE  HeapOK(<< >>, [r \in S |-> Empty], 0, {})
<1> DEFINE tbl == [r \in S |-> Empty]
<1>1. << >> \in Seq(Nodes) /\ Ordered(<< >>) /\ ListBytes(<< >>) = {}
  BY SMTT(30) DEF Ordered, ListBytes
<1>2. 0 \in Nat /\ 0 < KBASE /\ 0 .. 0 - 1 = {}
  BY KernelAssumption, RegionsAssumption, SMTT(30)
<1>3. \A r \in DOMAIN tbl : tbl[r] = Empty
  OBVIOUS
<1>4. 0 <= 0
  BY SMTT(30)
<1> HIDE DEF tbl
<1>5. HeapOK(<< >>, tbl, 0, {})
  BY <1>1, <1>2, <1>3, <1>4, EmptyIsNode DEF HeapOK, Low
<1> QED  BY <1>5 DEF tbl

\* A region of a heap that is not empty lies below the end of the heap.
LEMMA BelowTop ==
  ASSUME NEW x \in Nodes, NEW top \in Nat, top < KBASE, x.s < x.e, Bytes(x) \subseteq 0 .. top - 1
  PROVE  x.e <= top /\ x.s < KBASE
<1>1. x.s \in Nat /\ x.e \in Nat /\ KBASE \in Nat
  BY RegionsAssumption DEF Nodes
<1>2. x.s \in Int /\ x.s <= x.s /\ x.e - 1 \in Int /\ x.s <= x.e - 1 /\ x.e - 1 < x.e
  BY <1>1, SMTT(30)
<1>3. x.s \in Bytes(x) /\ x.e - 1 \in Bytes(x)
  BY <1>2, BytesOfNode
<1>4. x.s \in 0 .. top - 1 /\ x.e - 1 \in 0 .. top - 1
  BY <1>3
<1> QED  BY <1>1, <1>4, SMTT(30)

\* ALLOC: the symbol gets a free region, and the one it had is gone.
LEMMA AssignKeepsHeap ==
  ASSUME NEW list, NEW tbl, NEW top, NEW gone, HeapOK(list, tbl, top, gone),
         NEW size \in Nat \ {0}, HasFit(list, size), NEW r \in Low(tbl)
  PROVE  HeapOK(Remaining(list, size), [tbl EXCEPT ![r] = Taken(list, size)], top,
                gone \cup Bytes(tbl[r]))
<1> DEFINE T == Taken(list, size)
           R == Remaining(list, size)
           new == [tbl EXCEPT ![r] = T]
           lost2 == gone \cup Bytes(tbl[r])
<1>1. /\ list \in Seq(Nodes) /\ Ordered(list) /\ top \in Nat /\ top < KBASE
      /\ r \in DOMAIN tbl /\ tbl[r] \in Nodes
  BY DEF HeapOK, Low
<1>2. /\ T \in Nodes /\ T.e = T.s + size /\ R \in Seq(Nodes) /\ Ordered(R)
      /\ ListBytes(R) \cup Bytes(T) = ListBytes(list) /\ ListBytes(R) \cap Bytes(T) = {}
  BY <1>1, TakeProperties
<1>3. /\ DOMAIN new = DOMAIN tbl /\ new[r] = T /\ \A q \in DOMAIN tbl : q # r => new[q] = tbl[q]
  BY <1>1
<1> HIDE DEF T, R, new
<1>4. T.s < T.e
  BY <1>2, SMTT(30) DEF Nodes
<1>5. Bytes(T) \subseteq 0 .. top - 1 /\ ListBytes(R) \subseteq 0 .. top - 1
  BY <1>2 DEF HeapOK
<1>6. T.e <= top /\ T.s < KBASE
  BY <1>1, <1>2, <1>4, <1>5, BelowTop
<1>7. Low(new) = Low(tbl)
  BY <1>3, <1>6 DEF Low
<1>8. \A a \in Bytes(tbl[r]) : a \in 0 .. top - 1
  <2>1. tbl[r].e <= top /\ tbl[r].s \in Nat /\ tbl[r].e \in Nat
    BY <1>1 DEF HeapOK, Nodes
  <2> QED  BY <1>1, <2>1, SMTT(30) DEF Bytes
<1>9. lost2 \subseteq 0 .. top - 1 /\ lost2 \cap ListBytes(R) = {}
  BY <1>2, <1>8 DEF HeapOK
<1>10. \A q \in DOMAIN new : new[q] \in Nodes
  BY <1>2, <1>3 DEF HeapOK
<1>11. ASSUME NEW q \in Low(new)
       PROVE  /\ new[q].e <= top /\ Bytes(new[q]) \cap ListBytes(R) = {}
              /\ Bytes(new[q]) \cap lost2 = {}
  <2>0. q \in Low(tbl) /\ q \in DOMAIN tbl
    BY <1>7 DEF Low
  <2>1. CASE q = r
    <3>1. \A a \in Bytes(T) : a \in ListBytes(list) /\ a \notin ListBytes(R)
      BY <1>2
    <3>2. \A a \in lost2 : a \notin ListBytes(list)
      BY DEF HeapOK
    <3> QED  BY <1>3, <1>6, <2>1, <3>1, <3>2
  <2>2. CASE q # r
    <3>1. new[q] = tbl[q]
      BY <1>3, <2>0, <2>2
    <3> QED  BY <1>2, <2>0, <2>2, <3>1 DEF HeapOK
  <2> QED  BY <2>1, <2>2
<1>12. ASSUME NEW q \in Low(new), NEW s \in Low(new), q # s
       PROVE  Bytes(new[q]) \cap Bytes(new[s]) = {}
  <2>0. q \in Low(tbl) /\ q \in DOMAIN tbl /\ s \in Low(tbl) /\ s \in DOMAIN tbl
    BY <1>7 DEF Low
  <2>1. \A u \in Low(tbl) : Bytes(T) \cap Bytes(tbl[u]) = {}
    BY <1>2 DEF HeapOK
  <2>2. CASE q = r
    BY <1>3, <1>12, <2>0, <2>1, <2>2
  <2>3. CASE s = r
    BY <1>3, <1>12, <2>0, <2>1, <2>3
  <2>4. CASE q # r /\ s # r
    BY <1>3, <1>12, <2>0, <2>4 DEF HeapOK
  <2> QED  BY <2>2, <2>3, <2>4
<1>13. ASSUME NEW a \in 0 .. top - 1
       PROVE  a \in ListBytes(R) \/ a \in lost2 \/ \E q \in Low(new) : a \in Bytes(new[q])
  <2>1. CASE a \in ListBytes(list)
    BY <1>2, <1>3, <1>7, <2>1
  <2>2. CASE a \in gone
    BY <2>2
  <2>3. ASSUME NEW q \in Low(tbl), a \in Bytes(tbl[q])
        PROVE  a \in lost2 \/ \E s \in Low(new) : a \in Bytes(new[s])
    <3>1. q \in DOMAIN tbl
      BY DEF Low
    <3> QED  BY <1>3, <1>7, <2>3, <3>1
  <2> QED  BY <2>1, <2>2, <2>3 DEF HeapOK
<1> HIDE DEF lost2
<1>14. HeapOK(R, new, top, lost2)
  BY <1>1, <1>2, <1>5, <1>9, <1>10, <1>11, <1>12, <1>13 DEF HeapOK
<1> QED  BY <1>14 DEF R, T, new, lost2

\* inc_vma_limit(): n bytes are added at the end of the heap, and the list has a
\* region for every request of at most n bytes.
LEMMA GrowKeepsHeap ==
  ASSUME NEW list, NEW tbl, NEW top, NEW gone, HeapOK(list, tbl, top, gone),
         NEW n \in Nat \ {0}
  PROVE  LET R == enlist_vm_rg_node(list, Region(top, top + n))
         IN  /\ top + n < KBASE => HeapOK(R, tbl, top + n, gone)
             /\ \A size \in Nat : size <= n => HasFit(R, size)
<1> DEFINE x == Region(top, top + n)
           R == enlist_vm_rg_node(list, x)
           t == top + n
<1>0. KBASE \in Nat
  BY RegionsAssumption
<1>1. list \in Seq(Nodes) /\ Ordered(list) /\ top \in Nat /\ top < KBASE
  BY DEF HeapOK
<1>2. t \in Nat /\ top <= t /\ top < t
  BY <1>1, SMTT(30)
<1>3. x \in Nodes /\ x.s = top /\ x.e = t
  BY <1>1, <1>2, RegionIsNode
<1> HIDE DEF x
<1>4. \A a : a \in Bytes(x) <=> a \in Int /\ top <= a /\ a < t
  BY <1>3, BytesOfNode
<1>5. \A a \in 0 .. top - 1 : a \notin Bytes(x) /\ a \in 0 .. t - 1
  BY <1>1, <1>2, <1>4, SMTT(30)
<1>6. \A a \in Bytes(x) : a \in 0 .. t - 1
  BY <1>1, <1>2, <1>4, SMTT(30)
<1>7. \A a \in 0 .. t - 1 : a \in 0 .. top - 1 \/ a \in Bytes(x)
  BY <1>1, <1>2, <1>4, SMTT(30)
<1>8. Bytes(x) \cap ListBytes(list) = {}
  BY <1>5 DEF HeapOK
<1>9. /\ R \in Seq(Nodes) /\ Ordered(R) /\ ListBytes(R) = ListBytes(list) \cup Bytes(x)
      /\ \E i \in DOMAIN R : R[i].s <= x.s /\ x.e <= R[i].e
  <2>1. x.s < x.e
    BY <1>2, <1>3
  <2> QED  BY <1>1, <1>3, <1>8, <2>1, EnlistProperties
<1> HIDE DEF R
<1>10. ASSUME NEW r \in Low(tbl)
       PROVE  /\ tbl[r].e <= t /\ Bytes(tbl[r]) \cap ListBytes(R) = {}
              /\ Bytes(tbl[r]) \cap gone = {}
  <2>1. tbl[r] \in Nodes /\ tbl[r].s \in Nat /\ tbl[r].e \in Nat /\ tbl[r].e <= top
    BY DEF HeapOK, Low, Nodes
  <2>2. tbl[r].e <= t
    BY <1>1, <1>2, <2>1, SMTT(30)
  <2>3. \A a \in Bytes(tbl[r]) : a < tbl[r].e /\ a \in Int
    BY <2>1, BytesOfNode
  <2>4. \A a \in Bytes(tbl[r]) : a \notin Bytes(x)
    BY <1>1, <1>2, <1>4, <2>1, <2>3, SMTT(30)
  <2> QED  BY <1>9, <2>2, <2>4 DEF HeapOK
<1>11. ListBytes(R) \subseteq 0 .. t - 1 /\ gone \subseteq 0 .. t - 1 /\ gone \cap ListBytes(R) = {}
  BY <1>5, <1>6, <1>9 DEF HeapOK
<1>12. ASSUME NEW a \in 0 .. t - 1
       PROVE  a \in ListBytes(R) \/ a \in gone \/ \E r \in Low(tbl) : a \in Bytes(tbl[r])
  BY <1>7, <1>9 DEF HeapOK
<1>13. ASSUME t < KBASE PROVE HeapOK(R, tbl, t, gone)
  <2> HIDE DEF t
  <2>1. t < KBASE
    BY <1>13
  <2> QED  BY <1>2, <1>9, <1>10, <1>11, <1>12, <2>1 DEF HeapOK
<1>14. ASSUME NEW size \in Nat, size <= n PROVE HasFit(R, size)
  <2>1. PICK i \in DOMAIN R : R[i].s <= top /\ t <= R[i].e
    BY <1>3, <1>9
  <2>2. R[i].s \in Nat /\ R[i].e \in Nat
    BY <1>9, ListOfNodes DEF Nodes
  <2>3. R[i].s + size <= R[i].e
    BY <1>1, <1>14, <2>1, <2>2, SMTT(30)
  <2> QED  BY <2>3 DEF HasFit, Fits
<1> QED  BY <1>13, <1>14 DEF R, x

\* FREE: the region of the symbol goes to the list and the symbol has none.
LEMMA FreeKeepsHeap ==
  ASSUME NEW list, NEW tbl, NEW top, NEW gone, HeapOK(list, tbl, top, gone), NEW r \in Low(tbl)
  PROVE  HeapOK(enlist_vm_rg_node(list, tbl[r]), [tbl EXCEPT ![r] = Empty], top, gone)
<1> DEFINE x == tbl[r]
           R == enlist_vm_rg_node(list, x)
           new == [tbl EXCEPT ![r] = Empty]
<1>1. /\ list \in Seq(Nodes) /\ Ordered(list) /\ top \in Nat /\ top < KBASE
      /\ r \in DOMAIN tbl /\ x \in Nodes /\ x.e <= top
      /\ Bytes(x) \cap ListBytes(list) = {} /\ Bytes(x) \cap gone = {}
  BY DEF HeapOK, Low
<1>2. /\ DOMAIN new = DOMAIN tbl /\ new[r] = Empty
      /\ \A q \in DOMAIN tbl : q # r => new[q] = tbl[q]
  BY <1>1
<1> HIDE DEF new
<1>3. x.s \in Nat /\ x.e \in Nat
  BY <1>1 DEF Nodes
<1>4. \A a \in Bytes(x) : a \in 0 .. top - 1
  BY <1>1, <1>3, SMTT(30) DEF Bytes
<1>5. R \in Seq(Nodes) /\ Ordered(R) /\ ListBytes(R) = ListBytes(list) \cup Bytes(x)
  <2>1. CASE x.s < x.e
    BY <1>1, <2>1, EnlistProperties
  <2>2. CASE ~(x.s < x.e)
    <3>1. x.s >= x.e
      BY <1>3, <2>2, SMTT(30)
    <3>2. R = list
      BY <3>1 DEF enlist_vm_rg_node
    <3>3. \A a : a \notin Bytes(x)
      BY <1>3, <3>1, SMTT(30) DEF Bytes
    <3> QED  BY <1>1, <3>2, <3>3
  <2> QED  BY <2>1, <2>2
<1> HIDE DEF R
<1>6. Low(new) = Low(tbl)
  <2>1. Empty.s < KBASE
    BY EmptyIsNode, RegionsAssumption, KernelAssumption, SMTT(30)
  <2> QED  BY <1>2, <2>1 DEF Low
<1>7. ListBytes(R) \subseteq 0 .. top - 1 /\ gone \subseteq 0 .. top - 1 /\ gone \cap ListBytes(R) = {}
  BY <1>1, <1>4, <1>5 DEF HeapOK
<1>8. \A q \in DOMAIN new : new[q] \in Nodes
  BY <1>2, EmptyIsNode DEF HeapOK
<1>9. ASSUME NEW q \in Low(new)
      PROVE  /\ new[q].e <= top /\ Bytes(new[q]) \cap ListBytes(R) = {}
             /\ Bytes(new[q]) \cap gone = {}
             /\ \A s \in Low(new) : q # s => Bytes(new[q]) \cap Bytes(new[s]) = {}
  <2>0. q \in Low(tbl) /\ q \in DOMAIN tbl
    BY <1>6 DEF Low
  <2>1. CASE q = r
    <3>1. new[q] = Empty /\ 0 <= top
      BY <1>1, <1>2, <2>1, SMTT(30)
    <3> QED  BY <3>1, EmptyIsNode
  <2>2. CASE q # r
    <3>1. new[q] = tbl[q] /\ Bytes(tbl[q]) \cap Bytes(x) = {}
      BY <1>2, <2>0, <2>2 DEF HeapOK
    <3>2. \A s \in Low(new) : q # s => Bytes(new[q]) \cap Bytes(new[s]) = {}
      <4> SUFFICES ASSUME NEW s \in Low(new), q # s PROVE Bytes(new[q]) \cap Bytes(new[s]) = {}
        OBVIOUS
      <4>1. s \in Low(tbl) /\ s \in DOMAIN tbl
        BY <1>6 DEF Low
      <4>2. CASE s = r
        BY <1>2, <4>2, EmptyIsNode
      <4>3. CASE s # r
        <5>1. new[s] = tbl[s]
          BY <1>2, <4>1, <4>3
        <5> QED  BY <2>0, <3>1, <4>1, <5>1 DEF HeapOK
      <4> QED  BY <4>2, <4>3
    <3> QED  BY <1>5, <2>0, <3>1, <3>2 DEF HeapOK
  <2> QED  BY <2>1, <2>2
<1>10. ASSUME NEW a \in 0 .. top - 1
       PROVE  a \in ListBytes(R) \/ a \in gone \/ \E q \in Low(new) : a \in Bytes(new[q])
  <2>1. ASSUME NEW q \in Low(tbl), a \in Bytes(tbl[q])
        PROVE  a \in ListBytes(R) \/ \E s \in Low(new) : a \in Bytes(new[s])
    <3>1. q \in DOMAIN tbl
      BY DEF Low
    <3> QED  BY <1>2, <1>5, <1>6, <2>1, <3>1
  <2> QED  BY <1>5, <2>1 DEF HeapOK
<1>11. HeapOK(R, new, top, gone)
  BY <1>1, <1>5, <1>7, <1>8, <1>9, <1>10 DEF HeapOK
<1> QED  BY <1>11 DEF R, new

\* A kernel region for a symbol that has none leaves the heap as it is.
LEMMA KernelRegionKeepsHeap ==
  ASSUME NEW list, NEW tbl, NEW top, NEW gone, HeapOK(list, tbl, top, gone),
         NEW r \in DOMAIN tbl, tbl[r] = Empty, NEW x \in Nodes, x.s >= KBASE
  PROVE  HeapOK(list, [tbl EXCEPT ![r] = x], top, gone)
<1> DEFINE new == [tbl EXCEPT ![r] = x]
<1>1. /\ DOMAIN new = DOMAIN tbl /\ new[r] = x /\ \A q \in DOMAIN tbl : q # r => new[q] = tbl[q]
  OBVIOUS
<1> HIDE DEF new
<1>2. ~(x.s < KBASE)
  BY RegionsAssumption, SMTT(30) DEF Nodes
<1>3. \A q \in Low(new) : q \in Low(tbl) /\ new[q] = tbl[q]
  BY <1>1, <1>2 DEF Low
<1>4. \A q \in Low(tbl) : q = r \/ (q \in Low(new) /\ new[q] = tbl[q])
  BY <1>1 DEF Low
<1>5. \A q \in DOMAIN new : new[q] \in Nodes
  BY <1>1 DEF HeapOK
<1>6. \A a \in 0 .. top - 1 : \/ a \in ListBytes(list)
                              \/ a \in gone
                              \/ \E q \in Low(new) : a \in Bytes(new[q])
  BY <1>4, EmptyIsNode DEF HeapOK
<1>7. HeapOK(list, new, top, gone)
  BY <1>3, <1>5, <1>6 DEF HeapOK
<1> QED  BY <1>7 DEF new
----------------------------------------------------------------------------
(* The heaps of all processes.                                             *)

RegionsInv ==
  /\ bounds \in Bounds /\ alive \subseteq Proc
  /\ freerg \in [Proc -> Seq(Nodes)] /\ symrgtbl \in [Proc -> [Symbols -> Nodes]]
  /\ sbrk \in [Proc -> Nat] /\ lost \in [Proc -> SUBSET Nat]
  /\ \A p \in Proc : /\ sbrk[p] <= bounds.heap /\ sbrk[p] % PAGESZ = 0
                     /\ HeapOK(freerg[p], symrgtbl[p], sbrk[p], lost[p])

\* PAGE_ALIGNSZ() rounds up to a multiple of the page size.
LEMMA AlignProperties ==
  ASSUME NEW sz \in Nat
  PROVE  /\ PAGE_ALIGNSZ(sz) \in Nat /\ PAGE_ALIGNSZ(sz) >= sz
         /\ PAGE_ALIGNSZ(sz) % PAGESZ = 0
         /\ PAGE_ALIGNSZ(sz) \div PAGESZ \in Nat
         /\ PAGE_ALIGNSZ(sz) = (PAGE_ALIGNSZ(sz) \div PAGESZ) * PAGESZ
<1> DEFINE n == sz + PAGESZ - 1
           q == n \div PAGESZ
<1>0. PAGESZ \in Nat \ {0}
  BY RegionsAssumption
<1>1. n \in Nat
  BY <1>0, SMTT(30)
<1>2. q \in Nat /\ n = (q * PAGESZ) + (n % PAGESZ) /\ n % PAGESZ \in 0 .. PAGESZ - 1
  BY <1>0, <1>1, SMTT(30)
<1>3. q * PAGESZ \in Nat
  BY <1>0, <1>2, SMTT(30)
<1>4. (q * PAGESZ) % PAGESZ = 0 /\ (q * PAGESZ) \div PAGESZ = q
  BY <1>0, <1>2, SMTT(30)
<1>5. q * PAGESZ >= sz
  BY <1>0, <1>1, <1>2, <1>3, SMTT(30)
<1> HIDE DEF q
<1>6. PAGE_ALIGNSZ(sz) = q * PAGESZ
  BY DEF PAGE_ALIGNSZ, q
<1> QED  BY <1>2, <1>3, <1>4, <1>5, <1>6

\* A heap that grows by whole pages stays a whole number of pages.
LEMMA AlignedSum ==
  ASSUME NEW a \in Nat, NEW b \in Nat, a % PAGESZ = 0, b % PAGESZ = 0
  PROVE  (a + b) % PAGESZ = 0
<1>0. PAGESZ \in Nat \ {0}
  BY RegionsAssumption
<1> DEFINE i == a \div PAGESZ
           j == b \div PAGESZ
<1>1. i \in Nat /\ a = (i * PAGESZ) + 0
  BY <1>0, SMTT(30)
<1>2. j \in Nat /\ b = (j * PAGESZ) + 0
  BY <1>0, SMTT(30)
<1> HIDE DEF i, j
<1>3. a + b = (i + j) * PAGESZ
  BY <1>0, <1>1, <1>2, SMTT(30)
<1>4. i + j \in Nat /\ ((i + j) * PAGESZ) % PAGESZ = 0
  BY <1>0, <1>1, <1>2, SMTT(30)
<1> QED  BY <1>3, <1>4

\* A step that gives p another heap keeps the invariant if that heap is in order.
LEMMA HeapStepKeepsInv ==
  ASSUME RegionsInv, NEW p \in Proc, NEW list, NEW tbl \in [Symbols -> Nodes], NEW top, NEW gone,
         HeapOK(list, tbl, top, gone), top <= bounds.heap, top % PAGESZ = 0,
         freerg' = [freerg EXCEPT ![p] = list], symrgtbl' = [symrgtbl EXCEPT ![p] = tbl],
         sbrk' = [sbrk EXCEPT ![p] = top], lost' = [lost EXCEPT ![p] = gone],
         bounds' = bounds, alive' \subseteq Proc
  PROVE  RegionsInv' /\ Symbols' = Symbols
<1>1. list \in Seq(Nodes) /\ top \in Nat /\ gone \in SUBSET Nat
  <2>1. top \in Nat /\ gone \subseteq 0 .. top - 1
    BY DEF HeapOK
  <2>2. \A a \in 0 .. top - 1 : a \in Nat
    BY <2>1, SMTT(30)
  <2> QED  BY <2>1, <2>2 DEF HeapOK
<1>2. /\ freerg' \in [Proc -> Seq(Nodes)] /\ symrgtbl' \in [Proc -> [Symbols -> Nodes]]
      /\ sbrk' \in [Proc -> Nat] /\ lost' \in [Proc -> SUBSET Nat]
  BY <1>1 DEF RegionsInv
<1>3. Symbols' = Symbols
  <2>1. (CHOOSE q \in Proc : TRUE) \in Proc
    OBVIOUS
  <2> DEFINE c == CHOOSE q \in Proc : TRUE
  <2> HIDE DEF c
  <2>2. c \in Proc
    BY <2>1 DEF c
  <2>3. DOMAIN symrgtbl'[c] = Symbols
    BY <1>2, <2>2
  <2>4. Symbols' = DOMAIN symrgtbl'[c]
    BY DEF Symbols, c
  <2> QED  BY <2>3, <2>4
<1>4. ASSUME NEW q \in Proc
      PROVE  /\ sbrk'[q] <= bounds'.heap /\ sbrk'[q] % PAGESZ = 0
             /\ HeapOK(freerg'[q], symrgtbl'[q], sbrk'[q], lost'[q])
  <2>1. CASE q = p
    <3>1. freerg'[q] = list /\ symrgtbl'[q] = tbl /\ sbrk'[q] = top /\ lost'[q] = gone
      BY <2>1 DEF RegionsInv
    <3> QED  BY <3>1
  <2>2. CASE q # p
    <3>1. freerg'[q] = freerg[q] /\ symrgtbl'[q] = symrgtbl[q] /\ sbrk'[q] = sbrk[q] /\ lost'[q] = lost[q]
      BY <2>2 DEF RegionsInv
    <3> QED  BY <3>1 DEF RegionsInv
  <2> QED  BY <2>1, <2>2
<1> QED  BY <1>2, <1>3, <1>4 DEF RegionsInv, HeapOK, Low, Ordered, ListBytes, Bytes, Nodes

\* The symbols of a process below KBASE, as the heap sees them.
LEMMA HeapOf ==
  ASSUME RegionsInv, NEW p \in Proc
  PROVE  /\ HeapOK(freerg[p], symrgtbl[p], sbrk[p], lost[p])
         /\ symrgtbl[p] \in [Symbols -> Nodes] /\ HeapSymbols(p) = Low(symrgtbl[p])
         /\ sbrk[p] \in Nat /\ sbrk[p] <= bounds.heap /\ sbrk[p] % PAGESZ = 0
         /\ freerg[p] \in Seq(Nodes) /\ bounds \in Bounds
<1>1. symrgtbl[p] \in [Symbols -> Nodes]
  BY DEF RegionsInv
<1>2. HeapSymbols(p) = Low(symrgtbl[p])
  BY <1>1 DEF HeapSymbols, Low
<1> QED  BY <1>1, <1>2 DEF RegionsInv

\* A region found in a list for symbol r of process p.
LEMMA AssignKeepsInv ==
  ASSUME RegionsInv, NEW p \in Proc, NEW r \in HeapSymbols(p), NEW list, NEW top,
         NEW size \in Nat \ {0}, HeapOK(list, symrgtbl[p], top, lost[p]),
         top <= bounds.heap, top % PAGESZ = 0, Assign(p, r, list, size),
         sbrk' = [sbrk EXCEPT ![p] = top], UNCHANGED <<bounds, alive>>
  PROVE  RegionsInv' /\ Symbols' = Symbols
<1> DEFINE tbl == [symrgtbl[p] EXCEPT ![r] = Taken(list, size)]
           gone == lost[p] \cup Bytes(symrgtbl[p][r])
<1>1. r \in Low(symrgtbl[p]) /\ symrgtbl[p] \in [Symbols -> Nodes] /\ r \in Symbols
  BY HeapOf DEF HeapSymbols
<1>2. HasFit(list, size)
  BY DEF Assign
<1>3. HeapOK(Remaining(list, size), tbl, top, gone)
  BY <1>1, <1>2, AssignKeepsHeap
<1>4. Taken(list, size) \in Nodes
  BY <1>2, TakeProperties DEF HeapOK
<1>5. tbl \in [Symbols -> Nodes]
  BY <1>1, <1>4
<1>6. /\ symrgtbl' = [symrgtbl EXCEPT ![p] = tbl]
      /\ freerg' = [freerg EXCEPT ![p] = Remaining(list, size)]
      /\ lost' = [lost EXCEPT ![p] = gone]
  BY DEF Assign
<1>7. bounds' = bounds /\ alive' \subseteq Proc
  BY DEF RegionsInv
<1> HIDE DEF tbl, gone
<1> QED  BY <1>3, <1>5, <1>6, <1>7, HeapStepKeepsInv

\* What is left alone is replaced by itself.
LEMMA SbrkStays ==
  ASSUME RegionsInv, NEW p \in Proc, sbrk' = sbrk
  PROVE  sbrk' = [sbrk EXCEPT ![p] = sbrk[p]]
BY SMTT(30) DEF RegionsInv

\* __alloc(), fast path.
LEMMA AllocKeepsInv ==
  ASSUME RegionsInv, NEW p \in Proc, NEW r \in HeapSymbols(p), NEW size \in 1 .. bounds.size,
         alloc(p, r, size)
  PROVE  RegionsInv' /\ Symbols' = Symbols
<1>1. size \in Nat \ {0}
  BY HeapOf, RegionsAssumption, SMTT(30)
<1>2. Assign(p, r, freerg[p], size) /\ UNCHANGED <<bounds, alive>> /\ sbrk' = sbrk
  BY DEF alloc
<1>3. sbrk' = [sbrk EXCEPT ![p] = sbrk[p]]
  BY <1>2, SbrkStays
<1> QED  BY <1>1, <1>2, <1>3, HeapOf, AssignKeepsInv

\* The list of a heap that has grown for a request.
LEMMA GrownHeap ==
  ASSUME RegionsInv, NEW p \in Proc, NEW size \in Nat \ {0}
  PROVE  /\ sbrk[p] + PAGE_ALIGNSZ(size) < KBASE =>
              HeapOK(Grown(p, size), symrgtbl[p], sbrk[p] + PAGE_ALIGNSZ(size), lost[p])
         /\ HasFit(Grown(p, size), size)
<1> DEFINE n == PAGE_ALIGNSZ(size)
<1>1. n \in Nat /\ n >= size /\ n % PAGESZ = 0
  BY AlignProperties
<1> HIDE DEF n
<1>2. n \in Nat \ {0} /\ size <= n
  BY <1>1, SMTT(30)
<1>3. HeapOK(freerg[p], symrgtbl[p], sbrk[p], lost[p])
  BY HeapOf
<1> DEFINE list == enlist_vm_rg_node(freerg[p], Region(sbrk[p], sbrk[p] + n))
<1>4. /\ sbrk[p] + n < KBASE => HeapOK(list, symrgtbl[p], sbrk[p] + n, lost[p])
      /\ HasFit(list, size)
  BY <1>2, <1>3, GrowKeepsHeap
<1> QED  BY <1>4 DEF Grown, n

\* __alloc(), slow path.
LEMMA AllocGrowKeepsInv ==
  ASSUME RegionsInv, NEW p \in Proc, NEW r \in HeapSymbols(p), NEW size \in 1 .. bounds.size,
         alloc_grow(p, r, size)
  PROVE  RegionsInv' /\ Symbols' = Symbols
<1> DEFINE n == PAGE_ALIGNSZ(size)
           top == sbrk[p] + n
<1>1. size \in Nat \ {0} /\ bounds.heap \in Nat /\ bounds.heap < KBASE /\ KBASE \in Nat /\ size \in Nat
  BY HeapOf, RegionsAssumption, SMTT(30)
<1>2. n \in Nat /\ n % PAGESZ = 0
  BY <1>1, AlignProperties
<1>3. /\ Assign(p, r, Grown(p, size), size) /\ UNCHANGED <<bounds, alive>>
      /\ sbrk' = [sbrk EXCEPT ![p] = top]
      /\ sbrk[p] + n + 0 <= bounds.heap
  BY DEF alloc_grow, Grow
<1> HIDE DEF n
<1>4. top <= bounds.heap /\ top < KBASE
  BY <1>1, <1>2, <1>3, HeapOf, SMTT(30)
<1>5. top % PAGESZ = 0
  BY <1>2, HeapOf, AlignedSum
<1>6. HeapOK(Grown(p, size), symrgtbl[p], top, lost[p])
  BY <1>1, <1>4, GrownHeap DEF n
<1> HIDE DEF top
<1> QED  BY <1>1, <1>3, <1>4, <1>5, <1>6, AssignKeepsInv

\* __free()
LEMMA FreeKeepsInv ==
  ASSUME RegionsInv, NEW p \in Proc, NEW r \in HeapSymbols(p), free(p, r)
  PROVE  RegionsInv' /\ Symbols' = Symbols
<1> DEFINE tbl == [symrgtbl[p] EXCEPT ![r] = Empty]
           list == enlist_vm_rg_node(freerg[p], symrgtbl[p][r])
<1>1. r \in Low(symrgtbl[p]) /\ symrgtbl[p] \in [Symbols -> Nodes] /\ r \in Symbols
  BY HeapOf DEF HeapSymbols
<1>2. HeapOK(list, tbl, sbrk[p], lost[p])
  BY <1>1, HeapOf, FreeKeepsHeap
<1>3. tbl \in [Symbols -> Nodes]
  BY <1>1, EmptyIsNode
<1>4. symrgtbl' = [symrgtbl EXCEPT ![p] = tbl] /\ freerg' = [freerg EXCEPT ![p] = list]
  BY DEF free
<1>5. sbrk' = [sbrk EXCEPT ![p] = sbrk[p]]
  BY SbrkStays DEF free
<1>6. lost' = [lost EXCEPT ![p] = lost[p]]
  BY SMTT(30) DEF free, RegionsInv
<1>7. bounds' = bounds /\ alive' \subseteq Proc
  BY DEF free, RegionsInv
<1> HIDE DEF tbl, list
<1> QED  BY <1>2, <1>3, <1>4, <1>5, <1>6, <1>7, HeapOf, HeapStepKeepsInv

\* kmalloc and the cache pools give a kernel region to a symbol that has none.
LEMMA KernelRegionKeepsInv ==
  ASSUME RegionsInv, NEW p \in Proc, NEW r \in Symbols, symrgtbl[p][r] = Empty,
         NEW x \in Nodes, x.s >= KBASE, symrgtbl' = [symrgtbl EXCEPT ![p][r] = x],
         UNCHANGED <<bounds, alive, freerg, sbrk, lost>>
  PROVE  RegionsInv' /\ Symbols' = Symbols
<1> DEFINE tbl == [symrgtbl[p] EXCEPT ![r] = x]
           list == freerg[p]
           top == sbrk[p]
           gone == lost[p]
<1>1. symrgtbl[p] \in [Symbols -> Nodes]
  BY HeapOf
<1>2. HeapOK(freerg[p], tbl, sbrk[p], lost[p])
  BY <1>1, HeapOf, KernelRegionKeepsHeap
<1>3. tbl \in [Symbols -> Nodes] /\ symrgtbl' = [symrgtbl EXCEPT ![p] = tbl]
  BY <1>1
<1>4. sbrk' = [sbrk EXCEPT ![p] = sbrk[p]]
  BY SbrkStays
<1>5. lost' = [lost EXCEPT ![p] = lost[p]]
  BY SMTT(30) DEF RegionsInv
<1>6. freerg' = [freerg EXCEPT ![p] = freerg[p]]
  <2>1. freerg \in [Proc -> Seq(Nodes)] /\ freerg' = freerg
    BY DEF RegionsInv
  <2> DEFINE T == Seq(Nodes)
  <2> HIDE DEF T
  <2>2. freerg \in [Proc -> T]
    BY <2>1 DEF T
  <2> QED  BY <2>1, <2>2, SMTT(30)
<1>7. bounds' = bounds /\ alive' \subseteq Proc
  BY DEF RegionsInv
<1>8. sbrk[p] <= bounds.heap /\ sbrk[p] % PAGESZ = 0
  BY HeapOf
<1> HIDE DEF tbl, list, top, gone
<1>9. /\ HeapOK(list, tbl, top, gone) /\ top <= bounds.heap /\ top % PAGESZ = 0
      /\ freerg' = [freerg EXCEPT ![p] = list] /\ sbrk' = [sbrk EXCEPT ![p] = top]
      /\ lost' = [lost EXCEPT ![p] = gone]
  BY <1>2, <1>4, <1>5, <1>6, <1>8 DEF list, top, gone
<1> QED  BY <1>3, <1>7, <1>9, HeapStepKeepsInv
----------------------------------------------------------------------------
(* Cache pools, as far as the addresses of their objects.                  *)

\* A pool lies in kernel memory, and its slab is among the full ones exactly when
\* no slot of it is free.
PoolOK(pool) ==
  /\ pool \in PoolRecord
  /\ pool.storage >= KBASE
  /\ pool.free_count <= pool.slot_count
  /\ pool.slab # "full" <=> pool.free_count > 0

PoolsInv ==
  /\ kcpooltbl \in [Proc -> [PoolId -> PoolRecord \cup {NULL}]]
  /\ \A p \in Proc, k \in PoolId : kcpooltbl[p][k] # NULL => PoolOK(kcpooltbl[p][k])

HeapsInv == RegionsInv /\ PoolsInv

\* The instance gives the sizes their types.
LEMMA BoundsOf ==
  ASSUME HeapsInv
  PROVE  /\ bounds \in Bounds /\ bounds.frames \in Nat /\ bounds.ksize \in Nat
         /\ bounds.pool \in Nat /\ bounds.align \subseteq Nat \ {0}
         /\ bounds.size \in Nat /\ bounds.heap \in Nat /\ bounds.heap < KBASE
         /\ PAGESZ \in Nat \ {0} /\ KBASE \in Nat /\ KBASE > 0
BY RegionsAssumption, KernelAssumption, SMTT(30) DEF HeapsInv, RegionsInv

\* The addresses of kernel pages.
LEMMA KernelAddress ==
  ASSUME HeapsInv, NEW a \in {kernel_vaddr_from_fpn(f) : f \in Frame}
  PROVE  a \in Nat /\ a >= KBASE
<1>1. PICK f \in Frame : a = KBASE + (f * PAGESZ)
  BY DEF kernel_vaddr_from_fpn
<1>2. f \in Nat
  BY BoundsOf, SMTT(30) DEF Frame, Frames
<1>3. f * PAGESZ \in Nat
  BY <1>2, BoundsOf, SMTT(30)
<1> QED  BY <1>1, <1>3, BoundsOf, SMTT(30)

\* A new pool.
LEMMA NewPool ==
  ASSUME HeapsInv, NEW a \in Nat, a >= KBASE, NEW size \in 1 .. bounds.pool,
         NEW align \in bounds.align, size \div align > 0
  PROVE  PoolOK(Pool(a, size, align))
<1>1. size \in Nat /\ align \in Nat \ {0}
  BY BoundsOf, SMTT(30)
<1>2. size \div align \in Nat
  BY <1>1, SMTT(30)
<1>3. (size \div align) * align \in Nat
  BY <1>1, <1>2, SMTT(30)
<1>4. PAGE_ALIGNSZ(size) \in Nat
  BY <1>1, AlignProperties
<1>5. size \div align <= size \div align
  BY <1>2, SMTT(30)
<1>6. align \in Nat
  BY <1>1
<1> DEFINE n == size \div align
           m == (size \div align) * align
           l == PAGE_ALIGNSZ(size)
<1> HIDE DEF n, m, l
<1>7. n \in Nat /\ m \in Nat /\ l \in Nat /\ n > 0 /\ n <= n
  BY <1>2, <1>3, <1>4, <1>5 DEF n, m, l
<1> DEFINE q == [size |-> m, align |-> align, storage |-> a, alloc_size |-> l, slot_count |-> n,
                 free_count |-> n, slab |-> "empty"]
<1>8. q \in PoolRecord /\ q.storage = a /\ q.free_count = n /\ q.slot_count = n /\ q.slab = "empty"
  BY <1>6, <1>7, SMTT(30) DEF PoolRecord
<1>9. Pool(a, size, align) = q
  BY DEF Pool, n, m, l
<1> HIDE DEF q
<1>10. q.slab # "full"
  BY <1>8
<1> QED  BY <1>7, <1>8, <1>9, <1>10 DEF PoolOK

\* Taking the first free slot of a slab that is not full.
LEMMA TakenSlot ==
  ASSUME HeapsInv, NEW pool, PoolOK(pool), pool.slab \in {"partial", "empty"}
  PROVE  /\ PoolOK(TakeSlot(pool))
         /\ HeadSlot(pool) \in Nat /\ HeadSlot(pool) >= KBASE /\ pool.size \in Nat
<1> DEFINE slab2 == IF pool.free_count = 1 THEN "full" ELSE "partial"
           q == TakeSlot(pool)
<1>1. /\ pool \in PoolRecord /\ pool.free_count \in Nat /\ pool.slot_count \in Nat
      /\ pool.storage \in Nat /\ pool.align \in Nat /\ pool.size \in Nat
  BY DEF PoolOK, PoolRecord
<1>2. pool.slab # "full" /\ pool.free_count > 0
  BY DEF PoolOK
<1>3. pool.free_count - 1 \in Nat
  BY <1>1, <1>2, SMTT(30)
<1>4. /\ q \in PoolRecord /\ q.storage = pool.storage /\ q.slot_count = pool.slot_count
      /\ q.free_count = pool.free_count - 1 /\ q.slab = slab2
  <2>1. slab2 \in {"empty", "partial", "full"}
    OBVIOUS
  <2> HIDE DEF slab2
  <2> DEFINE m == pool.free_count - 1
             mid == [pool EXCEPT !.free_count = m]
  <2>2. q = [mid EXCEPT !.slab = slab2]
    BY DEF TakeSlot, slab2
  <2>3. m \in Nat
    BY <1>3
  <2> HIDE DEF q, m
  <2>4. /\ mid \in PoolRecord /\ mid.storage = pool.storage /\ mid.slot_count = pool.slot_count
        /\ mid.free_count = m
    BY <1>1, <2>3, SMTT(30) DEF PoolRecord
  <2> HIDE DEF mid
  <2>5. /\ q \in PoolRecord /\ q.storage = mid.storage /\ q.slot_count = mid.slot_count
        /\ q.free_count = mid.free_count /\ q.slab = slab2
    BY <2>1, <2>2, <2>4, SMTT(30) DEF PoolRecord
  <2> QED  BY <2>4, <2>5 DEF m
<1>5. slab2 # "full" <=> pool.free_count - 1 > 0
  <2>1. CASE pool.free_count = 1
    <3>1. slab2 = "full" /\ ~(pool.free_count - 1 > 0)
      BY <2>1, SMTT(30)
    <3> QED  BY <3>1
  <2>2. CASE pool.free_count # 1
    <3>1. pool.free_count - 1 > 0
      BY <1>1, <1>2, <2>2, SMTT(30)
    <3> QED  BY <2>2, <3>1
  <2> QED  BY <2>1, <2>2
<1> HIDE DEF q, slab2
<1>6. PoolOK(q)
  <2>1. q.free_count <= q.slot_count
    BY <1>1, <1>4, SMTT(30) DEF PoolOK
  <2> QED  BY <1>4, <1>5, <2>1 DEF PoolOK
<1>7. HeadSlot(pool) \in Nat /\ HeadSlot(pool) >= KBASE
  <2> DEFINE d == pool.slot_count - pool.free_count
  <2>1. d \in Nat
    BY <1>1, SMTT(30) DEF PoolOK
  <2> HIDE DEF d
  <2>2. d * pool.align \in Nat
    BY <1>1, <2>1, SMTT(30)
  <2> DEFINE e == d * pool.align
  <2> HIDE DEF e
  <2>3. e \in Nat
    BY <2>2 DEF e
  <2>4. HeadSlot(pool) = pool.storage + e
    BY DEF HeadSlot, d, e
  <2>5. pool.storage >= KBASE
    BY DEF PoolOK
  <2> QED  BY <1>1, <2>3, <2>4, <2>5, BoundsOf, SMTT(30)
<1> QED  BY <1>1, <1>6, <1>7 DEF q

\* __kmalloc()
LEMMA KmallocKeepsInv ==
  ASSUME HeapsInv, NEW p \in Proc, NEW r \in Symbols, NEW size \in 1 .. bounds.ksize,
         kmalloc(p, r, size)
  PROVE  HeapsInv' /\ Symbols' = Symbols
<1>1. PICK a \in {kernel_vaddr_from_fpn(f) : f \in Frame} :
        symrgtbl' = [symrgtbl EXCEPT ![p][r] = Region(a, a + size)]
  BY DEF kmalloc
<1>2. a \in Nat /\ a >= KBASE
  BY KernelAddress
<1>3. a + size \in Nat /\ a <= a + size
  BY <1>2, BoundsOf, SMTT(30)
<1>4. Region(a, a + size) \in Nodes /\ Region(a, a + size).s >= KBASE
  BY <1>2, <1>3, RegionIsNode
<1>5. symrgtbl[p][r] = Empty /\ UNCHANGED <<bounds, alive, freerg, sbrk, lost>> /\ kcpooltbl' = kcpooltbl
  BY DEF kmalloc
<1> DEFINE x == Region(a, a + size)
<1> HIDE DEF x
<1>6. RegionsInv' /\ Symbols' = Symbols
  <2>1. x \in Nodes /\ x.s >= KBASE /\ symrgtbl' = [symrgtbl EXCEPT ![p][r] = x]
    BY <1>1, <1>4 DEF x
  <2>2. RegionsInv
    BY DEF HeapsInv
  <2> QED  BY <1>5, <2>1, <2>2, KernelRegionKeepsInv
<1>7. PoolsInv'
  BY <1>5 DEF HeapsInv, PoolsInv
<1> QED  BY <1>6, <1>7 DEF HeapsInv

\* A step that changes one pool.
LEMMA PoolStepKeepsInv ==
  ASSUME PoolsInv, NEW p \in Proc, NEW k \in PoolId, NEW q, PoolOK(q),
         kcpooltbl' = [kcpooltbl EXCEPT ![p][k] = q]
  PROVE  PoolsInv'
<1>1. q \in PoolRecord
  BY DEF PoolOK
<1> DEFINE T == PoolRecord \cup {NULL}
<1>2. q \in T /\ kcpooltbl \in [Proc -> [PoolId -> T]]
  BY <1>1 DEF PoolsInv
<1> HIDE DEF T
<1>3. kcpooltbl' \in [Proc -> [PoolId -> T]]
  BY <1>2
<1>4. ASSUME NEW u \in Proc, NEW v \in PoolId, kcpooltbl'[u][v] # NULL
      PROVE  PoolOK(kcpooltbl'[u][v])
  <2>1. CASE u = p /\ v = k
    <3>1. kcpooltbl'[u][v] = q
      BY <1>2, <2>1
    <3> QED  BY <3>1
  <2>2. CASE ~(u = p /\ v = k)
    <3>1. kcpooltbl'[u][v] = kcpooltbl[u][v]
      BY <1>2, <2>2
    <3> QED  BY <1>4, <3>1 DEF PoolsInv
  <2> QED  BY <2>1, <2>2
<1> QED  BY <1>3, <1>4 DEF PoolsInv, T

\* libkmem_cache_pool_create()
LEMMA PoolCreateKeepsInv ==
  ASSUME HeapsInv, NEW p \in Proc, NEW k \in PoolId, NEW size \in 1 .. bounds.pool,
         NEW align \in bounds.align, cache_pool_create(p, k, size, align)
  PROVE  HeapsInv' /\ Symbols' = Symbols
<1>1. PICK a \in {kernel_vaddr_from_fpn(f) : f \in Frame} :
        kcpooltbl' = [kcpooltbl EXCEPT ![p][k] = Pool(a, size, align)]
  BY DEF cache_pool_create
<1>2. size \div align > 0 /\ UNCHANGED vars
  BY DEF cache_pool_create
<1>3. PoolOK(Pool(a, size, align))
  BY <1>2, KernelAddress, NewPool
<1>4. PoolsInv'
  BY <1>1, <1>3, PoolStepKeepsInv DEF HeapsInv
<1>5. RegionsInv' /\ Symbols' = Symbols
  BY <1>2 DEF HeapsInv, RegionsInv, Symbols, vars, heapVars
<1> QED  BY <1>4, <1>5 DEF HeapsInv

\* __kmem_cache_alloc()
LEMMA CacheAllocKeepsInv ==
  ASSUME HeapsInv, NEW p \in Proc, NEW r \in Symbols, NEW k \in PoolId, kmem_cache_alloc(p, r, k)
  PROVE  HeapsInv' /\ Symbols' = Symbols
<1> DEFINE pool == kcpooltbl[p][k]
           x == Region(HeadSlot(pool), HeadSlot(pool) + pool.size)
           q == TakeSlot(pool)
<1>1. PoolOK(pool) /\ pool.slab \in {"partial", "empty"}
  BY DEF kmem_cache_alloc, HeapsInv, PoolsInv
<1>2. /\ symrgtbl' = [symrgtbl EXCEPT ![p][r] = x] /\ symrgtbl[p][r] = Empty
      /\ kcpooltbl' = [kcpooltbl EXCEPT ![p][k] = q]
      /\ UNCHANGED <<bounds, alive, freerg, sbrk, lost>>
  BY DEF kmem_cache_alloc
<1> HIDE DEF pool
<1>3. /\ PoolOK(q) /\ HeadSlot(pool) \in Nat /\ HeadSlot(pool) >= KBASE /\ pool.size \in Nat
  BY <1>1, TakenSlot
<1>4. HeadSlot(pool) + pool.size \in Nat /\ HeadSlot(pool) <= HeadSlot(pool) + pool.size
  BY <1>3, SMTT(30)
<1>5. x \in Nodes /\ x.s >= KBASE
  BY <1>3, <1>4, RegionIsNode
<1> HIDE DEF x, q
<1>6. PoolsInv'
  BY <1>2, <1>3, PoolStepKeepsInv DEF HeapsInv
<1>7. RegionsInv' /\ Symbols' = Symbols
  <2>1. RegionsInv
    BY DEF HeapsInv
  <2> QED  BY <1>2, <1>5, <2>1, KernelRegionKeepsInv
<1> QED  BY <1>6, <1>7 DEF HeapsInv

\* The end of a process.
LEMMA FinishKeepsInv ==
  ASSUME HeapsInv, NEW p \in Proc, finish_proc(p)
  PROVE  HeapsInv' /\ Symbols' = Symbols
<1>1. HeapOK(<< >>, NoSymbols, 0, {})
  BY FreshHeap DEF NoSymbols
<1>2. NoSymbols \in [Symbols -> Nodes]
  BY EmptyIsNode DEF NoSymbols
<1>3. 0 <= bounds.heap /\ 0 % PAGESZ = 0
  BY BoundsOf, SMTT(30)
<1>4. /\ bounds' = bounds /\ alive' \subseteq Proc
      /\ freerg' = [freerg EXCEPT ![p] = << >>] /\ symrgtbl' = [symrgtbl EXCEPT ![p] = NoSymbols]
      /\ sbrk' = [sbrk EXCEPT ![p] = 0] /\ lost' = [lost EXCEPT ![p] = {}]
  BY DEF finish_proc, HeapsInv, RegionsInv
<1>5. RegionsInv' /\ Symbols' = Symbols
  <2> DEFINE tbl == NoSymbols
  <2> HIDE DEF tbl
  <2>1. tbl \in [Symbols -> Nodes] /\ HeapOK(<< >>, tbl, 0, {}) /\ symrgtbl' = [symrgtbl EXCEPT ![p] = tbl]
    BY <1>1, <1>2, <1>4 DEF tbl
  <2> QED  BY <1>3, <1>4, <2>1, HeapStepKeepsInv DEF HeapsInv
<1>6. PoolsInv'
  <2> DEFINE none == [k \in PoolId |-> NULL]
             T == PoolRecord \cup {NULL}
  <2>1. kcpooltbl' = [kcpooltbl EXCEPT ![p] = none]
    BY DEF finish_proc
  <2>2. none \in [PoolId -> T] /\ \A k \in PoolId : none[k] = NULL
    OBVIOUS
  <2>3. kcpooltbl \in [Proc -> [PoolId -> T]]
    BY DEF HeapsInv, PoolsInv
  <2> HIDE DEF none, T
  <2>4. kcpooltbl' \in [Proc -> [PoolId -> T]]
    BY <2>1, <2>2, <2>3
  <2>5. ASSUME NEW u \in Proc, NEW v \in PoolId, kcpooltbl'[u][v] # NULL
        PROVE  PoolOK(kcpooltbl'[u][v])
    <3>1. CASE u = p
      BY <2>1, <2>2, <2>3, <2>5, <3>1
    <3>2. CASE u # p
      <4>1. kcpooltbl'[u][v] = kcpooltbl[u][v]
        BY <2>1, <2>3, <3>2
      <4> QED  BY <2>5, <4>1 DEF HeapsInv, PoolsInv
    <3> QED  BY <3>1, <3>2
  <2> QED  BY <2>4, <2>5 DEF PoolsInv, T
<1> QED  BY <1>5, <1>6 DEF HeapsInv
----------------------------------------------------------------------------
(* The specification.                                                      *)

\* init_mm() of every process: empty heaps, no symbol set and no pool.
LEMMA InitHeaps ==
  ASSUME KernelInit
  PROVE  HeapsInv
<1>1. /\ bounds \in Bounds /\ alive \subseteq Proc
      /\ sbrk = [p \in Proc |-> 0] /\ lost = [p \in Proc |-> {}]
      /\ freerg = [p \in Proc |-> enlist_vm_rg_node(<< >>, Region(0, 0))]
      /\ kcpooltbl = [p \in Proc |-> [k \in PoolId |-> NULL]]
  BY DEF KernelInit, Init
<1>2. PICK R \in SUBSET Rgid : symrgtbl = [p \in Proc |-> [r \in R |-> Empty]]
  BY DEF KernelInit, Init
<1>3. enlist_vm_rg_node(<< >>, Region(0, 0)) = << >>
  <2>1. Region(0, 0).s >= Region(0, 0).e
    BY SMTT(30) DEF Region
  <2> QED  BY <2>1 DEF enlist_vm_rg_node
<1>4. ASSUME NEW p \in Proc
      PROVE  /\ freerg[p] = << >> /\ symrgtbl[p] = [r \in R |-> Empty] /\ sbrk[p] = 0 /\ lost[p] = {}
             /\ Symbols = R
  <2>1. (CHOOSE q \in Proc : TRUE) \in Proc
    OBVIOUS
  <2>2. Symbols = R
    BY <1>2, <2>1 DEF Symbols
  <2> QED  BY <1>1, <1>2, <1>3, <2>2
<1>5. << >> \in Seq(Nodes) /\ 0 \in Nat /\ {} \in SUBSET Nat /\ Empty \in Nodes
  BY EmptyIsNode, SMTT(30)
<1>6. /\ freerg \in [Proc -> Seq(Nodes)] /\ sbrk \in [Proc -> Nat] /\ lost \in [Proc -> SUBSET Nat]
  BY <1>1, <1>3, <1>5
<1>7. symrgtbl \in [Proc -> [Symbols -> Nodes]]
  <2>1. \A p \in Proc : symrgtbl[p] \in [Symbols -> Nodes]
    BY <1>4, <1>5
  <2>2. symrgtbl = [p \in Proc |-> symrgtbl[p]]
    BY <1>2
  <2> QED  BY <2>1, <2>2
<1>8. ASSUME NEW p \in Proc
      PROVE  /\ sbrk[p] <= bounds.heap /\ sbrk[p] % PAGESZ = 0
             /\ HeapOK(freerg[p], symrgtbl[p], sbrk[p], lost[p])
  <2>1. 0 <= bounds.heap /\ 0 % PAGESZ = 0
    BY <1>1, RegionsAssumption, SMTT(30)
  <2> QED  BY <1>4, <2>1, FreshHeap
<1>9. RegionsInv
  BY <1>1, <1>6, <1>7, <1>8 DEF RegionsInv
<1>10. PoolsInv
  <2> DEFINE none == [k \in PoolId |-> NULL]
             T == PoolRecord \cup {NULL}
  <2>1. none \in [PoolId -> T] /\ \A k \in PoolId : none[k] = NULL
    OBVIOUS
  <2>2. kcpooltbl = [p \in Proc |-> none]
    BY <1>1
  <2> HIDE DEF none, T
  <2>3. kcpooltbl \in [Proc -> [PoolId -> T]] /\ \A p \in Proc, k \in PoolId : kcpooltbl[p][k] = NULL
    BY <2>1, <2>2
  <2> QED  BY <2>3 DEF PoolsInv, T
<1> QED  BY <1>9, <1>10 DEF HeapsInv

\* Every step keeps the heaps and the pools, and no step changes the symbols there are.
LEMMA StepKeepsHeaps ==
  ASSUME HeapsInv, [KernelNext]_kernelVars
  PROVE  HeapsInv' /\ Symbols' = Symbols
<1>1. ASSUME UNCHANGED <<vars, kcpooltbl>>
      PROVE  HeapsInv' /\ Symbols' = Symbols
  <2>1. RegionsInv' /\ Symbols' = Symbols
    BY <1>1 DEF HeapsInv, RegionsInv, Symbols, vars, heapVars
  <2>2. PoolsInv'
    BY <1>1 DEF HeapsInv, PoolsInv
  <2> QED  BY <2>1, <2>2 DEF HeapsInv
<1>2. ASSUME NEW p \in Proc, kernel_op(p)
      PROVE  HeapsInv' /\ Symbols' = Symbols
  <2>1. ASSUME NEW r \in Symbols, NEW size \in 1 .. bounds.ksize, kmalloc(p, r, size)
        PROVE  HeapsInv' /\ Symbols' = Symbols
    BY <2>1, KmallocKeepsInv
  <2>2. ASSUME NEW k \in PoolId, NEW size \in 1 .. bounds.pool, NEW align \in bounds.align,
               cache_pool_create(p, k, size, align)
        PROVE  HeapsInv' /\ Symbols' = Symbols
    BY <2>2, PoolCreateKeepsInv
  <2>3. ASSUME NEW r \in Symbols, NEW k \in PoolId, kmem_cache_alloc(p, r, k)
        PROVE  HeapsInv' /\ Symbols' = Symbols
    BY <2>3, CacheAllocKeepsInv
  <2> QED  BY <1>2, <2>1, <2>2, <2>3 DEF kernel_op
<1>3. ASSUME NEW p \in Proc, NEW r \in HeapSymbols(p), user_op(p, r)
      PROVE  HeapsInv' /\ Symbols' = Symbols
  <2>1. RegionsInv' /\ Symbols' = Symbols
    <3>1. CASE free(p, r)
      BY <3>1, FreeKeepsInv DEF HeapsInv
    <3>2. ASSUME NEW size \in 1 .. bounds.size, alloc(p, r, size)
          PROVE  RegionsInv' /\ Symbols' = Symbols
      BY <3>2, AllocKeepsInv DEF HeapsInv
    <3>3. ASSUME NEW size \in 1 .. bounds.size, alloc_grow(p, r, size)
          PROVE  RegionsInv' /\ Symbols' = Symbols
      BY <3>3, AllocGrowKeepsInv DEF HeapsInv
    <3> QED  BY <1>3, <3>1, <3>2, <3>3 DEF user_op
  <2>2. PoolsInv'
    BY <1>3 DEF user_op, HeapsInv, PoolsInv
  <2> QED  BY <2>1, <2>2 DEF HeapsInv
<1>4. ASSUME NEW p \in Proc, finish_proc(p)
      PROVE  HeapsInv' /\ Symbols' = Symbols
  BY <1>4, FinishKeepsInv
<1>5. ASSUME NEW f \in Frame, get_user_frame(f) \/ put_user_frame(f)
      PROVE  HeapsInv' /\ Symbols' = Symbols
  BY <1>1, <1>5 DEF get_user_frame, put_user_frame
<1>6. CASE KernelNext
  BY <1>2, <1>3, <1>4, <1>5, <1>6 DEF KernelNext
<1>7. CASE UNCHANGED kernelVars
  BY <1>1, <1>7 DEF kernelVars
<1> QED  BY <1>6, <1>7

\* The heaps and the pools are in order throughout.
THEOREM HeapsInvariant == KernelSpec => []HeapsInv
<1>1. HeapsInv /\ [KernelNext]_kernelVars => HeapsInv'
  BY StepKeepsHeaps
<1> QED  BY <1>1, InitHeaps, PTL DEF KernelSpec

\* The stores of CopyMem change no region, list or pool, so that what holds of
\* KernelSpec holds of the instructions together.
LEMMA CopyStepIsKernelStep ==
  ASSUME [CopyNext]_copyVars
  PROVE  [KernelNext]_kernelVars
<1>1. ASSUME NEW p \in Proc, store(p)
      PROVE  UNCHANGED kernelVars
  BY <1>1 DEF store, libwrite, libkmem_copy_from_user, libkmem_copy_to_user
<1>2. CASE CopyNext
  BY <1>1, <1>2 DEF CopyNext
<1>3. CASE UNCHANGED copyVars
  BY <1>3 DEF copyVars
<1> QED  BY <1>2, <1>3

\* Hence the instructions on memory, WRITE and the copies included, implement
\* KernelSpec.
THEOREM CopyImplementsKernel == CopySpec => KernelSpec
<1>1. CopyInit => KernelInit
  BY DEF CopyInit
<1> QED  BY <1>1, CopyStepIsKernelStep, PTL DEF CopySpec, KernelSpec

\* Two symbols that ALLOC set never share a byte and lie in the heap.
LEMMA DisjointInHeaps ==
  ASSUME HeapsInv
  PROVE  RegionsAreDisjoint
<1> SUFFICES ASSUME NEW p \in alive
             PROVE  /\ \A r \in HeapSymbols(p) : symrgtbl[p][r].e <= sbrk[p]
                    /\ \A q, r \in HeapSymbols(p) :
                         q # r => Bytes(symrgtbl[p][q]) \cap Bytes(symrgtbl[p][r]) = {}
  BY DEF RegionsAreDisjoint
<1>1. p \in Proc /\ RegionsInv
  BY DEF HeapsInv, RegionsInv
<1>2. HeapOK(freerg[p], symrgtbl[p], sbrk[p], lost[p]) /\ HeapSymbols(p) = Low(symrgtbl[p])
  BY <1>1, HeapOf
<1> QED  BY <1>2 DEF HeapOK

\* Every byte of a heap is in one place, and the list is in order.
LEMMA BytesInHeaps ==
  ASSUME HeapsInv
  PROVE  EveryByteOnce
<1>1. RegionsInv /\ bounds.heap \in Nat /\ PAGESZ \in Nat \ {0}
  BY BoundsOf DEF HeapsInv
<1>2. RegionsTypeOK
  <2>1. ASSUME NEW p \in Proc
        PROVE  /\ \A i \in DOMAIN freerg[p] : 0 <= freerg[p][i].s /\ freerg[p][i].s <= freerg[p][i].e
               /\ \A r \in Symbols : 0 <= symrgtbl[p][r].s /\ symrgtbl[p][r].s <= symrgtbl[p][r].e
               /\ sbrk[p] \in 0 .. bounds.heap
               /\ sbrk[p] % PAGESZ = 0
               /\ lost[p] \subseteq 0 .. bounds.heap - 1
    <3>1. \A x \in Nodes : 0 <= x.s /\ x.s <= x.e
      BY SMTT(30) DEF Nodes
    <3>2. \A i \in DOMAIN freerg[p] : freerg[p][i] \in Nodes
      BY <1>1, HeapOf, ListOfNodes
    <3>3. \A r \in Symbols : symrgtbl[p][r] \in Nodes
      BY <1>1, HeapOf
    <3>4. sbrk[p] \in 0 .. bounds.heap /\ sbrk[p] % PAGESZ = 0
      BY <1>1, HeapOf, SMTT(30)
    <3>5. \A a \in 0 .. sbrk[p] - 1 : a \in 0 .. bounds.heap - 1
      BY <1>1, <3>4, SMTT(30)
    <3>6. lost[p] \subseteq 0 .. sbrk[p] - 1
      BY <1>1, HeapOf DEF HeapOK
    <3> QED  BY <3>1, <3>2, <3>3, <3>4, <3>5, <3>6
  <2> QED  BY <1>1, <2>1 DEF RegionsTypeOK, RegionsInv
<1>3. ASSUME NEW p \in alive
      PROVE  LET list == freerg[p] IN
             /\ (UNION {Bytes(symrgtbl[p][r]) : r \in HeapSymbols(p)}) \cup lost[p]
                  = (0 .. sbrk[p] - 1) \ UNION {Bytes(list[i]) : i \in DOMAIN list}
             /\ \A i, j \in DOMAIN list : i # j => Bytes(list[i]) \cap Bytes(list[j]) = {}
             /\ \A i \in DOMAIN list : Bytes(list[i]) \subseteq 0 .. sbrk[p] - 1
             /\ \A i, j \in DOMAIN list :
                  i < j /\ Bytes(list[i]) # {} /\ Bytes(list[j]) # {} => list[i].s < list[j].s
  <2> DEFINE L == freerg[p]
             tbl == symrgtbl[p]
             top == sbrk[p]
             gone == lost[p]
  <2>1. p \in Proc
    BY <1>1 DEF RegionsInv
  <2>2. HeapOK(L, tbl, top, gone) /\ HeapSymbols(p) = Low(tbl)
    BY <1>1, <2>1, HeapOf
  <2> HIDE DEF L, tbl, top, gone
  <2>3. L \in Seq(Nodes) /\ Ordered(L) /\ ListBytes(L) \subseteq 0 .. top - 1 /\ top \in Nat
    BY <2>2 DEF HeapOK
  <2>4. DOMAIN L = 1 .. Len(L) /\ \A i \in DOMAIN L : L[i] \in Nodes
    BY <2>3, ListOfNodes
  <2>5. \A r \in Low(tbl) : Bytes(tbl[r]) \subseteq 0 .. top - 1
    <3> SUFFICES ASSUME NEW r \in Low(tbl), NEW a \in Bytes(tbl[r])
                 PROVE  a \in 0 .. top - 1
      OBVIOUS
    <3>1. tbl[r] \in Nodes /\ tbl[r].e <= top
      BY <2>2 DEF HeapOK, Low
    <3>2. a \in Int /\ tbl[r].s <= a /\ a < tbl[r].e
      BY <3>1, BytesOfNode
    <3>3. tbl[r].s \in Nat /\ tbl[r].e \in Nat
      BY <3>1 DEF Nodes
    <3> QED  BY <2>3, <3>1, <3>2, <3>3, SMTT(30)
  <2>6. (UNION {Bytes(tbl[r]) : r \in Low(tbl)}) \cup gone = (0 .. top - 1) \ ListBytes(L)
    <3>1. /\ gone \subseteq 0 .. top - 1 /\ gone \cap ListBytes(L) = {}
          /\ \A r \in Low(tbl) : Bytes(tbl[r]) \cap ListBytes(L) = {}
          /\ \A a \in 0 .. top - 1 : \/ a \in ListBytes(L)
                                     \/ a \in gone
                                     \/ \E r \in Low(tbl) : a \in Bytes(tbl[r])
      BY <2>2 DEF HeapOK
    <3> QED  BY <2>5, <3>1
  <2>7. \A i, j \in DOMAIN L : i # j => Bytes(L[i]) \cap Bytes(L[j]) = {}
    BY <2>3, <2>4, OrderedDisjoint
  <2>8. \A i \in DOMAIN L : Bytes(L[i]) \subseteq 0 .. top - 1
    BY <2>3 DEF ListBytes
  <2>9. ASSUME NEW i \in DOMAIN L, NEW j \in DOMAIN L, i < j, Bytes(L[j]) # {}
        PROVE  L[i].s < L[j].s
    <3>1. PICK a : a \in Bytes(L[j])
      BY <2>9
    <3>2. a \in Int /\ L[j].s <= a /\ a < L[j].e /\ L[j].s \in Nat /\ L[j].e \in Nat
      BY <2>4, <3>1, BytesOfNode DEF Nodes
    <3>3. L[j].s < L[j].e
      BY <3>2, SMTT(30)
    <3> QED  BY <2>3, <2>9, <3>3 DEF Ordered
  <2> QED  BY <2>2, <2>6, <2>7, <2>8, <2>9 DEF L, tbl, top, gone, ListBytes
<1> QED  BY <1>2, <1>3 DEF EveryByteOnce

\* The second lookup finds a region.
LEMMA GrowthInHeaps ==
  ASSUME HeapsInv
  PROVE  GrowthServesTheRequest
<1> SUFFICES ASSUME NEW p \in alive, NEW size \in 1 .. bounds.size
             PROVE  HasFit(Grown(p, size), size)
  BY DEF GrowthServesTheRequest
<1>1. size \in Nat \ {0}
  BY BoundsOf, SMTT(30)
<1>2. RegionsInv /\ p \in Proc
  BY DEF HeapsInv, RegionsInv
<1> QED  BY <1>1, <1>2, GrownHeap

\* No two symbols that ALLOC set have bytes in common, and their regions lie in the
\* heap: ALLOC and FREE interleaved with kernel memory in any order, heaps of any
\* size, any page size.
THEOREM RegionsNeverOverlap == CopySpec => []RegionsAreDisjoint
BY HeapsInvariant, CopyImplementsKernel, DisjointInHeaps, PTL

\* Splitting, merging and growing lose no byte of a heap and free none in use.
THEOREM NoByteIsLost == CopySpec => []EveryByteOnce
BY HeapsInvariant, CopyImplementsKernel, BytesInHeaps, PTL

\* inc_vma_limit() always makes the second lookup of __alloc() succeed.
THEOREM GrowthSuffices == CopySpec => []GrowthServesTheRequest
BY HeapsInvariant, CopyImplementsKernel, GrowthInHeaps, PTL
============================================================================
