-------------------------- MODULE PageTableProofs --------------------------
(***************************************************************************)
(* Proofs about PageTable, for every set of processes, every number of     *)
(* levels, every width of an index, and memory for any number of tables:   *)
(* the tables form one tree for each process and one for the kernel, and   *)
(* the trees implement one entry for each page.                            *)
(***************************************************************************)
EXTENDS PageTable, FiniteSetTheorems, WellFoundedInduction, TLAPS

USE ZenonT(30)
----------------------------------------------------------------------------
(* Induction and recursion over the natural numbers.                       *)

\* A set of numbers has a least element.
LEMMA LeastElement ==
  ASSUME NEW C, C \subseteq Nat, C # {}
  PROVE  \E x \in C : \A y \in C : x <= y
<1>1. PICK x \in C : \A y \in C : ~(<<y, x>> \in OpToRel(<, Nat))
  BY NatLessThanWellFounded, WFMin
<1>2. \A y \in C : ~(y < x)
  BY <1>1 DEF OpToRel
<1>3. \A y \in C : x <= y
  BY <1>2, SMTT(30)
<1> QED  BY <1>3

\* A set that has 0 and with every number its successor has all numbers.
LEMMA Induction ==
  ASSUME NEW T, 0 \in T, \A n \in Nat : n \in T => n + 1 \in T
  PROVE  \A n \in Nat : n \in T
<1> DEFINE C == Nat \ T
<1> SUFFICES ASSUME C # {} PROVE FALSE
  OBVIOUS
<1>1. PICK x \in C : \A y \in C : x <= y
  BY LeastElement
<1>2. \A y \in C : ~(y < x)
  BY <1>1, SMTT(30)
<1>3. x \in Nat /\ x \notin T /\ x # 0
  BY <1>1
<1>4. x - 1 \in Nat /\ x - 1 < x /\ (x - 1) + 1 = x
  BY <1>3, SMTT(30)
<1>5. x - 1 \in T
  BY <1>2, <1>4
<1> QED  BY <1>3, <1>4, <1>5

\* The beginnings, of length n, of a sequence defined by recursion.
Beginnings(S, a, F, n) ==
  {h \in [0 .. n -> S] : h[0] = a /\ \A k \in 0 .. n - 1 : h[k + 1] = F[k][h[k]]}

\* Any two of them agree where both are defined.
LEMMA BeginningsAgree ==
  ASSUME NEW S, NEW a \in S, NEW F, NEW m \in Nat, NEW n \in Nat,
         NEW g \in Beginnings(S, a, F, m), NEW h \in Beginnings(S, a, F, n)
  PROVE  \A k \in Nat : k <= m /\ k <= n => g[k] = h[k]
<1> DEFINE T == {k \in Nat : k <= m /\ k <= n => g[k] = h[k]}
<1>1. 0 \in T
  BY DEF Beginnings
<1>2. ASSUME NEW k \in Nat, k \in T PROVE k + 1 \in T
  <2> SUFFICES ASSUME k + 1 <= m, k + 1 <= n PROVE g[k + 1] = h[k + 1]
    BY SMTT(30)
  <2>1. k <= m /\ k <= n /\ k \in 0 .. m - 1 /\ k \in 0 .. n - 1
    BY SMTT(30)
  <2> QED  BY <1>2, <2>1 DEF Beginnings
<1> HIDE DEF T
<1>3. \A k \in Nat : k \in T
  BY <1>1, <1>2, Induction
<1> QED  BY <1>3 DEF T

\* There is one of every length.
LEMMA BeginningsExist ==
  ASSUME NEW S, NEW a \in S, NEW F, \A k \in Nat, v \in S : F[k][v] \in S
  PROVE  \A n \in Nat : Beginnings(S, a, F, n) # {}
<1> DEFINE T == {n \in Nat : Beginnings(S, a, F, n) # {}}
<1>1. 0 \in T
  <2> DEFINE h == [k \in 0 .. 0 |-> a]
  <2>1. h \in [0 .. 0 -> S] /\ h[0] = a /\ 0 .. 0 - 1 = {}
    BY SMTT(30)
  <2>2. h \in Beginnings(S, a, F, 0)
    BY <2>1 DEF Beginnings
  <2> QED  BY <2>2
<1>2. ASSUME NEW n \in Nat, n \in T PROVE n + 1 \in T
  <2>1. PICK g : g \in Beginnings(S, a, F, n)
    BY <1>2
  <2>2. g \in [0 .. n -> S] /\ g[0] = a /\ \A k \in 0 .. n - 1 : g[k + 1] = F[k][g[k]]
    BY <2>1 DEF Beginnings
  <2> DEFINE h == [k \in 0 .. n + 1 |-> IF k <= n THEN g[k] ELSE F[n][g[n]]]
  <2>3. F[n][g[n]] \in S
    BY <2>2, SMTT(30)
  <2>4. h \in [0 .. n + 1 -> S]
    BY <2>2, <2>3, SMTT(30)
  <2>5. h[0] = a
    BY <2>2, SMTT(30)
  <2>6. ASSUME NEW k \in 0 .. n PROVE h[k + 1] = F[k][h[k]]
    <3>1. h[k] = g[k]
      BY SMTT(30)
    <3>2. CASE k = n
      <4>1. h[k + 1] = F[n][g[n]]
        BY <3>2, SMTT(30)
      <4> QED  BY <3>1, <3>2, <4>1
    <3>3. CASE k # n
      <4>1. k \in 0 .. n - 1 /\ h[k + 1] = g[k + 1]
        BY <3>3, SMTT(30)
      <4> QED  BY <2>2, <3>1, <4>1
    <3> QED  BY <3>2, <3>3
  <2>7. (n + 1) - 1 = n
    BY SMTT(30)
  <2> HIDE DEF h
  <2>8. h \in Beginnings(S, a, F, n + 1)
    BY <2>4, <2>5, <2>6, <2>7 DEF Beginnings
  <2>9. n + 1 \in Nat
    BY SMTT(30)
  <2> QED  BY <2>8, <2>9
<1> HIDE DEF T
<1>3. \A n \in Nat : n \in T
  BY <1>1, <1>2, Induction
<1> QED  BY <1>3 DEF T

\* The steps F[0], F[1], ... do not leave S, and g is the sequence they make from a.
StaysIn(S, F) == \A k \in Nat, v \in S : F[k][v] \in S

Runs(g, S, a, F) ==
  g \in [Nat -> S] /\ g[0] = a /\ \A n \in Nat : g[n + 1] = F[n][g[n]]

\* A first value and a step define a sequence.
LEMMA Recursion ==
  ASSUME NEW S, NEW a \in S, NEW F, StaysIn(S, F)
  PROVE  \E g : Runs(g, S, a, F)
<1> DEFINE h(n) == CHOOSE f : f \in Beginnings(S, a, F, n)
           g == [n \in Nat |-> h(n)[n]]
<1>1. \A n \in Nat : h(n) \in Beginnings(S, a, F, n)
  BY BeginningsExist DEF StaysIn
<1> HIDE DEF h
<1>2. \A n \in Nat : /\ h(n) \in [0 .. n -> S] /\ h(n)[0] = a
                     /\ \A k \in 0 .. n - 1 : h(n)[k + 1] = F[k][h(n)[k]]
  BY <1>1 DEF Beginnings
<1>3. \A n \in Nat : n \in 0 .. n
  BY SMTT(30)
<1>4. g \in [Nat -> S]
  BY <1>2, <1>3
<1>5. g[0] = a
  BY <1>2
<1>6. ASSUME NEW n \in Nat PROVE g[n + 1] = F[n][g[n]]
  <2>1. n + 1 \in Nat /\ n <= n /\ n <= n + 1 /\ n \in 0 .. (n + 1) - 1
    BY SMTT(30)
  <2>2. h(n + 1)[n + 1] = F[n][h(n + 1)[n]]
    BY <1>2, <2>1
  <2>3. h(n) \in Beginnings(S, a, F, n) /\ h(n + 1) \in Beginnings(S, a, F, n + 1)
    BY <1>1, <2>1
  <2>4. \A k \in Nat : k <= n /\ k <= n + 1 => h(n)[k] = h(n + 1)[k]
    BY <2>1, <2>3, BeginningsAgree, SMTT(30)
  <2> QED  BY <2>1, <2>2, <2>4
<1> QED  BY <1>4, <1>5, <1>6 DEF Runs

----------------------------------------------------------------------------
(* Shifts and masks, as powers of two, quotients and remainders.           *)

\* BIT_ULL(nr) doubles with each bit.
LEMMA BitDoubles ==
  /\ BIT_ULL \in [Nat -> Nat \ {0}] /\ BIT_ULL[0] = 1
  /\ \A n \in Nat : BIT_ULL[n + 1] = 2 * BIT_ULL[n]
<1> DEFINE S == Nat \ {0}
           F == [n \in Nat |-> [v \in S |-> 2 * v]]
<1>0. 1 \in S /\ \A v \in S : 2 * v \in S
  BY SMTT(30)
<1>1. \A n \in Nat, v \in S : F[n][v] = 2 * v
  OBVIOUS
<1> HIDE DEF F, S
<1>2. PICK g : Runs(g, S, 1, F)
  <2>1. StaysIn(S, F)
    BY <1>0, <1>1 DEF StaysIn
  <2> QED  BY <1>0, <2>1, Recursion
<1>3. g \in [Nat -> S] /\ g[0] = 1 /\ \A n \in Nat : g[n + 1] = 2 * g[n]
  BY <1>1, <1>2 DEF Runs
<1>4. ASSUME NEW n \in Nat PROVE g[n] = IF n = 0 THEN 1 ELSE 2 * g[n - 1]
  <2>1. CASE n # 0
    <3>1. n - 1 \in Nat /\ (n - 1) + 1 = n
      BY <2>1, SMTT(30)
    <3>2. g[(n - 1) + 1] = 2 * g[n - 1]
      BY <1>3, <3>1
    <3> QED  BY <2>1, <3>1, <3>2
  <2> QED  BY <1>3, <2>1
<1>5. g = [nr \in Nat |-> IF nr = 0 THEN 1 ELSE 2 * g[nr - 1]]
  BY <1>3, <1>4
<1>6. BIT_ULL = [nr \in Nat |-> IF nr = 0 THEN 1 ELSE 2 * BIT_ULL[nr - 1]]
  BY <1>5 DEF BIT_ULL
<1>7. \A n \in Nat : BIT_ULL[n] = IF n = 0 THEN 1 ELSE 2 * BIT_ULL[n - 1]
  BY <1>6
<1>8. BIT_ULL[0] = 1
  BY <1>7
<1>9. ASSUME NEW n \in Nat PROVE BIT_ULL[n + 1] = 2 * BIT_ULL[n]
  <2>1. n + 1 \in Nat /\ n + 1 # 0 /\ (n + 1) - 1 = n
    BY SMTT(30)
  <2> QED  BY <1>7, <2>1
<1> DEFINE T == {n \in Nat : BIT_ULL[n] \in S}
<1>10. 0 \in T
  BY <1>0, <1>8
<1>11. ASSUME NEW n \in Nat, n \in T PROVE n + 1 \in T
  BY <1>9, <1>11, SMTT(30) DEF S
<1> HIDE DEF T
<1>12. \A n \in Nat : n \in T
  BY <1>10, <1>11, Induction
<1>13. BIT_ULL \in [Nat -> S]
  BY <1>6, <1>12 DEF T
<1> QED  BY <1>8, <1>9, <1>13 DEF S

\* Shifts add up.
LEMMA BitAdds ==
  \A m, n \in Nat : BIT_ULL[m + n] = BIT_ULL[m] * BIT_ULL[n]
<1> SUFFICES ASSUME NEW m \in Nat
             PROVE  \A n \in Nat : BIT_ULL[m + n] = BIT_ULL[m] * BIT_ULL[n]
  OBVIOUS
<1> DEFINE T == {n \in Nat : BIT_ULL[m + n] = BIT_ULL[m] * BIT_ULL[n]}
<1>1. BIT_ULL[m] \in Nat
  BY BitDoubles
<1>2. 0 \in T
  <2>1. m + 0 = m /\ BIT_ULL[m] * 1 = BIT_ULL[m]
    BY <1>1, SMTT(30)
  <2> QED  BY <2>1, BitDoubles
<1>3. ASSUME NEW n \in Nat, n \in T PROVE n + 1 \in T
  <2>1. m + n \in Nat /\ n + 1 \in Nat /\ m + (n + 1) = (m + n) + 1
    BY SMTT(30)
  <2>2. BIT_ULL[m + (n + 1)] = 2 * BIT_ULL[m + n] /\ BIT_ULL[n + 1] = 2 * BIT_ULL[n]
    BY <2>1, BitDoubles
  <2>3. BIT_ULL[m + n] = BIT_ULL[m] * BIT_ULL[n]
    BY <1>3
  <2> DEFINE x == BIT_ULL[m]
             y == BIT_ULL[n]
  <2>4. x \in Nat /\ y \in Nat
    BY BitDoubles
  <2> HIDE DEF x, y
  <2>5. 2 * (x * y) = x * (2 * y)
    BY <2>4, SMTT(30)
  <2> QED  BY <2>1, <2>2, <2>3, <2>5 DEF x, y
<1> HIDE DEF T
<1>4. \A n \in Nat : n \in T
  BY <1>2, <1>3, Induction
<1> QED  BY <1>4 DEF T

\* Shifting right twice.
LEMMA DivDiv ==
  ASSUME NEW a \in Nat, NEW b \in Nat \ {0}, NEW c \in Nat \ {0}
  PROVE  (a \div b) \div c = a \div (b * c)
BY SMTT(30)

\* A number and its two parts.
LEMMA DivParts ==
  ASSUME NEW a \in Nat, NEW b \in Nat \ {0}
  PROVE  /\ a \div b \in Nat /\ a % b \in 0 .. b - 1
         /\ a = b * (a \div b) + (a % b)
BY SMTT(30)

\* The parts determine the number, and the number the parts.
LEMMA DivUnique ==
  ASSUME NEW b \in Nat \ {0}, NEW q \in Nat, NEW r \in 0 .. b - 1
  PROVE  (b * q + r) \div b = q
BY SMTT(30)

\* A larger number has no smaller quotient.
LEMMA DivMonotone ==
  ASSUME NEW a \in Nat, NEW b \in Nat \ {0}, NEW c \in Nat, a <= c
  PROVE  a \div b <= c \div b
BY SMTT(30)

----------------------------------------------------------------------------
(* Addresses.  An address is its upper bits, one index for each level and  *)
(* the offset.                                                             *)

\* The lowest bit of the index of level l.
LowBit(l) == OffBits + (Levels - l) * LevelBits

\* The indices lie next to each other, from the offset up to the sign bit.
LEMMA LowBits ==
  /\ \A l \in 0 .. Levels : LowBit(l) \in Nat
  /\ \A l \in 1 .. Levels : LowBit(l - 1) = LowBit(l) + LevelBits
  /\ LowBit(Levels) = OffBits /\ LowBit(0) = SignBit + 1
  /\ SignBit \in Nat /\ OffBits <= SignBit
<1>1. Levels \in Nat \ {0, 1} /\ LevelBits \in Nat \ {0} /\ OffBits \in Nat
  BY PageTableAssumption
<1>2. Levels * LevelBits \in Nat \ {0} /\ 0 * LevelBits = 0 /\ Levels - Levels = 0 /\ Levels - 0 = Levels
  BY <1>1, SMTT(30)
<1>3. \A l \in 0 .. Levels : (Levels - l) * LevelBits \in Nat
  BY <1>1, SMTT(30)
<1>4. \A l \in 1 .. Levels : (Levels - (l - 1)) * LevelBits = (Levels - l) * LevelBits + LevelBits
  BY <1>1, SMTT(30)
<1>5. \A l \in 0 .. Levels : LowBit(l) \in Nat
  BY <1>1, <1>3, SMTT(30) DEF LowBit
<1>6. \A l \in 1 .. Levels : LowBit(l - 1) = LowBit(l) + LevelBits
  <2> SUFFICES ASSUME NEW l \in 1 .. Levels PROVE LowBit(l - 1) = LowBit(l) + LevelBits
    OBVIOUS
  <2> DEFINE x == (Levels - l) * LevelBits
  <2>1. x \in Nat /\ (Levels - (l - 1)) * LevelBits = x + LevelBits
    BY <1>1, <1>3, <1>4, SMTT(30)
  <2> HIDE DEF x
  <2>2. OffBits + (x + LevelBits) = (OffBits + x) + LevelBits
    BY <1>1, <2>1, SMTT(30)
  <2> QED  BY <2>1, <2>2 DEF LowBit, x
<1>7. LowBit(Levels) = OffBits
  BY <1>1, <1>2, SMTT(30) DEF LowBit
<1> DEFINE m == Levels * LevelBits
<1>8. m \in Nat \ {0} /\ LowBit(0) = OffBits + m /\ SignBit = OffBits + m - 1
  BY <1>2 DEF LowBit, SignBit
<1> HIDE DEF m
<1>9. LowBit(0) = SignBit + 1 /\ SignBit \in Nat /\ OffBits <= SignBit
  BY <1>1, <1>8, SMTT(30)
<1> QED  BY <1>5, <1>6, <1>7, <1>9

\* The sizes are positive.
LEMMA Sizes ==
  /\ PAGESZ \in Nat \ {0} /\ BIT_ULL[LevelBits] \in Nat \ {0}
  /\ \A l \in 0 .. Levels : BIT_ULL[LowBit(l)] \in Nat \ {0}
BY BitDoubles, LowBits, PageTableAssumption DEF PAGESZ

\* An index is the number of a slot.
LEMMA IndexIsSlot ==
  ASSUME NEW a \in Nat, NEW l \in 1 .. Levels
  PROVE  Index(a, l) \in Slots
<1> DEFINE b == BIT_ULL[LowBit(l)]
           c == BIT_ULL[LevelBits]
<1>1. l \in 0 .. Levels
  BY PageTableAssumption, SMTT(30)
<1>2. b \in Nat \ {0} /\ c \in Nat \ {0}
  BY <1>1, Sizes
<1>3. Index(a, l) = (a \div b) % c /\ Slots = 0 .. c - 1
  BY DEF Index, Covers, LEVEL_ENTRIES, LowBit, Slots
<1> HIDE DEF b, c
<1>4. a \div b \in Nat
  BY <1>2, DivParts
<1> QED  BY <1>2, <1>3, <1>4, DivParts

\* What lies above an index, and the index.
LEMMA IndexSplits ==
  ASSUME NEW a \in Nat, NEW l \in 1 .. Levels
  PROVE  a \div BIT_ULL[LowBit(l)]
           = BIT_ULL[LevelBits] * (a \div BIT_ULL[LowBit(l - 1)]) + Index(a, l)
<1> DEFINE b == BIT_ULL[LowBit(l)]
           c == BIT_ULL[LevelBits]
<1>1. l \in 0 .. Levels /\ LevelBits \in Nat
  BY PageTableAssumption, SMTT(30)
<1>2. b \in Nat \ {0} /\ c \in Nat \ {0}
  BY <1>1, Sizes
<1>3. BIT_ULL[LowBit(l - 1)] = b * c
  BY <1>1, LowBits, BitAdds
<1>4. Index(a, l) = (a \div b) % c
  BY DEF Index, Covers, LEVEL_ENTRIES, LowBit
<1> HIDE DEF b, c
<1>5. a \div b \in Nat /\ (a \div b) \div c = a \div (b * c)
  BY <1>2, DivParts, DivDiv
<1>6. a \div b = c * ((a \div b) \div c) + ((a \div b) % c)
  BY <1>2, <1>5, DivParts
<1> QED  BY <1>3, <1>4, <1>5, <1>6 DEF b, c

\* Two addresses with the same upper bits and the same indices are in one page.
LEMMA IndicesTellPage ==
  ASSUME NEW a \in Nat, NEW b \in Nat, a \div BIT_ULL[SignBit + 1] = b \div BIT_ULL[SignBit + 1],
         \A l \in 1 .. Levels : Index(a, l) = Index(b, l)
  PROVE  a \div PAGESZ = b \div PAGESZ
<1> DEFINE T == {k \in Nat : k <= Levels => a \div BIT_ULL[LowBit(k)] = b \div BIT_ULL[LowBit(k)]}
<1>1. 0 \in T
  BY LowBits
<1>2. ASSUME NEW k \in Nat, k \in T PROVE k + 1 \in T
  <2>1. k + 1 \in Nat /\ (k + 1) - 1 = k
    BY SMTT(30)
  <2> SUFFICES ASSUME k + 1 <= Levels
               PROVE  a \div BIT_ULL[LowBit(k + 1)] = b \div BIT_ULL[LowBit(k + 1)]
    BY <2>1
  <2>2. k + 1 \in 1 .. Levels /\ k <= Levels
    BY PageTableAssumption, SMTT(30)
  <2>3. a \div BIT_ULL[LowBit(k)] = b \div BIT_ULL[LowBit(k)]
    BY <1>2, <2>2
  <2>4. Index(a, k + 1) = Index(b, k + 1)
    BY <2>2
  <2> QED  BY <2>1, <2>2, <2>3, <2>4, IndexSplits
<1> HIDE DEF T
<1>3. \A k \in Nat : k \in T
  BY <1>1, <1>2, Induction
<1>4. Levels \in Nat /\ Levels <= Levels
  BY PageTableAssumption, SMTT(30)
<1> QED  BY <1>3, <1>4, LowBits DEF T, PAGESZ

----------------------------------------------------------------------------
(* Pages.  A page lies on one side of the address space.                   *)

\* The bits of an address above the offset are those of its page.
LEMMA PageKeepsUpperBits ==
  ASSUME NEW a \in Nat, NEW k \in Nat, OffBits <= k
  PROVE  /\ a \div PAGESZ \in Nat /\ (a \div PAGESZ) * PAGESZ \in Nat
         /\ ((a \div PAGESZ) * PAGESZ) \div BIT_ULL[k] = a \div BIT_ULL[k]
<1> DEFINE g == a \div PAGESZ
           c == BIT_ULL[k - OffBits]
<1>1. OffBits \in Nat /\ k - OffBits \in Nat /\ OffBits + (k - OffBits) = k
  BY PageTableAssumption, SMTT(30)
<1>2. c \in Nat \ {0} /\ PAGESZ \in Nat \ {0} /\ BIT_ULL[k] = PAGESZ * c
  BY <1>1, Sizes, BitDoubles, BitAdds DEF PAGESZ
<1>3. g \in Nat
  BY <1>2, DivParts
<1> HIDE DEF c
<1>4. g \div c = a \div (PAGESZ * c)
  BY <1>2, DivDiv
<1> HIDE DEF g
<1>5. g * PAGESZ \in Nat /\ 0 \in 0 .. PAGESZ - 1 /\ PAGESZ * g + 0 = g * PAGESZ
  BY <1>2, <1>3, SMTT(30)
<1>6. (g * PAGESZ) \div PAGESZ = g
  BY <1>2, <1>3, <1>5, DivUnique
<1> DEFINE x == g * PAGESZ
<1>7. x \in Nat /\ x \div PAGESZ = g
  BY <1>5, <1>6
<1> HIDE DEF x
<1>8. (x \div PAGESZ) \div c = x \div (PAGESZ * c)
  BY <1>2, <1>7, DivDiv
<1> QED  BY <1>2, <1>3, <1>4, <1>7, <1>8 DEF g, x

\* Canonical addresses of one side have the same upper bits.
LEMMA CanonicalOnSide ==
  ASSUME NEW a, NEW b, Canonical(a), Canonical(b), is_kernel_address(a) <=> is_kernel_address(b)
  PROVE  a \div BIT_ULL[SignBit + 1] = b \div BIT_ULL[SignBit + 1]
<1>1. CASE is_kernel_address(a)
  BY <1>1 DEF Canonical
<1>2. CASE ~is_kernel_address(a)
  BY <1>2 DEF Canonical
<1> QED  BY <1>1, <1>2

\* The pages of user and of kernel space: their addresses are on that side.
LEMMA PagesHaveSides ==
  /\ \A g \in UserPages : g \in Nat /\ g * PAGESZ \in Nat
       /\ Canonical(g * PAGESZ) /\ ~is_kernel_address(g * PAGESZ)
  /\ \A g \in KernelPages : g \in Nat /\ g * PAGESZ \in Nat
       /\ Canonical(g * PAGESZ) /\ is_kernel_address(g * PAGESZ)
<1>1. SignBit \in Nat /\ SignBit + 1 \in Nat /\ OffBits <= SignBit /\ OffBits <= SignBit + 1
  BY LowBits, PageTableAssumption, SMTT(30)
<1>2. ASSUME NEW a \in Address
      PROVE  /\ a \div PAGESZ \in Nat /\ (a \div PAGESZ) * PAGESZ \in Nat
             /\ is_kernel_address((a \div PAGESZ) * PAGESZ) <=> is_kernel_address(a)
             /\ Canonical(a) => Canonical((a \div PAGESZ) * PAGESZ)
  <2>1. a \in Nat
    BY SMTT(30) DEF Address
  <2>2. /\ a \div PAGESZ \in Nat /\ (a \div PAGESZ) * PAGESZ \in Nat
        /\ ((a \div PAGESZ) * PAGESZ) \div BIT_ULL[SignBit] = a \div BIT_ULL[SignBit]
        /\ ((a \div PAGESZ) * PAGESZ) \div BIT_ULL[SignBit + 1] = a \div BIT_ULL[SignBit + 1]
    BY <1>1, <2>1, PageKeepsUpperBits
  <2>3. is_kernel_address((a \div PAGESZ) * PAGESZ) <=> is_kernel_address(a)
    BY <2>2 DEF is_kernel_address, UserSize
  <2> QED  BY <2>2, <2>3 DEF Canonical
<1>3. ASSUME NEW g \in UserPages
      PROVE  \E a \in Address : g = a \div PAGESZ /\ Canonical(a) /\ ~is_kernel_address(a)
  BY DEF UserPages, PagesOf
<1>4. ASSUME NEW g \in KernelPages
      PROVE  \E a \in Address : g = a \div PAGESZ /\ Canonical(a) /\ is_kernel_address(a)
  BY DEF KernelPages, PagesOf
<1>5. ASSUME NEW g \in UserPages
      PROVE  g \in Nat /\ g * PAGESZ \in Nat /\ Canonical(g * PAGESZ) /\ ~is_kernel_address(g * PAGESZ)
  <2>1. PICK a \in Address : g = a \div PAGESZ /\ Canonical(a) /\ ~is_kernel_address(a)
    BY <1>3
  <2> QED  BY <1>2, <2>1
<1>6. ASSUME NEW g \in KernelPages
      PROVE  g \in Nat /\ g * PAGESZ \in Nat /\ Canonical(g * PAGESZ) /\ is_kernel_address(g * PAGESZ)
  <2>1. PICK a \in Address : g = a \div PAGESZ /\ Canonical(a) /\ is_kernel_address(a)
    BY <1>4
  <2> QED  BY <1>2, <2>1
<1> QED  BY <1>5, <1>6

\* Two pages of one side with the same indices are one.
LEMMA PageHasIndices ==
  ASSUME NEW D \in {UserPages, KernelPages}, NEW g \in D, NEW h \in D,
         \A l \in 1 .. Levels : Index(g * PAGESZ, l) = Index(h * PAGESZ, l)
  PROVE  g = h
<1>1. /\ g \in Nat /\ h \in Nat /\ g * PAGESZ \in Nat /\ h * PAGESZ \in Nat
      /\ Canonical(g * PAGESZ) /\ Canonical(h * PAGESZ)
      /\ is_kernel_address(g * PAGESZ) <=> is_kernel_address(h * PAGESZ)
  <2>1. CASE D = UserPages
    BY <2>1, PagesHaveSides
  <2>2. CASE D = KernelPages
    BY <2>2, PagesHaveSides
  <2> QED  BY <2>1, <2>2
<1>2. (g * PAGESZ) \div BIT_ULL[SignBit + 1] = (h * PAGESZ) \div BIT_ULL[SignBit + 1]
  BY <1>1, CanonicalOnSide
<1>3. (g * PAGESZ) \div PAGESZ = (h * PAGESZ) \div PAGESZ
  BY <1>1, <1>2, IndicesTellPage
<1>4. PAGESZ \in Nat \ {0}
  BY Sizes
<1> HIDE DEF PAGESZ
<1>5. \A x \in Nat : PAGESZ * x + 0 = x * PAGESZ /\ 0 \in 0 .. PAGESZ - 1
  BY <1>4, SMTT(30)
<1>6. \A x \in Nat : (x * PAGESZ) \div PAGESZ = x
  BY <1>4, <1>5, DivUnique
<1> QED  BY <1>1, <1>3, <1>6

\* No canonical address lies between two of one side and is not of that side.
LEMMA SideIsConvex ==
  ASSUME NEW a \in Nat, NEW b \in Nat, NEW c \in Nat, a <= b, b <= c,
         Canonical(a), Canonical(c), is_kernel_address(a) <=> is_kernel_address(c)
  PROVE  Canonical(b) /\ (is_kernel_address(b) <=> is_kernel_address(a))
<1> DEFINE s == BIT_ULL[SignBit]
           t == BIT_ULL[SignBit + 1]
<1>1. s \in Nat \ {0} /\ t = s * 2
  <2>1. SignBit \in Nat
    BY LowBits
  <2>2. s \in Nat \ {0} /\ t = 2 * s
    BY <2>1, BitDoubles
  <2> HIDE DEF s, t
  <2> QED  BY <2>2, SMTT(30)
<1> HIDE DEF s, t
<1>2. \A x \in Nat : x \div s \in Nat /\ (x \div s) \div 2 = x \div t
  <2>1. 2 \in Nat \ {0}
    BY SMTT(30)
  <2> QED  BY <1>1, <2>1, DivDiv, DivParts
<1>3. a \div s <= b \div s /\ b \div s <= c \div s
  BY <1>1, DivMonotone
<1>4. a \div t = c \div t
  BY CanonicalOnSide DEF t
<1>5. (a \div s) % 2 = 1 <=> (c \div s) % 2 = 1
  BY DEF is_kernel_address, UserSize, s
<1>6. a \div s = b \div s
  <2> DEFINE x == a \div s
             y == b \div s
             z == c \div s
  <2>1. x \in Nat /\ y \in Nat /\ z \in Nat /\ x <= y /\ y <= z /\ x \div 2 = z \div 2
    BY <1>2, <1>3, <1>4
  <2>2. x % 2 = 1 <=> z % 2 = 1
    BY <1>5
  <2> HIDE DEF x, y, z
  <2>3. x = y
    BY <2>1, <2>2, SMTT(30)
  <2> QED  BY <2>3 DEF x, y
<1>7. a \div t = b \div t
  BY <1>2, <1>6
<1>8. is_kernel_address(b) <=> is_kernel_address(a)
  BY <1>6 DEF is_kernel_address, UserSize, s
<1> QED  BY <1>7, <1>8 DEF Canonical, t

\* The pages of a range that passes the check are on one side, and follow one another.
LEMMA RangeHasPages ==
  ASSUME NEW addr \in Address, NEW pgnum \in 1 .. MaxRange, validate_page_range(addr, pgnum),
         NEW n \in 0 .. pgnum - 1
  PROVE  /\ addr \div PAGESZ \in Nat
         /\ addr + n * PAGESZ = (addr \div PAGESZ + n) * PAGESZ
         /\ is_kernel_address(addr + n * PAGESZ) <=> is_kernel_address(addr)
         /\ addr \div PAGESZ + n \in IF is_kernel_address(addr) THEN KernelPages ELSE UserPages
         /\ (addr + n * PAGESZ) \div PAGESZ = addr \div PAGESZ + n
<1> DEFINE w == BIT_ULL[Width]
           s == (pgnum - 1) * PAGESZ
           last == (addr + s) % w
           a == addr + n * PAGESZ
           g == addr \div PAGESZ
<1>1. PAGESZ \in Nat \ {0} /\ w \in Nat \ {0} /\ MaxRange \in Nat /\ MaxRange * PAGESZ <= w
  <2>1. Width \in Nat
    BY LowBits, PageTableAssumption, SMTT(30) DEF Width
  <2> QED  BY <2>1, Sizes, BitDoubles, PageTableAssumption, MaxRangeAssumption
<1>2. /\ addr % PAGESZ = 0 /\ last >= addr /\ Canonical(addr) /\ Canonical(last)
      /\ is_kernel_address(addr) = is_kernel_address(last)
  <2>1. pgnum # 0
    BY <1>1, SMTT(30)
  <2> QED  BY <2>1 DEF validate_page_range
<1>3. addr \in Nat /\ addr < w
  BY <1>1, SMTT(30) DEF Address
<1>4. s \in Nat /\ s < w /\ n * PAGESZ \in Nat /\ n * PAGESZ <= s
  BY <1>1, SMTT(30)
<1> HIDE DEF w, s
<1>5. last = addr + s
  <2>1. CASE addr + s < w
    BY <1>1, <1>3, <1>4, <2>1, SMTT(30)
  <2>2. CASE addr + s >= w
    <3>1. addr + s = w * 1 + (addr + s - w) /\ addr + s - w \in 0 .. w - 1 /\ addr + s - w < addr
      BY <1>1, <1>3, <1>4, <2>2, SMTT(30)
    <3>2. (addr + s) % w = addr + s - w
      BY <1>1, <1>3, <1>4, <3>1, SMTT(30)
    <3> QED  BY <1>1, <1>2, <1>3, <1>4, <3>1, <3>2, SMTT(30)
  <2> QED  BY <1>1, <1>3, <1>4, <2>1, <2>2, SMTT(30)
<1> HIDE DEF last
<1>6. a \in Nat /\ addr <= a /\ a <= last /\ last \in Nat /\ a \in Nat /\ a < w
  <2>1. last < w
    BY <1>1, <1>3, <1>4, DivParts, SMTT(30) DEF last
  <2> QED  BY <1>1, <1>3, <1>4, <1>5, <2>1, SMTT(30)
<1>7. Canonical(a) /\ (is_kernel_address(a) <=> is_kernel_address(addr))
  BY <1>2, <1>3, <1>6, SideIsConvex
<1>8. g \in Nat /\ addr = PAGESZ * g
  <2>1. g \in Nat /\ addr = PAGESZ * g + (addr % PAGESZ)
    BY <1>1, <1>3, DivParts
  <2>2. \A x \in Nat : PAGESZ * x + 0 = PAGESZ * x
    BY <1>1, SMTT(30)
  <2> QED  BY <1>2, <2>1, <2>2
<1> HIDE DEF g
<1>9. a = PAGESZ * (g + n) + 0 /\ a = (g + n) * PAGESZ /\ g + n \in Nat /\ 0 \in 0 .. PAGESZ - 1
  BY <1>1, <1>8, SMTT(30)
<1>10. a \in Address
  <2>1. a \in 0 .. w - 1
    BY <1>1, <1>6, SMTT(30)
  <2> QED  BY <2>1 DEF Address, w
<1> HIDE DEF a
<1>11. a \div PAGESZ = g + n
  <2>1. (PAGESZ * (g + n) + 0) \div PAGESZ = g + n
    BY <1>1, <1>9, DivUnique
  <2> QED  BY <1>9, <2>1
<1>12. CASE is_kernel_address(addr)
  <2>1. a \div PAGESZ \in KernelPages
    BY <1>7, <1>10, <1>12 DEF KernelPages, PagesOf
  <2> QED  BY <1>7, <1>8, <1>9, <1>11, <1>12, <2>1 DEF a, g
<1>13. CASE ~is_kernel_address(addr)
  <2>1. a \div PAGESZ \in UserPages
    BY <1>7, <1>10, <1>13 DEF UserPages, PagesOf
  <2> QED  BY <1>7, <1>8, <1>9, <1>11, <1>13, <2>1 DEF a, g
<1> QED  BY <1>12, <1>13

----------------------------------------------------------------------------
(* Trees.  Of each table in memory, lev tells its level and own the root   *)
(* of its tree.                                                            *)

WellTyped(tbl, al, roots, lev, own) ==
  /\ tbl \in [Table -> [Slots -> Nat]] /\ al \subseteq Table /\ roots \subseteq al
  /\ lev \in [Table -> 1 .. Levels] /\ own \in [Table -> Table]

RootsOnTop(al, roots, lev, own) ==
  /\ \A r \in roots : lev[r] = 1 /\ own[r] = r
  /\ \A t \in al : own[t] \in roots /\ (lev[t] = 1 => t \in roots)

\* Slot i of t holds a table.
Holds(tbl, lev, t, i) == lev[t] < Levels /\ tbl[t][i] # 0

ChildrenBelow(tbl, al, lev, own) ==
  \A t \in al, i \in Slots : Holds(tbl, lev, t, i) =>
    LET c == tbl[t][i] IN c \in al /\ lev[c] = lev[t] + 1 /\ own[c] = own[t]

OneParent(tbl, al, lev) ==
  \A t, u \in al, i, j \in Slots :
    Holds(tbl, lev, t, i) /\ Holds(tbl, lev, u, j) /\ tbl[t][i] = tbl[u][j] => t = u /\ i = j

HaveParents(tbl, al, roots, lev) ==
  \A c \in al \ roots : \E t \in al, i \in Slots : Holds(tbl, lev, t, i) /\ tbl[t][i] = c

Shape(tbl, al, roots, lev, own) ==
  /\ WellTyped(tbl, al, roots, lev, own) /\ RootsOnTop(al, roots, lev, own)
  /\ ChildrenBelow(tbl, al, lev, own) /\ OneParent(tbl, al, lev)
  /\ HaveParents(tbl, al, roots, lev)

\* The numbers of tables and levels.
LEMMA SmallNumbers ==
  /\ 0 \in Nat /\ 0 \notin Table /\ Table \subseteq Nat /\ Levels \in Nat \ {0, 1}
  /\ 1 \in 1 .. Levels /\ Levels \in 1 .. Levels /\ Levels + 1 \in 1 .. Levels + 1
  /\ \A l \in 1 .. Levels : l \in Nat /\ l \in 1 .. Levels + 1 /\ l + 1 \in 1 .. Levels + 1 /\ l <= Levels
BY PageTableAssumption, SMTT(30) DEF Table

\* A walk that starts at a root is at level l after l - 1 steps, in the tree of the
\* root, or has found nothing.
OnLevel(al, lev, own, root, at, l) ==
  at[l] = 0 \/ (at[l] \in al /\ lev[at[l]] = l /\ own[at[l]] = root)

\* From a table in memory the walk goes where the slot of the address says.
Follows(tbl, al, a, at) ==
  \A l \in 1 .. Levels : at[l] \in al \cup {0} =>
    at[l + 1] = IF at[l] = 0 THEN 0 ELSE tbl[at[l]][Index(a, l)]

\* A slot of a table in memory holds a number.
LEMMA EntriesAreNumbers ==
  ASSUME NEW tbl, NEW al, NEW roots, NEW lev, NEW own, WellTyped(tbl, al, roots, lev, own)
  PROVE  \A t \in al, i \in Slots : t \in Table /\ t \in Nat /\ tbl[t][i] \in Nat
<1>1. SUFFICES ASSUME NEW t \in al, NEW i \in Slots
               PROVE  t \in Table /\ t \in Nat /\ tbl[t][i] \in Nat
  OBVIOUS
<1>2. t \in Table /\ t \in Nat
  BY SmallNumbers DEF WellTyped
<1>3. tbl[t] \in [Slots -> Nat]
  BY <1>2 DEF WellTyped
<1> QED  BY <1>2, <1>3

\* A walk that follows the slots meets tables of one tree, each on its level.
LEMMA WalkStaysInTree ==
  ASSUME NEW tbl, NEW al, NEW roots, NEW lev, NEW own, Shape(tbl, al, roots, lev, own),
         NEW root \in roots \cup {0}, NEW a \in Nat, NEW at, at[1] = root,
         Follows(tbl, al, a, at)
  PROVE  /\ \A l \in 1 .. Levels : OnLevel(al, lev, own, root, at, l)
         /\ at[Levels + 1] \in Nat
<1> DEFINE T == {n \in Nat : n + 1 <= Levels => OnLevel(al, lev, own, root, at, n + 1)}
<1>1. 0 \in T
  <2>1. 0 + 1 = 1
    BY SMTT(30)
  <2>2. OnLevel(al, lev, own, root, at, 1)
    BY DEF OnLevel, Shape, WellTyped, RootsOnTop
  <2> QED  BY <2>1, <2>2
<1>2. ASSUME NEW n \in Nat, n \in T PROVE n + 1 \in T
  <2> DEFINE l == n + 1
  <2>1. l \in Nat
    BY SMTT(30)
  <2> SUFFICES ASSUME l + 1 <= Levels PROVE OnLevel(al, lev, own, root, at, l + 1)
    BY <2>1
  <2>2. l \in 1 .. Levels /\ l < Levels /\ n + 1 <= Levels
    BY SmallNumbers, SMTT(30)
  <2>3. OnLevel(al, lev, own, root, at, l)
    BY <1>2, <2>2
  <2> HIDE DEF l
  <2>4. CASE at[l] = 0
    BY <2>2, <2>4 DEF OnLevel, Follows
  <2>5. CASE at[l] # 0
    <3>1. at[l] \in al /\ lev[at[l]] = l /\ own[at[l]] = root
      BY <2>3, <2>5 DEF OnLevel
    <3>2. at[l + 1] = tbl[at[l]][Index(a, l)] /\ Index(a, l) \in Slots
      BY <2>2, <2>5, <3>1, IndexIsSlot DEF Follows
    <3>3. CASE tbl[at[l]][Index(a, l)] # 0
      <4>1. Holds(tbl, lev, at[l], Index(a, l))
        BY <2>2, <3>1, <3>3 DEF Holds
      <4>2. LET c == tbl[at[l]][Index(a, l)] IN
            c \in al /\ lev[c] = lev[at[l]] + 1 /\ own[c] = own[at[l]]
        BY <3>1, <3>2, <4>1 DEF Shape, ChildrenBelow
      <4> QED  BY <3>1, <3>2, <4>2 DEF OnLevel
    <3> QED  BY <3>2, <3>3 DEF OnLevel
  <2> QED  BY <2>4, <2>5
<1> HIDE DEF T
<1>3. \A n \in Nat : n \in T
  BY <1>1, <1>2, Induction
<1>4. ASSUME NEW l \in 1 .. Levels PROVE OnLevel(al, lev, own, root, at, l)
  <2>1. l - 1 \in Nat /\ (l - 1) + 1 = l /\ l <= Levels
    BY SmallNumbers, SMTT(30)
  <2> QED  BY <1>3, <2>1 DEF T
<1>5. at[Levels + 1] \in Nat
  <2>1. Levels \in 1 .. Levels /\ Index(a, Levels) \in Slots
    BY SmallNumbers, IndexIsSlot
  <2>2. OnLevel(al, lev, own, root, at, Levels)
    BY <1>4, <2>1
  <2>3. CASE at[Levels] = 0
    BY <2>1, <2>3, SmallNumbers DEF Follows
  <2>4. CASE at[Levels] # 0
    <3>1. at[Levels] \in al
      BY <2>2, <2>4 DEF OnLevel
    <3>2. at[Levels + 1] = tbl[at[Levels]][Index(a, Levels)]
      BY <2>1, <2>4, <3>1 DEF Follows
    <3> QED  BY <2>1, <3>1, <3>2, EntriesAreNumbers DEF Shape
  <2> QED  BY <2>3, <2>4
<1> QED  BY <1>4, <1>5

\* at is the walk from root towards a.
Path(tbl, al, lev, own, root, a, at) ==
  /\ at[1] = root
  /\ \A l \in 1 .. Levels : at[l + 1] = IF at[l] = 0 THEN 0 ELSE tbl[at[l]][Index(a, l)]
  /\ \A l \in 1 .. Levels : OnLevel(al, lev, own, root, at, l)
  /\ at[Levels + 1] \in Nat

\* pte_get_entry() takes such a walk.
LEMMA LookSteps ==
  ASSUME NEW tbl, NEW al, NEW roots, NEW lev, NEW own, Shape(tbl, al, roots, lev, own),
         NEW root \in roots \cup {0}, NEW a \in Nat
  PROVE  Path(tbl, al, lev, own, root, a, Look(tbl, root, a))
<1> DEFINE B(h) == [l \in 1 .. Levels + 1 |->
              IF l = 1 THEN root
              ELSE IF h[l - 1] = 0 THEN 0 ELSE tbl[h[l - 1]][Index(a, l - 1)]]
           F == [n \in Nat |-> [v \in Nat |->
              IF v \in al /\ n + 1 \in 1 .. Levels THEN tbl[v][Index(a, n + 1)] ELSE 0]]
<1>1. ASSUME NEW h, h = B(h)
      PROVE  /\ h[1] = root
             /\ \A l \in 1 .. Levels :
                  h[l + 1] = IF h[l] = 0 THEN 0 ELSE tbl[h[l]][Index(a, l)]
  <2>1. h[1] = root
    <3>1. 1 \in 1 .. Levels + 1
      BY SmallNumbers
    <3> QED  BY <1>1, <3>1
  <2>2. ASSUME NEW l \in 1 .. Levels
        PROVE  h[l + 1] = IF h[l] = 0 THEN 0 ELSE tbl[h[l]][Index(a, l)]
    <3>1. l + 1 \in 1 .. Levels + 1 /\ l + 1 # 1 /\ (l + 1) - 1 = l
      BY SmallNumbers, SMTT(30)
    <3> QED  BY <1>1, <3>1
  <2> QED  BY <2>1, <2>2
<1>2. \E h : h = B(h)
  <2>1. StaysIn(Nat, F)
    <3> SUFFICES ASSUME NEW n \in Nat, NEW v \in Nat PROVE F[n][v] \in Nat
      BY DEF StaysIn
    <3>1. CASE v \in al /\ n + 1 \in 1 .. Levels
      <4>1. Index(a, n + 1) \in Slots
        BY <3>1, IndexIsSlot
      <4>2. tbl[v][Index(a, n + 1)] \in Nat
        BY <3>1, <4>1, EntriesAreNumbers DEF Shape
      <4> QED  BY <3>1, <4>2
    <3>2. CASE ~(v \in al /\ n + 1 \in 1 .. Levels)
      BY <3>2, SMTT(30)
    <3> QED  BY <3>1, <3>2
  <2>2. root \in Nat
    BY SmallNumbers DEF Shape, WellTyped
  <2> HIDE DEF F
  <2>3. PICK g : Runs(g, Nat, root, F)
    BY <2>1, <2>2, Recursion
  <2>4. g \in [Nat -> Nat] /\ g[0] = root /\ \A n \in Nat : g[n + 1] = F[n][g[n]]
    BY <2>3 DEF Runs
  <2> DEFINE h == [l \in 1 .. Levels + 1 |-> g[l - 1]]
  <2>5. h[1] = root
    <3>1. 1 \in 1 .. Levels + 1 /\ 1 - 1 = 0
      BY SmallNumbers, SMTT(30)
    <3> QED  BY <2>4, <3>1
  <2>6. ASSUME NEW l \in 1 .. Levels, h[l] \in al \cup {0}
        PROVE  h[l + 1] = IF h[l] = 0 THEN 0 ELSE tbl[h[l]][Index(a, l)]
    <3>1. /\ l - 1 \in Nat /\ (l - 1) + 1 = l /\ (l + 1) - 1 = l
          /\ l \in 1 .. Levels + 1 /\ l + 1 \in 1 .. Levels + 1
      BY SmallNumbers, SMTT(30)
    <3>2. h[l] = g[l - 1] /\ h[l + 1] = g[l]
      BY <3>1
    <3>3. g[l] = F[l - 1][g[l - 1]]
      BY <2>4, <3>1
    <3>4. h[l] \in Nat /\ 0 \notin al
      BY <2>6, SmallNumbers DEF Shape, WellTyped
    <3> HIDE DEF h
    <3>5. F[l - 1][h[l]] = IF h[l] \in al /\ (l - 1) + 1 \in 1 .. Levels
                           THEN tbl[h[l]][Index(a, (l - 1) + 1)] ELSE 0
      BY <3>1, <3>4 DEF F
    <3>6. h[l + 1] = IF h[l] \in al THEN tbl[h[l]][Index(a, l)] ELSE 0
      BY <3>1, <3>2, <3>3, <3>5
    <3>7. CASE h[l] = 0
      BY <3>4, <3>6, <3>7
    <3>8. CASE h[l] # 0
      BY <2>6, <3>6, <3>8
    <3> QED  BY <3>7, <3>8
  <2> HIDE DEF h
  <2>7. \A l \in 1 .. Levels : OnLevel(al, lev, own, root, h, l)
    <3>1. Follows(tbl, al, a, h)
      BY <2>6 DEF Follows
    <3> QED  BY <2>5, <3>1, WalkStaysInTree
  <2>8. ASSUME NEW l \in 1 .. Levels + 1
        PROVE  h[l] = IF l = 1 THEN root
                      ELSE IF h[l - 1] = 0 THEN 0 ELSE tbl[h[l - 1]][Index(a, l - 1)]
    <3>1. CASE l = 1
      BY <2>5, <3>1
    <3>2. CASE l # 1
      <4>1. l - 1 \in 1 .. Levels /\ (l - 1) + 1 = l
        BY <3>2, SmallNumbers, SMTT(30)
      <4>2. h[l - 1] \in al \cup {0}
        BY <2>7, <4>1 DEF OnLevel
      <4> DEFINE k == l - 1
      <4>3. k \in 1 .. Levels /\ h[k] \in al \cup {0} /\ k + 1 = l
        BY <4>1, <4>2
      <4> HIDE DEF k
      <4>4. h[l] = IF h[k] = 0 THEN 0 ELSE tbl[h[k]][Index(a, k)]
        BY <2>6, <4>3
      <4> QED  BY <3>2, <4>4 DEF k
    <3> QED  BY <3>1, <3>2
  <2>9. h = [l \in 1 .. Levels + 1 |-> h[l]]
    BY DEF h
  <2>10. h = B(h)
    BY <2>8, <2>9
  <2> QED  BY <2>10
<1> DEFINE at == Look(tbl, root, a)
<1>3. at = B(at)
  BY <1>2 DEF Look
<1> HIDE DEF B, at
<1>4. /\ at[1] = root
      /\ \A l \in 1 .. Levels : at[l + 1] = IF at[l] = 0 THEN 0 ELSE tbl[at[l]][Index(a, l)]
  BY <1>1, <1>3
<1>5. /\ \A l \in 1 .. Levels : OnLevel(al, lev, own, root, at, l)
      /\ at[Levels + 1] \in Nat
  <2>1. Follows(tbl, al, a, at)
    BY <1>4 DEF Follows
  <2> QED  BY <1>4, <2>1, WalkStaysInTree
<1>6. Path(tbl, al, lev, own, root, a, at)
  BY <1>4, <1>5 DEF Path
<1> QED  BY <1>6 DEF at

----------------------------------------------------------------------------
(* A new table.  Slot i of the table t, which holds nothing, gets f.       *)

Adds(tbl, al, lev, own, t, i, f, tbl2, lev2, own2) ==
  /\ \A j \in Slots : tbl2[f][j] = 0
  /\ tbl2[t][i] = f
  /\ \A u \in al, j \in Slots : u # t \/ j # i => tbl2[u][j] = tbl[u][j]
  /\ \A u \in al : lev2[u] = lev[u] /\ own2[u] = own[u]
  /\ lev2[f] = lev[t] + 1 /\ own2[f] = own[t]

\* What Down() does to the tables, seen from one slot to the next.
LEMMA NewTableAdds ==
  ASSUME NEW tbl, NEW al, NEW roots, NEW lev, NEW own, WellTyped(tbl, al, roots, lev, own),
         NEW t \in al, lev[t] < Levels, NEW i \in Slots, NEW f \in Table \ al
  PROVE  LET tbl2 == [tbl EXCEPT ![t][i] = f, ![f] = EmptyTable]
             lev2 == [lev EXCEPT ![f] = lev[t] + 1]
             own2 == [own EXCEPT ![f] = own[t]]
         IN  /\ Adds(tbl, al, lev, own, t, i, f, tbl2, lev2, own2)
             /\ WellTyped(tbl2, al \cup {f}, roots, lev2, own2)
<1> DEFINE tbl1 == [tbl EXCEPT ![t][i] = f]
           tbl2 == [tbl EXCEPT ![t][i] = f, ![f] = EmptyTable]
           lev2 == [lev EXCEPT ![f] = lev[t] + 1]
           own2 == [own EXCEPT ![f] = own[t]]
<1>1. /\ tbl \in [Table -> [Slots -> Nat]] /\ al \subseteq Table /\ roots \subseteq al
      /\ lev \in [Table -> 1 .. Levels] /\ own \in [Table -> Table]
  BY DEF WellTyped
<1>2. t \in Table /\ t # f /\ f \in Nat /\ t \in Nat /\ f \in Table
  BY <1>1, SmallNumbers
<1>3. EmptyTable \in [Slots -> Nat] /\ \A j \in Slots : EmptyTable[j] = 0
  BY SmallNumbers DEF EmptyTable
<1>4. tbl1 \in [Table -> [Slots -> Nat]]
  BY <1>1, <1>2, SMTT(30)
<1>5. tbl2 = [tbl1 EXCEPT ![f] = EmptyTable]
  OBVIOUS
<1>6. /\ tbl1[t][i] = f
      /\ \A u \in Table, j \in Slots : u # t \/ j # i => tbl1[u][j] = tbl[u][j]
  BY <1>1, <1>2, SMTT(30)
<1>7. tbl2 \in [Table -> [Slots -> Nat]] /\ tbl2[f] = EmptyTable
      /\ \A u \in Table : u # f => tbl2[u] = tbl1[u]
  <2> HIDE DEF tbl1, tbl2
  <2> QED  BY <1>2, <1>3, <1>4, <1>5, SMTT(30)
<1>8. /\ lev2 \in [Table -> 1 .. Levels] /\ lev2[f] = lev[t] + 1
      /\ \A u \in al : lev2[u] = lev[u]
  BY <1>1, <1>2, SmallNumbers, SMTT(30)
<1>9. /\ own2 \in [Table -> Table] /\ own2[f] = own[t]
      /\ \A u \in al : own2[u] = own[u]
  BY <1>1, <1>2, SMTT(30)
<1> HIDE DEF tbl1, tbl2, lev2, own2
<1>10. Adds(tbl, al, lev, own, t, i, f, tbl2, lev2, own2)
  <2>1. \A u \in al, j \in Slots : u # t \/ j # i => tbl2[u][j] = tbl[u][j]
    BY <1>1, <1>6, <1>7
  <2>2. tbl2[t][i] = f
    BY <1>2, <1>6, <1>7
  <2>3. \A j \in Slots : tbl2[f][j] = 0
    BY <1>3, <1>7
  <2> QED  BY <1>8, <1>9, <2>1, <2>2, <2>3 DEF Adds
<1>11. WellTyped(tbl2, al \cup {f}, roots, lev2, own2)
  <2>1. al \cup {f} \subseteq Table /\ roots \subseteq al \cup {f}
    BY <1>1, <1>2
  <2> QED  BY <1>7, <1>8, <1>9, <2>1 DEF WellTyped
<1> QED  BY <1>10, <1>11 DEF tbl2, lev2, own2

\* The table is a new leaf of the tree of t.
LEMMA NewTableKeepsShape ==
  ASSUME NEW tbl, NEW al, NEW roots, NEW lev, NEW own, Shape(tbl, al, roots, lev, own),
         NEW t \in al, lev[t] < Levels, NEW i \in Slots, tbl[t][i] = 0, NEW f \in Table \ al,
         NEW tbl2, NEW lev2, NEW own2, Adds(tbl, al, lev, own, t, i, f, tbl2, lev2, own2),
         WellTyped(tbl2, al \cup {f}, roots, lev2, own2)
  PROVE  Shape(tbl2, al \cup {f}, roots, lev2, own2)
<1> DEFINE al2 == al \cup {f}
<1>1. f # 0 /\ f \notin al /\ al \subseteq Table /\ roots \subseteq al /\ t # f
  BY SmallNumbers DEF Shape, WellTyped
<1>2. lev[t] \in Nat /\ lev[t] + 1 # 1
  <2>1. lev[t] \in 1 .. Levels
    BY <1>1 DEF Shape, WellTyped
  <2> QED  BY <2>1, SmallNumbers, SMTT(30)
<1>3. RootsOnTop(al2, roots, lev2, own2)
  <2>1. ASSUME NEW r \in roots PROVE lev2[r] = 1 /\ own2[r] = r
    BY <1>1 DEF Shape, RootsOnTop, Adds
  <2>2. ASSUME NEW u \in al2 PROVE own2[u] \in roots /\ (lev2[u] = 1 => u \in roots)
    <3>1. CASE u = f
      BY <1>2, <3>1 DEF Shape, RootsOnTop, Adds
    <3>2. CASE u \in al
      BY <3>2 DEF Shape, RootsOnTop, Adds
    <3> QED  BY <3>1, <3>2
  <2> QED  BY <2>1, <2>2 DEF RootsOnTop
<1>4. ASSUME NEW u \in al2, NEW j \in Slots, Holds(tbl2, lev2, u, j)
      PROVE  \/ u = t /\ j = i /\ tbl2[u][j] = f
             \/ u \in al /\ Holds(tbl, lev, u, j) /\ tbl2[u][j] = tbl[u][j]
                /\ tbl[u][j] \in al /\ lev[tbl[u][j]] = lev[u] + 1 /\ own[tbl[u][j]] = own[u]
  <2>1. u # f
    BY <1>4 DEF Holds, Adds
  <2>2. u \in al /\ lev2[u] = lev[u]
    BY <2>1 DEF Adds
  <2>3. CASE u = t /\ j = i
    BY <2>3 DEF Adds
  <2>4. CASE u # t \/ j # i
    <3>1. tbl2[u][j] = tbl[u][j]
      BY <2>2, <2>4 DEF Adds
    <3>2. Holds(tbl, lev, u, j)
      BY <1>4, <2>2, <3>1 DEF Holds
    <3> QED  BY <2>2, <3>1, <3>2 DEF Shape, ChildrenBelow
  <2> QED  BY <2>3, <2>4
<1>5. ChildrenBelow(tbl2, al2, lev2, own2)
  <2> SUFFICES ASSUME NEW u \in al2, NEW j \in Slots, Holds(tbl2, lev2, u, j)
               PROVE  LET c == tbl2[u][j] IN c \in al2 /\ lev2[c] = lev2[u] + 1 /\ own2[c] = own2[u]
    BY DEF ChildrenBelow
  <2> DEFINE c == tbl2[u][j]
  <2>1. CASE u = t /\ j = i /\ tbl2[u][j] = f
    BY <1>1, <2>1 DEF Adds
  <2>2. CASE /\ u \in al /\ tbl2[u][j] = tbl[u][j]
             /\ tbl[u][j] \in al /\ lev[tbl[u][j]] = lev[u] + 1 /\ own[tbl[u][j]] = own[u]
    <3>1. c \in al /\ lev[c] = lev[u] + 1 /\ own[c] = own[u]
      BY <2>2
    <3> QED  BY <2>2, <3>1 DEF Adds
  <2> QED  BY <1>4, <2>1, <2>2
<1>6. OneParent(tbl2, al2, lev2)
  <2> SUFFICES ASSUME NEW u \in al2, NEW v \in al2, NEW j \in Slots, NEW k \in Slots,
                      Holds(tbl2, lev2, u, j), Holds(tbl2, lev2, v, k), tbl2[u][j] = tbl2[v][k]
               PROVE  u = v /\ j = k
    BY DEF OneParent
  <2>1. CASE tbl2[u][j] = f
    <3>1. u = t /\ j = i
      BY <1>1, <1>4, <2>1
    <3>2. tbl2[v][k] = f
      BY <2>1
    <3>3. v = t /\ k = i
      BY <1>1, <1>4, <3>2
    <3> QED  BY <3>1, <3>3
  <2>2. CASE tbl2[u][j] # f
    <3>1. /\ u \in al /\ Holds(tbl, lev, u, j) /\ tbl2[u][j] = tbl[u][j]
          /\ v \in al /\ Holds(tbl, lev, v, k) /\ tbl2[v][k] = tbl[v][k]
      BY <1>4, <2>2
    <3>2. tbl[u][j] = tbl[v][k]
      BY <3>1
    <3> QED  BY <3>1, <3>2 DEF Shape, OneParent
  <2> QED  BY <2>1, <2>2
<1>7. HaveParents(tbl2, al2, roots, lev2)
  <2> SUFFICES ASSUME NEW c \in al2 \ roots
               PROVE  \E u \in al2, j \in Slots : Holds(tbl2, lev2, u, j) /\ tbl2[u][j] = c
    BY DEF HaveParents
  <2>1. CASE c = f
    <3>1. Holds(tbl2, lev2, t, i) /\ tbl2[t][i] = f
      BY <1>1 DEF Adds, Holds
    <3> QED  BY <2>1, <3>1
  <2>2. CASE c \in al
    <3>1. PICK u \in al, j \in Slots : Holds(tbl, lev, u, j) /\ tbl[u][j] = c
      BY <2>2 DEF Shape, HaveParents
    <3>2. u # t \/ j # i
      BY <3>1 DEF Holds
    <3>3. tbl2[u][j] = tbl[u][j] /\ lev2[u] = lev[u]
      BY <3>2 DEF Adds
    <3>4. Holds(tbl2, lev2, u, j) /\ tbl2[u][j] = c
      BY <3>1, <3>3 DEF Holds
    <3> QED  BY <3>4
  <2> QED  BY <2>1, <2>2
<1> QED  BY <1>3, <1>5, <1>6, <1>7 DEF Shape

\* Where two walks are after the table f was added: a walk that failed may now find
\* the new table, and nothing in it.
OldOrNew(at, bt, f, l) == bt[l] = at[l] \/ (at[l] = 0 /\ bt[l] = f)

OldOrNewPath(tbl, tbl2, f, root, a) ==
  /\ \A l \in 1 .. Levels : OldOrNew(Look(tbl, root, a), Look(tbl2, root, a), f, l)
  /\ Look(tbl2, root, a)[Levels + 1] = Look(tbl, root, a)[Levels + 1]

\* A new table gives no page an entry and takes none away.
LEMMA NewTableKeepsEntries ==
  ASSUME NEW tbl, NEW al, NEW roots, NEW lev, NEW own, Shape(tbl, al, roots, lev, own),
         NEW t \in al, lev[t] < Levels, NEW i \in Slots, tbl[t][i] = 0, NEW f \in Table \ al,
         NEW tbl2, NEW lev2, NEW own2, Adds(tbl, al, lev, own, t, i, f, tbl2, lev2, own2),
         Shape(tbl2, al \cup {f}, roots, lev2, own2),
         NEW root \in roots \cup {0}, NEW a \in Nat
  PROVE  OldOrNewPath(tbl, tbl2, f, root, a)
<1> DEFINE at == Look(tbl, root, a)
           bt == Look(tbl2, root, a)
           T  == {n \in Nat : n + 1 <= Levels => OldOrNew(at, bt, f, n + 1)}
<1>p. Path(tbl, al, lev, own, root, a, at) /\ Path(tbl2, al \cup {f}, lev2, own2, root, a, bt)
  BY LookSteps
<1>3. f # 0 /\ f \notin al
  BY SmallNumbers
<1> HIDE DEF at, bt
<1>1. /\ at[1] = root
      /\ \A l \in 1 .. Levels : at[l + 1] = IF at[l] = 0 THEN 0 ELSE tbl[at[l]][Index(a, l)]
      /\ \A l \in 1 .. Levels : OnLevel(al, lev, own, root, at, l)
  BY <1>p DEF Path
<1>2. /\ bt[1] = root
      /\ \A l \in 1 .. Levels : bt[l + 1] = IF bt[l] = 0 THEN 0 ELSE tbl2[bt[l]][Index(a, l)]
  BY <1>p DEF Path
<1>4. ASSUME NEW l \in 1 .. Levels, OldOrNew(at, bt, f, l)
      PROVE  \/ bt[l + 1] = at[l + 1]
             \/ at[l] = t /\ at[l + 1] = 0 /\ bt[l + 1] = f
  <2>1. Index(a, l) \in Slots
    BY IndexIsSlot
  <2>2. CASE at[l] = 0 /\ bt[l] = 0
    BY <1>1, <1>2, <2>2
  <2>3. CASE at[l] = 0 /\ bt[l] = f
    <3>1. at[l + 1] = 0 /\ bt[l + 1] = tbl2[f][Index(a, l)]
      BY <1>1, <1>2, <1>3, <2>3
    <3> QED  BY <2>1, <3>1 DEF Adds
  <2>4. CASE at[l] # 0 /\ bt[l] = at[l]
    <3>1. at[l] \in al
      BY <1>1, <2>4 DEF OnLevel
    <3>2. at[l + 1] = tbl[at[l]][Index(a, l)] /\ bt[l + 1] = tbl2[at[l]][Index(a, l)]
      BY <1>1, <1>2, <2>4
    <3>3. CASE at[l] = t /\ Index(a, l) = i
      BY <3>2, <3>3 DEF Adds
    <3>4. CASE ~(at[l] = t /\ Index(a, l) = i)
      BY <2>1, <3>1, <3>2, <3>4 DEF Adds
    <3> QED  BY <3>3, <3>4
  <2> QED  BY <1>4, <2>2, <2>3, <2>4 DEF OldOrNew
<1>5. 0 \in T
  <2>1. 0 + 1 = 1
    BY SMTT(30)
  <2> QED  BY <1>1, <1>2, <2>1, SmallNumbers DEF OldOrNew
<1>6. ASSUME NEW n \in Nat, n \in T PROVE n + 1 \in T
  <2> DEFINE l == n + 1
  <2>1. l \in Nat
    BY SMTT(30)
  <2> SUFFICES ASSUME l + 1 <= Levels PROVE OldOrNew(at, bt, f, l + 1)
    BY <2>1
  <2>2. l \in 1 .. Levels /\ n + 1 <= Levels
    BY SmallNumbers, SMTT(30)
  <2>3. OldOrNew(at, bt, f, l)
    BY <1>6, <2>2
  <2> HIDE DEF l
  <2> QED  BY <1>4, <2>2, <2>3 DEF OldOrNew
<1> HIDE DEF T
<1>7. \A n \in Nat : n \in T
  BY <1>5, <1>6, Induction
<1>8. ASSUME NEW l \in 1 .. Levels PROVE OldOrNew(at, bt, f, l)
  <2>1. l - 1 \in Nat /\ (l - 1) + 1 = l /\ l <= Levels
    BY SmallNumbers, SMTT(30)
  <2> QED  BY <1>7, <2>1 DEF T
<1>9. bt[Levels + 1] = at[Levels + 1]
  <2>1. Levels \in 1 .. Levels
    BY SmallNumbers
  <2>2. at[Levels] # t
    <3>1. SUFFICES ASSUME at[Levels] = t PROVE FALSE
      OBVIOUS
    <3>2. t # 0 /\ t \in Table
      BY SmallNumbers DEF Shape, WellTyped
    <3>3. lev[t] = Levels
      BY <1>1, <2>1, <3>1, <3>2 DEF OnLevel
    <3> QED  BY <3>3, SmallNumbers, SMTT(30)
  <2> QED  BY <1>4, <1>8, <2>1, <2>2
<1> QED  BY <1>8, <1>9 DEF at, bt, OldOrNewPath

----------------------------------------------------------------------------
(* A walk that creates what is missing.                                    *)

\* The tables are trees from these roots.
Trees(tbl, al, roots) == \E lev, own : Shape(tbl, al, roots, lev, own)

SameEntries(tbl, tbl2, roots) ==
  \A root \in roots \cup {0}, a \in Nat :
    Look(tbl2, root, a)[Levels + 1] = Look(tbl, root, a)[Levels + 1]

Walking(t, u, s) == [tables |-> t, alloc |-> u, at |-> s]

\* The walk w from root towards a, begun in tbl, is at level l or has run out of
\* memory.  What it created holds no entries.
Good(tbl, roots, root, a, w, l) ==
  \E tbl2, al2, t2 :
    /\ w = Walking(tbl2, al2, t2)
    /\ Trees(tbl2, al2, roots) /\ SameEntries(tbl, tbl2, roots)
    /\ t2 = 0 \/ t2 = Look(tbl2, root, a)[l]

\* malloc() finds a table while there is one.
LEMMA FreshIsFree ==
  ASSUME NEW al, al \subseteq Table, al # Table
  PROVE  Fresh(al) \in Table \ al
<1>1. Table \ al # {} /\ Table \ al \subseteq Nat
  BY SmallNumbers
<1>2. PICK t \in Table \ al : \A u \in Table \ al : t <= u
  BY <1>1, LeastElement
<1> QED  BY <1>2 DEF Fresh

\* One level down.
LEMMA DownIsGood ==
  ASSUME NEW tbl, NEW roots, NEW root \in roots, NEW a \in Nat, NEW w, NEW l \in 1 .. Levels - 1,
         Good(tbl, roots, root, a, w, l)
  PROVE  Good(tbl, roots, root, a, Down(w, Index(a, l)), l + 1)
<1>1. PICK tb, al, t : /\ w = Walking(tb, al, t)
                       /\ Trees(tb, al, roots) /\ SameEntries(tbl, tb, roots)
                       /\ t = 0 \/ t = Look(tb, root, a)[l]
  BY DEF Good
<1>2. PICK lev, own : Shape(tb, al, roots, lev, own)
  BY <1>1 DEF Trees
<1> DEFINE i == Index(a, l)
           at == Look(tb, root, a)
<1>3. l \in 1 .. Levels /\ l < Levels /\ i \in Slots
  <2>1. l \in 1 .. Levels /\ l < Levels
    BY SmallNumbers, SMTT(30)
  <2> QED  BY <2>1, IndexIsSlot
<1>4. w.tables = tb /\ w.alloc = al /\ w.at = t /\ \A s : [w EXCEPT !.at = s] = Walking(tb, al, s)
  BY <1>1, SMTT(30) DEF Walking
<1>5. CASE t = 0
  <2>1. Down(w, i) = w
    BY <1>4, <1>5 DEF Down
  <2> HIDE DEF i
  <2> QED  BY <1>1, <1>5, <2>1 DEF Good, i
<1>6. CASE t # 0
  <2>p. Path(tb, al, lev, own, root, a, at)
    BY <1>2, LookSteps
  <2>2. at[l] = t
    BY <1>1, <1>6
  <2> HIDE DEF at
  <2>1. /\ at[l + 1] = IF at[l] = 0 THEN 0 ELSE tb[at[l]][Index(a, l)]
        /\ OnLevel(al, lev, own, root, at, l)
    BY <2>p, <1>3 DEF Path
  <2>3. t \in al /\ lev[t] = l /\ lev[t] < Levels /\ at[l + 1] = tb[t][i]
    BY <1>3, <1>6, <2>1, <2>2 DEF OnLevel
  <2> HIDE DEF i
  <2>4. CASE tb[t][i] # 0
    <3>1. Down(w, i) = Walking(tb, al, at[l + 1])
      BY <1>4, <1>6, <2>3, <2>4 DEF Down
    <3> QED  BY <1>1, <3>1 DEF Good, at, i
  <2>5. CASE tb[t][i] = 0 /\ al = Table
    <3>1. Down(w, i) = Walking(tb, al, 0)
      BY <1>4, <1>6, <2>3, <2>5 DEF Down
    <3> QED  BY <1>1, <3>1 DEF Good, i
  <2>6. CASE tb[t][i] = 0 /\ al # Table
    <3> DEFINE f    == Fresh(al)
               tbl2 == [tb EXCEPT ![t][i] = f, ![f] = EmptyTable]
               lev2 == [lev EXCEPT ![f] = lev[t] + 1]
               own2 == [own EXCEPT ![f] = own[t]]
               bt   == Look(tbl2, root, a)
    <3>1. f \in Table \ al
      BY <1>2, <2>6, FreshIsFree DEF Shape, WellTyped
    <3>2. Down(w, i) = Walking(tbl2, al \cup {f}, f)
      BY <1>4, <1>6, <2>3, <2>6 DEF Down, Walking
    <3> HIDE DEF f
    <3>3. /\ Adds(tb, al, lev, own, t, i, f, tbl2, lev2, own2)
          /\ WellTyped(tbl2, al \cup {f}, roots, lev2, own2)
      BY <1>2, <1>3, <2>3, <3>1, NewTableAdds DEF Shape
    <3> HIDE DEF tbl2, lev2, own2
    <3>4. Shape(tbl2, al \cup {f}, roots, lev2, own2)
      BY <1>2, <1>3, <2>3, <2>6, <3>1, <3>3, NewTableKeepsShape
    <3>5. ASSUME NEW r \in roots \cup {0}, NEW b \in Nat
          PROVE  OldOrNewPath(tb, tbl2, f, r, b)
      <4>1. tb[t][i] = 0
        BY <2>6
      <4> QED  BY <1>2, <1>3, <2>3, <3>1, <3>3, <3>4, <4>1, NewTableKeepsEntries
    <3>6. SameEntries(tbl, tbl2, roots)
      BY <1>1, <3>5 DEF SameEntries, OldOrNewPath
    <3>7. bt[l] = t
      <4>1. OldOrNew(at, bt, f, l)
        BY <1>3, <3>5 DEF at, OldOrNewPath
      <4> QED  BY <1>6, <2>2, <4>1 DEF OldOrNew
    <3>8. bt[l + 1] = f
      <4>2. Path(tbl2, al \cup {f}, lev2, own2, root, a, bt)
        BY <3>4, LookSteps
      <4> HIDE DEF bt
      <4>1. bt[l + 1] = IF bt[l] = 0 THEN 0 ELSE tbl2[bt[l]][Index(a, l)]
        BY <1>3, <4>2 DEF Path
      <4> QED  BY <1>6, <3>3, <3>7, <4>1 DEF Adds, i
    <3>9. Trees(tbl2, al \cup {f}, roots)
      BY <3>4 DEF Trees
    <3> QED  BY <3>2, <3>6, <3>8, <3>9 DEF Good, i
  <2> QED  BY <2>4, <2>5, <2>6
<1> QED  BY <1>5, <1>6

\* Of what the walk carries, the records its steps stay in.
WalkSet == [tables : [Table -> [Slots -> Nat]], alloc : SUBSET Table, at : Nat]

\* What walk_pte() carries is such a record.
LEMMA GoodWalkInSet ==
  ASSUME NEW tbl, NEW roots, NEW root \in roots, NEW a \in Nat, NEW w, NEW l \in 1 .. Levels,
         Good(tbl, roots, root, a, w, l)
  PROVE  w \in WalkSet
<1>1. PICK tb, al, t : /\ w = Walking(tb, al, t)
                       /\ Trees(tb, al, roots)
                       /\ t = 0 \/ t = Look(tb, root, a)[l]
  BY DEF Good
<1>2. PICK lev, own : Shape(tb, al, roots, lev, own)
  BY <1>1 DEF Trees
<1>3. tb \in [Table -> [Slots -> Nat]] /\ al \in SUBSET Table
  BY <1>2 DEF Shape, WellTyped
<1>4. t \in Nat
  <2> DEFINE at == Look(tb, root, a)
  <2>1. Path(tb, al, lev, own, root, a, at)
    BY <1>2, LookSteps
  <2> HIDE DEF at
  <2>2. at[l] = 0 \/ at[l] \in al
    BY <2>1 DEF Path, OnLevel
  <2>3. t = 0 \/ t \in al
    BY <1>1, <2>2 DEF at
  <2> QED  BY <1>3, <2>3, SmallNumbers
<1> QED  BY <1>1, <1>3, <1>4, SMTT(30) DEF Walking, WalkSet

\* walk_pte() with creation ends at the table of the last level.
LEMMA WalkIsGood ==
  ASSUME NEW tbl, NEW al, NEW roots, Trees(tbl, al, roots), NEW root \in roots, NEW a \in Nat
  PROVE  Good(tbl, roots, root, a, walk_pte(root, tbl, al, a), Levels)
<1> DEFINE w0   == Walking(tbl, al, root)
           B(h) == [l \in 1 .. Levels |->
              IF l = 1 THEN w0 ELSE Down(h[l - 1], Index(a, l - 1))]
           F == [n \in Nat |-> [w \in WalkSet |->
              IF Down(w, Index(a, n + 1)) \in WalkSet THEN Down(w, Index(a, n + 1)) ELSE w]]
<1>1. Good(tbl, roots, root, a, w0, 1)
  <2>1. PICK lev, own : Shape(tbl, al, roots, lev, own)
    BY DEF Trees
  <2>2. Look(tbl, root, a)[1] = root
    <3>1. Path(tbl, al, lev, own, root, a, Look(tbl, root, a))
      BY <2>1, LookSteps
    <3> QED  BY <3>1 DEF Path
  <2> QED  BY <2>2 DEF Good, SameEntries
<1> HIDE DEF w0
<1>2. ASSUME NEW h, h[1] = w0,
             \A l \in 1 .. Levels - 1 :
               Good(tbl, roots, root, a, h[l], l) => h[l + 1] = Down(h[l], Index(a, l))
      PROVE  \A l \in 1 .. Levels : Good(tbl, roots, root, a, h[l], l)
  <2> DEFINE T == {n \in Nat : n + 1 <= Levels => Good(tbl, roots, root, a, h[n + 1], n + 1)}
  <2>1. 0 \in T
    <3>1. 0 + 1 = 1
      BY SMTT(30)
    <3> QED  BY <1>1, <1>2, <3>1, SmallNumbers
  <2>2. ASSUME NEW n \in Nat, n \in T PROVE n + 1 \in T
    <3> DEFINE l == n + 1
    <3>1. l \in Nat
      BY SMTT(30)
    <3> SUFFICES ASSUME l + 1 <= Levels PROVE Good(tbl, roots, root, a, h[l + 1], l + 1)
      BY <3>1
    <3>2. l \in 1 .. Levels - 1 /\ n + 1 <= Levels
      BY SmallNumbers, SMTT(30)
    <3>3. Good(tbl, roots, root, a, h[l], l)
      BY <2>2, <3>2
    <3> HIDE DEF l
    <3>4. h[l + 1] = Down(h[l], Index(a, l))
      BY <1>2, <3>2, <3>3
    <3>5. Good(tbl, roots, root, a, Down(h[l], Index(a, l)), l + 1)
      BY <3>2, <3>3, DownIsGood
    <3> QED  BY <3>4, <3>5
  <2> HIDE DEF T
  <2>3. \A n \in Nat : n \in T
    BY <2>1, <2>2, Induction
  <2>4. ASSUME NEW l \in 1 .. Levels PROVE Good(tbl, roots, root, a, h[l], l)
    <3>1. l - 1 \in Nat /\ (l - 1) + 1 = l /\ l <= Levels
      BY SmallNumbers, SMTT(30)
    <3> QED  BY <2>3, <3>1 DEF T
  <2> QED  BY <2>4
<1>3. \E h : h = B(h)
  <2>1. StaysIn(WalkSet, F)
    BY DEF StaysIn
  <2>2. w0 \in WalkSet
    BY <1>1, GoodWalkInSet, SmallNumbers
  <2> HIDE DEF F
  <2>3. PICK g : Runs(g, WalkSet, w0, F)
    BY <2>1, <2>2, Recursion
  <2>4. g \in [Nat -> WalkSet] /\ g[0] = w0 /\ \A n \in Nat : g[n + 1] = F[n][g[n]]
    BY <2>3 DEF Runs
  <2> DEFINE h == [l \in 1 .. Levels |-> g[l - 1]]
  <2>5. h[1] = w0
    <3>1. 1 \in 1 .. Levels /\ 1 - 1 = 0
      BY SmallNumbers, SMTT(30)
    <3> QED  BY <2>4, <3>1
  <2>6. ASSUME NEW l \in 1 .. Levels - 1, Good(tbl, roots, root, a, h[l], l)
        PROVE  h[l + 1] = Down(h[l], Index(a, l))
    <3>1. /\ l - 1 \in Nat /\ (l - 1) + 1 = l /\ (l + 1) - 1 = l
          /\ l \in 1 .. Levels /\ l + 1 \in 1 .. Levels
      BY SmallNumbers, SMTT(30)
    <3>2. h[l] = g[l - 1] /\ h[l + 1] = g[l]
      BY <3>1
    <3>3. g[l] = F[l - 1][g[l - 1]]
      BY <2>4, <3>1
    <3> HIDE DEF h
    <3>4. h[l] \in WalkSet
      BY <2>6, <3>1, GoodWalkInSet
    <3>5. Good(tbl, roots, root, a, Down(h[l], Index(a, l)), l + 1)
      BY <2>6, DownIsGood
    <3>6. Down(h[l], Index(a, l)) \in WalkSet
      BY <3>1, <3>5, GoodWalkInSet
    <3>7. F[l - 1][h[l]] = Down(h[l], Index(a, l))
      <4> DEFINE k == l - 1
      <4>1. k \in Nat /\ k + 1 = l
        BY <3>1
      <4> HIDE DEF k
      <4>2. F[k][h[l]] = Down(h[l], Index(a, l))
        BY <3>4, <3>6, <4>1 DEF F
      <4> QED  BY <4>2 DEF k
    <3> QED  BY <3>2, <3>3, <3>7
  <2> HIDE DEF h
  <2>7. \A l \in 1 .. Levels : Good(tbl, roots, root, a, h[l], l)
    BY <1>2, <2>5, <2>6
  <2>8. ASSUME NEW l \in 1 .. Levels
        PROVE  h[l] = IF l = 1 THEN w0 ELSE Down(h[l - 1], Index(a, l - 1))
    <3>1. CASE l = 1
      BY <2>5, <3>1
    <3>2. CASE l # 1
      <4> DEFINE k == l - 1
      <4>1. k \in 1 .. Levels - 1 /\ k \in 1 .. Levels /\ k + 1 = l
        BY <3>2, SmallNumbers, SMTT(30)
      <4> HIDE DEF k
      <4>2. h[l] = Down(h[k], Index(a, k))
        BY <2>6, <2>7, <4>1
      <4> QED  BY <3>2, <4>2 DEF k
    <3> QED  BY <3>1, <3>2
  <2>9. h = [l \in 1 .. Levels |-> h[l]]
    BY DEF h
  <2>10. h = B(h)
    BY <2>8, <2>9
  <2> QED  BY <2>10
<1> DEFINE walk == CHOOSE h : h = B(h)
<1>4. walk = B(walk)
  BY <1>3
<1>5. walk_pte(root, tbl, al, a) = walk[Levels]
  BY DEF walk_pte, w0, Walking
<1> HIDE DEF walk
<1>6. walk[1] = w0
  BY <1>4, SmallNumbers
<1>7. ASSUME NEW l \in 1 .. Levels - 1 PROVE walk[l + 1] = Down(walk[l], Index(a, l))
  <2>1. l + 1 \in 1 .. Levels /\ l + 1 # 1 /\ (l + 1) - 1 = l
    BY SmallNumbers, SMTT(30)
  <2> QED  BY <1>4, <2>1
<1> HIDE DEF B
<1>8. \A l \in 1 .. Levels : Good(tbl, roots, root, a, walk[l], l)
  BY <1>2, <1>6, <1>7
<1> QED  BY <1>5, <1>8, SmallNumbers

----------------------------------------------------------------------------
(* Walks that meet.                                                        *)

UpperIndices(a, b) == \A l \in 1 .. Levels - 1 : Index(a, l) = Index(b, l)

SameIndices(a, b) == \A l \in 1 .. Levels : Index(a, l) = Index(b, l)

Meet(at, bt, l) == at[l] = bt[l] /\ at[l] # 0

AllMeet(at, bt) == \A l \in 1 .. Levels : at[l] = bt[l]

SameStart(r, s, a, b) == r = s /\ UpperIndices(a, b)

\* Two walks that end at the same table have come the same way.
LEMMA SameWay ==
  ASSUME NEW tbl, NEW al, NEW roots, NEW lev, NEW own, Shape(tbl, al, roots, lev, own),
         NEW r, NEW s, NEW a \in Nat, NEW b \in Nat, NEW at, NEW bt,
         Path(tbl, al, lev, own, r, a, at), Path(tbl, al, lev, own, s, b, bt),
         Meet(at, bt, Levels)
  PROVE  SameStart(r, s, a, b)
<1> DEFINE T == {n \in Nat : n + 1 <= Levels => Meet(at, bt, Levels - n)}
<1>1. \A l \in 1 .. Levels :
        /\ at[l + 1] = IF at[l] = 0 THEN 0 ELSE tbl[at[l]][Index(a, l)]
        /\ bt[l + 1] = IF bt[l] = 0 THEN 0 ELSE tbl[bt[l]][Index(b, l)]
  BY DEF Path
<1>2. \A l \in 1 .. Levels : OnLevel(al, lev, own, r, at, l) /\ OnLevel(al, lev, own, s, bt, l)
  BY DEF Path
<1>3. r = s
  <2>1. OnLevel(al, lev, own, r, at, Levels) /\ OnLevel(al, lev, own, s, bt, Levels)
    BY <1>2, SmallNumbers
  <2> QED  BY <2>1 DEF OnLevel, Meet
<1>4. ASSUME NEW l \in 1 .. Levels - 1, Meet(at, bt, l + 1)
      PROVE  Meet(at, bt, l) /\ Index(a, l) = Index(b, l)
  <2>1. l \in 1 .. Levels /\ l < Levels
    BY SmallNumbers, SMTT(30)
  <2>2. Index(a, l) \in Slots /\ Index(b, l) \in Slots
    BY <2>1, IndexIsSlot
  <2>3. at[l] # 0 /\ bt[l] # 0
    BY <1>1, <1>4, <2>1 DEF Meet
  <2>4. at[l + 1] = tbl[at[l]][Index(a, l)] /\ bt[l + 1] = tbl[bt[l]][Index(b, l)]
    BY <1>1, <2>1, <2>3
  <2>5. at[l] \in al /\ lev[at[l]] = l /\ bt[l] \in al /\ lev[bt[l]] = l
    BY <1>2, <2>1, <2>3 DEF OnLevel
  <2>6. Holds(tbl, lev, at[l], Index(a, l)) /\ Holds(tbl, lev, bt[l], Index(b, l))
    BY <1>4, <2>1, <2>4, <2>5 DEF Holds, Meet
  <2>7. tbl[at[l]][Index(a, l)] = tbl[bt[l]][Index(b, l)]
    BY <1>4, <2>4 DEF Meet
  <2>8. OneParent(tbl, al, lev)
    BY DEF Shape
  <2>9. at[l] = bt[l] /\ Index(a, l) = Index(b, l)
    BY <2>2, <2>5, <2>6, <2>7, <2>8 DEF OneParent
  <2> QED  BY <2>3, <2>9 DEF Meet
<1>5. 0 \in T
  <2>1. Levels - 0 = Levels
    BY SmallNumbers, SMTT(30)
  <2> QED  BY <2>1, SmallNumbers
<1>6. ASSUME NEW n \in Nat, n \in T PROVE n + 1 \in T
  <2>1. n + 1 \in Nat
    BY SMTT(30)
  <2> SUFFICES ASSUME (n + 1) + 1 <= Levels PROVE Meet(at, bt, Levels - (n + 1))
    BY <2>1
  <2> DEFINE l == Levels - (n + 1)
  <2>2. l \in 1 .. Levels - 1 /\ Levels - n = l + 1 /\ n + 1 <= Levels
    BY SmallNumbers, SMTT(30)
  <2>3. Meet(at, bt, l + 1)
    BY <1>6, <2>2
  <2> HIDE DEF l
  <2>4. Meet(at, bt, l)
    BY <1>4, <2>2, <2>3
  <2> QED  BY <2>4 DEF l
<1> HIDE DEF T
<1>7. \A n \in Nat : n \in T
  BY <1>5, <1>6, Induction
<1>8. ASSUME NEW l \in 1 .. Levels - 1 PROVE Index(a, l) = Index(b, l)
  <2> DEFINE n == Levels - (l + 1)
  <2>1. n \in Nat /\ n + 1 <= Levels /\ Levels - n = l + 1
    BY SmallNumbers, SMTT(30)
  <2> HIDE DEF n
  <2>2. Meet(at, bt, Levels - n)
    BY <1>7, <2>1 DEF T
  <2>3. Meet(at, bt, l + 1)
    BY <2>1, <2>2
  <2> QED  BY <1>4, <2>3
<1> QED  BY <1>3, <1>8 DEF UpperIndices, SameStart

\* The same in all tables but those of the last level.
SameInner(tbl, tbl2, al, lev) ==
  \A t \in al, i \in Slots : lev[t] < Levels => tbl2[t][i] = tbl[t][i]

\* Walks by the same indices from the same root go the same way.
LEMMA SameIndicesSameWay ==
  ASSUME NEW tbl, NEW tbl2, NEW al, NEW lev, NEW own, NEW al2, NEW lev2, NEW own2,
         NEW r, NEW a \in Nat, NEW b \in Nat, NEW at, NEW bt,
         Path(tbl, al, lev, own, r, a, at), Path(tbl2, al2, lev2, own2, r, b, bt),
         UpperIndices(a, b), SameInner(tbl, tbl2, al, lev)
  PROVE  AllMeet(at, bt)
<1> DEFINE T == {n \in Nat : n + 1 <= Levels => at[n + 1] = bt[n + 1]}
<1>1. \A l \in 1 .. Levels :
        /\ at[l + 1] = IF at[l] = 0 THEN 0 ELSE tbl[at[l]][Index(a, l)]
        /\ bt[l + 1] = IF bt[l] = 0 THEN 0 ELSE tbl2[bt[l]][Index(b, l)]
  BY DEF Path
<1>2. \A l \in 1 .. Levels : OnLevel(al, lev, own, r, at, l)
  BY DEF Path
<1>3. 0 \in T
  <2>1. 0 + 1 = 1
    BY SMTT(30)
  <2> QED  BY <2>1, SmallNumbers DEF Path
<1>4. ASSUME NEW n \in Nat, n \in T PROVE n + 1 \in T
  <2> DEFINE l == n + 1
  <2>1. l \in Nat
    BY SMTT(30)
  <2> SUFFICES ASSUME l + 1 <= Levels PROVE at[l + 1] = bt[l + 1]
    BY <2>1
  <2>2. l \in 1 .. Levels - 1 /\ l \in 1 .. Levels /\ l < Levels /\ n + 1 <= Levels
    BY SmallNumbers, SMTT(30)
  <2>3. at[l] = bt[l]
    BY <1>4, <2>2
  <2> HIDE DEF l
  <2>4. CASE at[l] = 0
    BY <1>1, <2>2, <2>3, <2>4
  <2>5. CASE at[l] # 0
    <3>1. at[l] \in al /\ lev[at[l]] < Levels
      BY <1>2, <2>2, <2>5 DEF OnLevel
    <3>2. Index(a, l) = Index(b, l) /\ Index(a, l) \in Slots
      BY <2>2, IndexIsSlot DEF UpperIndices
    <3>3. tbl2[at[l]][Index(a, l)] = tbl[at[l]][Index(a, l)]
      BY <3>1, <3>2 DEF SameInner
    <3> QED  BY <1>1, <2>2, <2>3, <2>5, <3>2, <3>3
  <2> QED  BY <2>4, <2>5
<1> HIDE DEF T
<1>5. \A n \in Nat : n \in T
  BY <1>3, <1>4, Induction
<1>6. ASSUME NEW l \in 1 .. Levels PROVE at[l] = bt[l]
  <2>1. l - 1 \in Nat /\ (l - 1) + 1 = l /\ l <= Levels
    BY SmallNumbers, SMTT(30)
  <2> QED  BY <1>5, <2>1 DEF T
<1> QED  BY <1>6 DEF AllMeet

----------------------------------------------------------------------------
(* A store at the end of a walk.                                           *)

\* The walk by b from s finds v if it is the walk by a from root, and what it found
\* before if not.
OneEntry(tbl, tbl2, root, a, v, s, b) ==
  Look(tbl2, s, b)[Levels + 1] =
    IF s = root /\ SameIndices(a, b) THEN v ELSE Look(tbl, s, b)[Levels + 1]

\* Slot i of t becomes v.
Stores(tbl, tbl2, al, t, i, v) ==
  /\ tbl2[t][i] = v
  /\ \A u \in al, j \in Slots : u # t \/ j # i => tbl2[u][j] = tbl[u][j]

\* What changes in tables of the last level only keeps the trees.
LEMMA LeavesKeepShape ==
  ASSUME NEW tbl, NEW al, NEW roots, NEW lev, NEW own, Shape(tbl, al, roots, lev, own),
         NEW tbl2 \in [Table -> [Slots -> Nat]], SameInner(tbl, tbl2, al, lev)
  PROVE  Shape(tbl2, al, roots, lev, own)
<1>4. ASSUME NEW u \in al, NEW j \in Slots, lev[u] < Levels PROVE tbl2[u][j] = tbl[u][j]
  BY <1>4 DEF SameInner
<1>5. ASSUME NEW u \in al, NEW j \in Slots PROVE Holds(tbl2, lev, u, j) <=> Holds(tbl, lev, u, j)
  BY <1>4 DEF Holds
<1>6. WellTyped(tbl2, al, roots, lev, own) /\ RootsOnTop(al, roots, lev, own)
  BY DEF Shape, WellTyped
<1>7. ChildrenBelow(tbl2, al, lev, own)
  <2>1. ASSUME NEW u \in al, NEW j \in Slots, Holds(tbl2, lev, u, j)
        PROVE  LET c == tbl2[u][j] IN c \in al /\ lev[c] = lev[u] + 1 /\ own[c] = own[u]
    <3>1. Holds(tbl, lev, u, j) /\ tbl2[u][j] = tbl[u][j]
      BY <1>4, <2>1, <1>5 DEF Holds
    <3> QED  BY <3>1 DEF Shape, ChildrenBelow
  <2> QED  BY <2>1 DEF ChildrenBelow
<1>8. OneParent(tbl2, al, lev)
  <2> SUFFICES ASSUME NEW u \in al, NEW w \in al, NEW j \in Slots, NEW k \in Slots,
                      Holds(tbl2, lev, u, j), Holds(tbl2, lev, w, k), tbl2[u][j] = tbl2[w][k]
               PROVE  u = w /\ j = k
    BY DEF OneParent
  <2>1. Holds(tbl, lev, u, j) /\ Holds(tbl, lev, w, k)
    BY <1>5
  <2>2. tbl[u][j] = tbl[w][k]
    BY <1>4, <2>1 DEF Holds
  <2> QED  BY <2>1, <2>2 DEF Shape, OneParent
<1>9. HaveParents(tbl2, al, roots, lev)
  <2> SUFFICES ASSUME NEW c \in al \ roots
               PROVE  \E u \in al, j \in Slots : Holds(tbl2, lev, u, j) /\ tbl2[u][j] = c
    BY DEF HaveParents
  <2>1. PICK u \in al, j \in Slots : Holds(tbl, lev, u, j) /\ tbl[u][j] = c
    BY DEF Shape, HaveParents
  <2>2. Holds(tbl2, lev, u, j) /\ tbl2[u][j] = c
    BY <1>4, <1>5, <2>1 DEF Holds
  <2> QED  BY <2>2
<1> QED  BY <1>6, <1>7, <1>8, <1>9 DEF Shape

\* A store in a table of the last level is such a change.
LEMMA StoreKeepsShape ==
  ASSUME NEW tbl, NEW al, NEW roots, NEW lev, NEW own, Shape(tbl, al, roots, lev, own),
         NEW t \in al, lev[t] = Levels, NEW i \in Slots, NEW v \in Nat
  PROVE  LET tbl2 == [tbl EXCEPT ![t][i] = v]
         IN  /\ Shape(tbl2, al, roots, lev, own) /\ SameInner(tbl, tbl2, al, lev)
             /\ Stores(tbl, tbl2, al, t, i, v)
<1> DEFINE tbl2 == [tbl EXCEPT ![t][i] = v]
<1>1. /\ tbl \in [Table -> [Slots -> Nat]] /\ al \subseteq Table
      /\ t \in Table
  BY DEF Shape, WellTyped
<1>2. /\ tbl2 \in [Table -> [Slots -> Nat]] /\ tbl2[t][i] = v
      /\ \A u \in Table, j \in Slots : u # t \/ j # i => tbl2[u][j] = tbl[u][j]
  BY <1>1, SMTT(30)
<1> HIDE DEF tbl2
<1>3. ASSUME NEW u \in al, lev[u] < Levels PROVE u # t
  <2>1. ~(Levels < Levels)
    BY SmallNumbers, SMTT(30)
  <2> QED  BY <1>3, <2>1
<1>4. SameInner(tbl, tbl2, al, lev)
  BY <1>1, <1>2, <1>3 DEF SameInner
<1>5. Shape(tbl2, al, roots, lev, own)
  BY <1>2, <1>4, LeavesKeepShape
<1>6. \A u \in al, j \in Slots : u # t \/ j # i => tbl2[u][j] = tbl[u][j]
  BY <1>1, <1>2
<1>7. Stores(tbl, tbl2, al, t, i, v)
  BY <1>2, <1>6 DEF Stores
<1> QED  BY <1>4, <1>5, <1>7 DEF tbl2

\* It changes the entry of one page in one tree.
LEMMA StoreSetsOneEntry ==
  ASSUME NEW tbl, NEW al, NEW roots, NEW lev, NEW own, Shape(tbl, al, roots, lev, own),
         NEW root \in roots, NEW a \in Nat, NEW v \in Nat, NEW t, t # 0,
         t = Look(tbl, root, a)[Levels]
  PROVE  LET tbl2 == [tbl EXCEPT ![t][Index(a, Levels)] = v]
         IN  /\ Shape(tbl2, al, roots, lev, own)
             /\ \A s \in roots \cup {0}, b \in Nat : OneEntry(tbl, tbl2, root, a, v, s, b)
<1> DEFINE i == Index(a, Levels)
           tbl2 == [tbl EXCEPT ![t][i] = v]
           at == Look(tbl, root, a)
<1>1. Path(tbl, al, lev, own, root, a, at)
  BY LookSteps
<1>2. t \in al /\ lev[t] = Levels /\ i \in Slots /\ Levels \in 1 .. Levels /\ at[Levels] = t
  <2>1. i \in Slots /\ Levels \in 1 .. Levels
    BY SmallNumbers, IndexIsSlot
  <2> HIDE DEF i
  <2>2. at[Levels] = t
    OBVIOUS
  <2> HIDE DEF at
  <2>3. OnLevel(al, lev, own, root, at, Levels)
    BY <1>1, <2>1 DEF Path
  <2> QED  BY <2>1, <2>2, <2>3 DEF OnLevel
<1> HIDE DEF i
<1>3. /\ Shape(tbl2, al, roots, lev, own) /\ SameInner(tbl, tbl2, al, lev)
      /\ Stores(tbl, tbl2, al, t, i, v)
  BY <1>2, StoreKeepsShape
<1> HIDE DEF tbl2, at
<1>4. ASSUME NEW s \in roots \cup {0}, NEW b \in Nat PROVE OneEntry(tbl, tbl2, root, a, v, s, b)
  <2> DEFINE ct == Look(tbl, s, b)
             dt == Look(tbl2, s, b)
  <2>1. Path(tbl, al, lev, own, s, b, ct) /\ Path(tbl2, al, lev, own, s, b, dt)
    BY <1>3, LookSteps
  <2> HIDE DEF ct, dt
  <2>2. UpperIndices(b, b)
    BY DEF UpperIndices
  <2>3. AllMeet(ct, dt)
    BY <1>3, <2>1, <2>2, SameIndicesSameWay
  <2>4. /\ ct[Levels] = dt[Levels] /\ Index(b, Levels) \in Slots
        /\ ct[Levels] = 0 \/ ct[Levels] \in al
        /\ ct[Levels + 1] = IF ct[Levels] = 0 THEN 0 ELSE tbl[ct[Levels]][Index(b, Levels)]
        /\ dt[Levels + 1] = IF dt[Levels] = 0 THEN 0 ELSE tbl2[dt[Levels]][Index(b, Levels)]
    <3>1. ct[Levels] = dt[Levels] /\ Index(b, Levels) \in Slots
      BY <1>2, <2>3, IndexIsSlot DEF AllMeet
    <3>2. OnLevel(al, lev, own, s, ct, Levels)
      BY <1>2, <2>1 DEF Path
    <3>3. /\ ct[Levels + 1] = IF ct[Levels] = 0 THEN 0 ELSE tbl[ct[Levels]][Index(b, Levels)]
          /\ dt[Levels + 1] = IF dt[Levels] = 0 THEN 0 ELSE tbl2[dt[Levels]][Index(b, Levels)]
      BY <1>2, <2>1 DEF Path
    <3> QED  BY <3>1, <3>2, <3>3 DEF OnLevel
  <2>5. CASE s = root /\ SameIndices(a, b)
    <3>1. UpperIndices(a, b) /\ Index(b, Levels) = i
      <4>1. \A l \in 1 .. Levels - 1 : l \in 1 .. Levels
        BY SmallNumbers, SMTT(30)
      <4> QED  BY <1>2, <2>5, <4>1 DEF SameIndices, UpperIndices, i
    <3>2. SameInner(tbl, tbl, al, lev) /\ Path(tbl, al, lev, own, root, b, ct)
      BY <2>1, <2>5 DEF SameInner
    <3>3. AllMeet(at, ct)
      BY <1>1, <3>1, <3>2, SameIndicesSameWay
    <3>4. ct[Levels] = t
      BY <1>2, <3>3 DEF AllMeet
    <3>5. dt[Levels + 1] = v
      BY <1>3, <2>4, <3>1, <3>4 DEF Stores
    <3> QED  BY <2>5, <3>5 DEF OneEntry, dt
  <2>6. CASE ~(s = root /\ SameIndices(a, b))
    <3>1. ct[Levels + 1] = dt[Levels + 1]
      <4>1. CASE ct[Levels] = 0
        BY <2>4, <4>1
      <4>2. CASE ct[Levels] # 0 /\ (ct[Levels] # t \/ Index(b, Levels) # i)
        BY <1>3, <2>4, <4>2 DEF Stores
      <4>3. ~(ct[Levels] = t /\ Index(b, Levels) = i)
        <5>1. SUFFICES ASSUME ct[Levels] = t, Index(b, Levels) = i PROVE FALSE
          OBVIOUS
        <5>2. Meet(at, ct, Levels)
          BY <1>2, <5>1 DEF Meet
        <5>6. SameStart(root, s, a, b)
          BY <1>1, <2>1, <5>2, SameWay
        <5>3. root = s /\ UpperIndices(a, b)
          BY <5>6 DEF SameStart
        <5>4. \A l \in 1 .. Levels : l = Levels \/ l \in 1 .. Levels - 1
          BY SmallNumbers, SMTT(30)
        <5>5. SameIndices(a, b)
          BY <5>1, <5>3, <5>4 DEF SameIndices, UpperIndices, i
        <5> QED  BY <2>6, <5>3, <5>5
      <4> QED  BY <4>1, <4>2, <4>3
    <3> QED  BY <2>6, <3>1 DEF OneEntry, ct, dt
  <2> QED  BY <2>5, <2>6
<1> QED  BY <1>3, <1>4 DEF tbl2, i

\* A store changes one entry, ...
OnlyEntry(tbl, tbl2, roots, root, a, v) ==
  \A s \in roots \cup {0}, b \in Nat : OneEntry(tbl, tbl2, root, a, v, s, b)

\* ... or none if memory has run out.
Stored(tbl, roots, root, a, v, x) ==
  \E tbl2, al2, t2 :
    /\ x = Walking(tbl2, al2, t2) /\ t2 \in Nat
    /\ Trees(tbl2, al2, roots)
    /\ t2 = 0 => SameEntries(tbl, tbl2, roots)
    /\ t2 # 0 => OnlyEntry(tbl, tbl2, roots, root, a, v)

\* pte_set_entry(), pte_set_fpn() and pte_set_swap().
LEMMA StoreIsGood ==
  ASSUME NEW tbl, NEW al, NEW roots, NEW t, Trees(tbl, al, roots),
         NEW p, NEW a \in Nat, NEW root \in roots, root = Root(p, a), NEW v \in Nat
  PROVE  Stored(tbl, roots, root, a, v, Store(p, Walking(tbl, al, t), a, v))
<1> DEFINE x == walk_pte(root, tbl, al, a)
           i == Index(a, Levels)
           y == IF x.at = 0 THEN x ELSE [x EXCEPT !.tables[x.at][i] = v]
<1>1. Good(tbl, roots, root, a, x, Levels)
  BY WalkIsGood
<1>2. Store(p, Walking(tbl, al, t), a, v) = y
  <2>1. Walking(tbl, al, t).tables = tbl /\ Walking(tbl, al, t).alloc = al
    BY DEF Walking
  <2> QED  BY <2>1 DEF Store
<1>3. x \in WalkSet
  BY <1>1, GoodWalkInSet, SmallNumbers
<1> HIDE DEF x
<1>4. PICK tb, al2, t2 : /\ x = Walking(tb, al2, t2)
                         /\ Trees(tb, al2, roots) /\ SameEntries(tbl, tb, roots)
                         /\ t2 = 0 \/ t2 = Look(tb, root, a)[Levels]
  BY <1>1 DEF Good
<1>5. x.tables = tb /\ x.alloc = al2 /\ x.at = t2 /\ t2 \in Nat
  <2>1. x.tables = tb /\ x.alloc = al2 /\ x.at = t2
    BY <1>4 DEF Walking
  <2> QED  BY <1>3, <2>1 DEF WalkSet
<1>6. CASE t2 = 0
  BY <1>2, <1>4, <1>5, <1>6 DEF Stored
<1>7. CASE t2 # 0
  <2> DEFINE tb3 == [tb EXCEPT ![t2][i] = v]
  <2>1. [x EXCEPT !.tables[x.at][i] = v] = Walking(tb3, al2, t2)
    <3> HIDE DEF i
    <3> QED  BY <1>4, <1>5, SMTT(30) DEF Walking
  <2>2. PICK lev, own : Shape(tb, al2, roots, lev, own)
    BY <1>4 DEF Trees
  <2>3. t2 = Look(tb, root, a)[Levels]
    BY <1>4, <1>7
  <2>4. /\ Shape(tb3, al2, roots, lev, own)
        /\ \A s \in roots \cup {0}, b \in Nat : OneEntry(tb, tb3, root, a, v, s, b)
    BY <1>7, <2>2, <2>3, StoreSetsOneEntry
  <2> HIDE DEF tb3, i
  <2>5. OnlyEntry(tbl, tb3, roots, root, a, v)
    <3>1. ASSUME NEW s \in roots \cup {0}, NEW b \in Nat PROVE OneEntry(tbl, tb3, root, a, v, s, b)
      <4>1. OneEntry(tb, tb3, root, a, v, s, b)
        BY <2>4
      <4>2. Look(tb, s, b)[Levels + 1] = Look(tbl, s, b)[Levels + 1]
        BY <1>4 DEF SameEntries
      <4> QED  BY <4>1, <4>2 DEF OneEntry
    <3> QED  BY <3>1 DEF OnlyEntry
  <2>6. Trees(tb3, al2, roots)
    BY <2>4 DEF Trees
  <2>7. y = Walking(tb3, al2, t2)
    BY <1>5, <1>7, <2>1
  <2> HIDE DEF y
  <2> QED  BY <1>2, <1>5, <1>7, <2>5, <2>6, <2>7 DEF Stored
<1> QED  BY <1>6, <1>7

----------------------------------------------------------------------------
(* A range of pages.                                                       *)

\* The pages from g on, m of them, of the tree of root have their entries of val, and
\* all else is as before.
Written(tbl, tbl2, roots, root, D, g, m, val) ==
  /\ \A s \in roots \cup {0}, b \in Nat : s # root =>
       Look(tbl2, s, b)[Levels + 1] = Look(tbl, s, b)[Levels + 1]
  /\ \A h \in D : Look(tbl2, root, h * PAGESZ)[Levels + 1] =
       IF h \in g .. g + m - 1 THEN val[h] ELSE Look(tbl, root, h * PAGESZ)[Levels + 1]

\* After n pages, unless memory has run out.
Ranged(tbl, roots, root, D, g, n, val, w) ==
  \E tbl2, al2, t2, m :
    /\ w = Walking(tbl2, al2, t2) /\ t2 \in Nat
    /\ Trees(tbl2, al2, roots)
    /\ m \in 0 .. n /\ (t2 # 0 => m = n)
    /\ Written(tbl, tbl2, roots, root, D, g, m, val)

\* One page more.
LEMMA OneMoreWritten ==
  ASSUME NEW tbl, NEW tb, NEW tb2, NEW roots, NEW root \in roots, NEW D \in {UserPages, KernelPages},
         NEW g \in Nat, NEW n \in Nat, g + n \in D, NEW val, Written(tbl, tb, roots, root, D, g, n, val),
         OnlyEntry(tb, tb2, roots, root, (g + n) * PAGESZ, val[g + n])
  PROVE  Written(tbl, tb2, roots, root, D, g, n + 1, val)
<1> DEFINE a == (g + n) * PAGESZ
<1>1. ASSUME NEW s \in roots \cup {0}, NEW b \in Nat, s # root
      PROVE  Look(tb2, s, b)[Levels + 1] = Look(tbl, s, b)[Levels + 1]
  <2>1. OneEntry(tb, tb2, root, a, val[g + n], s, b)
    BY DEF OnlyEntry
  <2>2. Look(tb, s, b)[Levels + 1] = Look(tbl, s, b)[Levels + 1]
    BY <1>1 DEF Written
  <2> HIDE DEF a
  <2> QED  BY <1>1, <2>1, <2>2 DEF OneEntry
<1>2. ASSUME NEW h \in D
      PROVE  Look(tb2, root, h * PAGESZ)[Levels + 1] =
               IF h \in g .. g + (n + 1) - 1 THEN val[h] ELSE Look(tbl, root, h * PAGESZ)[Levels + 1]
  <2>1. h \in Nat /\ h * PAGESZ \in Nat
    BY PagesHaveSides
  <2>2. OneEntry(tb, tb2, root, a, val[g + n], root, h * PAGESZ)
    BY <2>1 DEF OnlyEntry
  <2>3. Look(tb, root, h * PAGESZ)[Levels + 1] =
          IF h \in g .. g + n - 1 THEN val[h] ELSE Look(tbl, root, h * PAGESZ)[Levels + 1]
    BY DEF Written
  <2>4. SameIndices(a, h * PAGESZ) <=> h = g + n
    <3>1. ASSUME SameIndices(a, h * PAGESZ) PROVE h = g + n
      BY <3>1, PageHasIndices DEF SameIndices
    <3>2. ASSUME h = g + n PROVE SameIndices(a, h * PAGESZ)
      BY <3>2 DEF SameIndices
    <3> QED  BY <3>1, <3>2
  <2>5. h \in g .. g + (n + 1) - 1 <=> h = g + n \/ h \in g .. g + n - 1
    BY <2>1, SMTT(30)
  <2> HIDE DEF a
  <2>6. CASE h = g + n
    BY <2>2, <2>4, <2>5, <2>6 DEF OneEntry
  <2>7. CASE h # g + n
    <3>1. Look(tb2, root, h * PAGESZ)[Levels + 1] = Look(tb, root, h * PAGESZ)[Levels + 1]
      BY <2>2, <2>4, <2>7 DEF OneEntry
    <3> QED  BY <2>3, <2>5, <2>7, <3>1
  <2> QED  BY <2>6, <2>7
<1> QED  BY <1>1, <1>2 DEF Written

\* What vmap_pgd_memset() carries is such a record.
LEMMA RangedInSet ==
  ASSUME NEW tbl, NEW roots, NEW root, NEW D, NEW g, NEW n, NEW val, NEW w,
         Ranged(tbl, roots, root, D, g, n, val, w)
  PROVE  w \in WalkSet
<1>1. PICK tb, al, t : /\ w = Walking(tb, al, t) /\ t \in Nat
                       /\ Trees(tb, al, roots)
  BY DEF Ranged
<1>2. tb \in [Table -> [Slots -> Nat]] /\ al \in SUBSET Table
  BY <1>1 DEF Trees, Shape, WellTyped
<1> QED  BY <1>1, <1>2, SMTT(30) DEF Walking, WalkSet

\* A page is written, or an earlier one had failed.
NextPage(p, w, a, v) == IF w.at = 0 THEN w ELSE Store(p, w, a, v)

\* vmap_pgd_memset() writes its next page, or stops.
LEMMA NextPageRanged ==
  ASSUME NEW tbl, NEW roots, NEW root \in roots, NEW D \in {UserPages, KernelPages},
         NEW g \in Nat, NEW n \in Nat, NEW val \in [Nat -> Nat], NEW w, Ranged(tbl, roots, root, D, g, n, val, w),
         NEW p, NEW a, a = (g + n) * PAGESZ, root = Root(p, a), g + n \in D, NEW v, v = val[g + n]
  PROVE  Ranged(tbl, roots, root, D, g, n + 1, val, NextPage(p, w, a, v))
<1>1. PICK tb, al, t, m : /\ w = Walking(tb, al, t) /\ t \in Nat
                          /\ Trees(tb, al, roots)
                          /\ m \in 0 .. n /\ (t # 0 => m = n)
                          /\ Written(tbl, tb, roots, root, D, g, m, val)
  BY DEF Ranged
<1>2. w.at = t
  BY <1>1 DEF Walking
<1>3. m \in 0 .. n + 1 /\ n \in 0 .. n + 1 /\ n + 1 \in 0 .. n + 1
  BY <1>1, SMTT(30)
<1>4. a \in Nat /\ v \in Nat
  <2>1. g + n \in Nat
    BY SMTT(30)
  <2> QED  BY <2>1, PagesHaveSides
<1>5. CASE t = 0
  <2>1. NextPage(p, w, a, v) = Walking(tb, al, t)
    BY <1>1, <1>2, <1>5 DEF NextPage
  <2> QED  BY <1>1, <1>3, <1>5, <2>1 DEF Ranged
<1>6. CASE t # 0
  <2>1. NextPage(p, w, a, v) = Store(p, Walking(tb, al, t), a, v)
    BY <1>1, <1>2, <1>6 DEF NextPage
  <2>2. Stored(tb, roots, root, a, v, Store(p, Walking(tb, al, t), a, v))
    BY <1>1, <1>4, StoreIsGood
  <2>3. PICK tb2, al2, t2 : /\ NextPage(p, w, a, v) = Walking(tb2, al2, t2) /\ t2 \in Nat
                            /\ Trees(tb2, al2, roots)
                            /\ t2 = 0 => SameEntries(tb, tb2, roots)
                            /\ t2 # 0 => OnlyEntry(tb, tb2, roots, root, a, v)
    BY <2>1, <2>2 DEF Stored
  <2>4. Written(tbl, tb, roots, root, D, g, n, val)
    BY <1>1, <1>6
  <2>5. CASE t2 = 0
    <3>1. SameEntries(tb, tb2, roots)
      BY <2>3, <2>5
    <3>2. ASSUME NEW s \in roots \cup {0}, NEW b \in Nat, s # root
          PROVE  Look(tb2, s, b)[Levels + 1] = Look(tbl, s, b)[Levels + 1]
      BY <2>4, <3>1, <3>2 DEF Written, SameEntries
    <3>3. ASSUME NEW h \in D
          PROVE  Look(tb2, root, h * PAGESZ)[Levels + 1] =
                   IF h \in g .. g + n - 1 THEN val[h] ELSE Look(tbl, root, h * PAGESZ)[Levels + 1]
      <4>1. h * PAGESZ \in Nat
        BY PagesHaveSides
      <4>2. Look(tb2, root, h * PAGESZ)[Levels + 1] = Look(tb, root, h * PAGESZ)[Levels + 1]
        BY <3>1, <4>1 DEF SameEntries
      <4>3. Look(tb, root, h * PAGESZ)[Levels + 1] =
              IF h \in g .. g + n - 1 THEN val[h] ELSE Look(tbl, root, h * PAGESZ)[Levels + 1]
        BY <2>4 DEF Written
      <4> QED  BY <4>2, <4>3
    <3>4. Written(tbl, tb2, roots, root, D, g, n, val)
      BY <3>2, <3>3 DEF Written
    <3> QED  BY <1>3, <2>3, <2>5, <3>4 DEF Ranged
  <2>6. CASE t2 # 0
    <3>1. OnlyEntry(tb, tb2, roots, root, (g + n) * PAGESZ, val[g + n])
      BY <2>3, <2>6
    <3>2. Written(tbl, tb2, roots, root, D, g, n + 1, val)
      BY <2>4, <3>1, OneMoreWritten
    <3> QED  BY <1>3, <2>3, <2>6, <3>2 DEF Ranged
  <2> QED  BY <2>5, <2>6
<1> QED  BY <1>5, <1>6

\* The pages of the side an address is on.
SidePages(addr) == IF is_kernel_address(addr) THEN KernelPages ELSE UserPages

\* vmap_pgd_memset() writes the pages of its range up to the first that fails.
LEMMA StoreRangeIsGood ==
  ASSUME NEW roots, Trees(tables, alloc, roots), NEW p, NEW addr \in Address,
         NEW pgnum \in 1 .. MaxRange, validate_page_range(addr, pgnum), NEW val \in [Nat -> Nat],
         NEW root \in roots, root = Root(p, addr)
  PROVE  Ranged(tables, roots, root, SidePages(addr), addr \div PAGESZ, pgnum, val,
                StoreRange(p, addr, pgnum, val))
<1> DEFINE w0   == Walking(tables, alloc, root)
           D    == SidePages(addr)
           g0   == addr \div PAGESZ
           G(w, n) == NextPage(p, w, addr + n * PAGESZ, val[(addr + n * PAGESZ) \div PAGESZ])
           R(n, w) == Ranged(tables, roots, root, D, g0, n, val, w)
           B(h) == [n \in 0 .. pgnum |-> IF n = 0 THEN w0 ELSE G(h[n - 1], n - 1)]
           F == [n \in Nat |-> [w \in WalkSet |-> IF G(w, n) \in WalkSet THEN G(w, n) ELSE w]]
<1>1. D \in {UserPages, KernelPages} /\ root \in Nat /\ root # 0 /\ pgnum \in Nat
  <2>1. root \in Table
    BY DEF Trees, Shape, WellTyped
  <2>2. pgnum \in Nat
    BY PageTableAssumption, SMTT(30)
  <2> QED  BY <2>1, <2>2, SmallNumbers DEF SidePages
<1>2. g0 \in Nat
  <2>1. addr \in Nat
    BY SMTT(30) DEF Address
  <2> QED  BY <2>1, DivParts, Sizes
<1>3. R(0, w0)
  <2>1. ASSUME NEW h PROVE h \notin g0 .. g0 + 0 - 1
    BY <1>2, SMTT(30)
  <2>2. Written(tables, tables, roots, root, D, g0, 0, val)
    BY <2>1 DEF Written
  <2>3. 0 \in 0 .. 0
    BY SMTT(30)
  <2> QED  BY <1>1, <2>2, <2>3 DEF Ranged
<1> HIDE DEF w0
<1>4. ASSUME NEW n \in 0 .. pgnum - 1, NEW w, R(n, w) PROVE R(n + 1, G(w, n))
  <2>1. /\ addr + n * PAGESZ = (g0 + n) * PAGESZ
        /\ is_kernel_address(addr + n * PAGESZ) <=> is_kernel_address(addr)
        /\ g0 + n \in D /\ (addr + n * PAGESZ) \div PAGESZ = g0 + n
    BY RangeHasPages DEF SidePages
  <2>2. root = Root(p, addr + n * PAGESZ)
    BY <2>1 DEF Root
  <2>3. n \in Nat
    BY <1>1, SMTT(30)
  <2> HIDE DEF D, g0
  <2> QED  BY <1>1, <1>2, <1>4, <2>1, <2>2, <2>3, NextPageRanged
<1>5. ASSUME NEW n, NEW w, R(n, w) PROVE w \in WalkSet
  BY <1>5, RangedInSet
<1> HIDE DEF G, R, D, g0
<1>6. ASSUME NEW h, h[0] = w0, \A n \in 0 .. pgnum - 1 : R(n, h[n]) => h[n + 1] = G(h[n], n)
      PROVE  \A n \in 0 .. pgnum : R(n, h[n])
  <2> DEFINE T == {n \in Nat : n <= pgnum => R(n, h[n])}
  <2>1. 0 \in T
    BY <1>3, <1>6, SmallNumbers
  <2>2. ASSUME NEW n \in Nat, n \in T PROVE n + 1 \in T
    <3>1. n + 1 \in Nat
      BY SMTT(30)
    <3> SUFFICES ASSUME n + 1 <= pgnum PROVE R(n + 1, h[n + 1])
      BY <3>1
    <3>2. n \in 0 .. pgnum - 1 /\ n <= pgnum
      BY <1>1, SMTT(30)
    <3>3. R(n, h[n])
      BY <2>2, <3>2
    <3>4. h[n + 1] = G(h[n], n)
      BY <1>6, <3>2, <3>3
    <3> QED  BY <1>4, <3>2, <3>3, <3>4
  <2> HIDE DEF T
  <2>3. \A n \in Nat : n \in T
    BY <2>1, <2>2, Induction
  <2>4. \A n \in 0 .. pgnum : n \in Nat /\ n <= pgnum
    BY <1>1, SMTT(30)
  <2> QED  BY <2>3, <2>4 DEF T
<1>7. \E h : h = B(h)
  <2>1. StaysIn(WalkSet, F)
    BY DEF StaysIn
  <2>2. w0 \in WalkSet
    BY <1>3, <1>5
  <2> HIDE DEF F
  <2>3. PICK g : Runs(g, WalkSet, w0, F)
    BY <2>1, <2>2, Recursion
  <2>4. g \in [Nat -> WalkSet] /\ g[0] = w0 /\ \A n \in Nat : g[n + 1] = F[n][g[n]]
    BY <2>3 DEF Runs
  <2>5. ASSUME NEW n \in 0 .. pgnum - 1, R(n, g[n]) PROVE g[n + 1] = G(g[n], n)
    <3>1. n \in Nat
      BY <1>1, SMTT(30)
    <3>2. g[n] \in WalkSet
      BY <1>5, <2>5
    <3>3. G(g[n], n) \in WalkSet
      BY <1>4, <1>5, <2>5
    <3>4. F[n][g[n]] = G(g[n], n)
      BY <3>1, <3>2, <3>3 DEF F
    <3> QED  BY <2>4, <3>1, <3>4
  <2>6. \A n \in 0 .. pgnum : R(n, g[n])
    BY <1>6, <2>4, <2>5
  <2> DEFINE h == [n \in 0 .. pgnum |-> g[n]]
  <2>7. ASSUME NEW n \in 0 .. pgnum PROVE h[n] = IF n = 0 THEN w0 ELSE G(h[n - 1], n - 1)
    <3>1. CASE n = 0
      BY <2>4, <3>1
    <3>2. CASE n # 0
      <4> DEFINE k == n - 1
      <4>1. k \in 0 .. pgnum - 1 /\ k \in 0 .. pgnum /\ k + 1 = n
        BY <1>1, <3>2, SMTT(30)
      <4> HIDE DEF k
      <4>2. h[n] = g[k + 1] /\ h[k] = g[k]
        BY <4>1
      <4> HIDE DEF h
      <4>3. g[k + 1] = G(g[k], k)
        BY <2>5, <2>6, <4>1
      <4> QED  BY <3>2, <4>2, <4>3 DEF k
    <3> QED  BY <3>1, <3>2
  <2>8. h = [n \in 0 .. pgnum |-> h[n]]
    OBVIOUS
  <2> HIDE DEF h
  <2>9. h = B(h)
    BY <2>7, <2>8
  <2> QED  BY <2>9
<1> DEFINE upto == CHOOSE h : h = B(h)
<1>8. upto = B(upto)
  BY <1>7
<1>9. StoreRange(p, addr, pgnum, val) = upto[pgnum]
  BY DEF StoreRange, w0, Walking, G, NextPage
<1> HIDE DEF upto
<1>10. upto[0] = w0
  <2>1. 0 \in 0 .. pgnum
    BY <1>1, SMTT(30)
  <2> QED  BY <1>8, <2>1
<1>11. ASSUME NEW n \in 0 .. pgnum - 1 PROVE upto[n + 1] = G(upto[n], n)
  <2>1. n + 1 \in 0 .. pgnum /\ n + 1 # 0 /\ (n + 1) - 1 = n
    BY <1>1, SMTT(30)
  <2> QED  BY <1>8, <2>1
<1> HIDE DEF B
<1>12. \A n \in 0 .. pgnum : R(n, upto[n])
  BY <1>6, <1>10, <1>11
<1>13. pgnum \in 0 .. pgnum
  BY <1>1, SMTT(30)
<1> QED  BY <1>9, <1>12, <1>13 DEF R, D, g0

\* Entries of 0.
Zeros == [g \in Nat |-> 0]

\* The slot i of table t is that of one of pgnum pages from addr on.
Hit(tbl, addr, pgnum, t, i) ==
  \E n \in 0 .. pgnum - 1 : /\ t = Look(tbl, krnl_pgd, addr + n * PAGESZ)[Levels]
                            /\ i = Index(addr + n * PAGESZ, Levels)

\* Slots are 0 or as before.
Erases(tbl, tbl2, addr, pgnum) ==
  /\ tbl2 \in [Table -> [Slots -> Nat]]
  /\ \A t \in Table, i \in Slots :
       tbl2[t][i] = IF Hit(tbl, addr, pgnum, t, i) THEN 0 ELSE tbl[t][i]

\* What the end of a range leaves in the slots.
LEMMA ErasedSlots ==
  ASSUME NEW tbl \in [Table -> [Slots -> Nat]], NEW addr, NEW pgnum
  PROVE  Erases(tbl, Erased(tbl, addr, pgnum), addr, pgnum)
<1> DEFINE E == [t \in Table |-> [i \in Slots |-> IF Hit(tbl, addr, pgnum, t, i) THEN 0 ELSE tbl[t][i]]]
<1>1. Erased(tbl, addr, pgnum) = E
  BY DEF Erased, Hit
<1>2. ASSUME NEW t \in Table, NEW i \in Slots
      PROVE  (IF Hit(tbl, addr, pgnum, t, i) THEN 0 ELSE tbl[t][i]) \in Nat
  BY SmallNumbers
<1>3. E \in [Table -> [Slots -> Nat]]
  BY <1>2
<1> QED  BY <1>1, <1>3 DEF Erases

\* The entry of b below root s is in such a slot.
Touched(tbl, addr, pgnum, s, b) ==
  /\ Look(tbl, s, b)[Levels] # 0
  /\ Hit(tbl, addr, pgnum, Look(tbl, s, b)[Levels], Index(b, Levels))

\* The entry is that of one of pgnum kernel pages.
OfRange(tbl, lev, addr, pgnum, s, b) ==
  /\ s = krnl_pgd /\ lev[Look(tbl, s, b)[Levels]] = Levels
  /\ \E n \in 0 .. pgnum - 1 : /\ addr \div PAGESZ + n \in KernelPages
                               /\ SameIndices((addr \div PAGESZ + n) * PAGESZ, b)

\* The slot of a page that is not one of them is another one.
LEMMA HitIsInRange ==
  ASSUME NEW tbl, NEW al, NEW roots, NEW lev, NEW own, Shape(tbl, al, roots, lev, own),
         krnl_pgd \in roots, NEW addr \in Address, NEW pgnum \in 1 .. MaxRange,
         validate_page_range(addr, pgnum), is_kernel_address(addr),
         NEW s \in roots \cup {0}, NEW b \in Nat, Touched(tbl, addr, pgnum, s, b)
  PROVE  OfRange(tbl, lev, addr, pgnum, s, b)
<1>1. PICK n \in 0 .. pgnum - 1 : /\ Look(tbl, s, b)[Levels] = Look(tbl, krnl_pgd, addr + n * PAGESZ)[Levels]
                                  /\ Index(b, Levels) = Index(addr + n * PAGESZ, Levels)
  BY DEF Touched, Hit
<1> DEFINE g == addr \div PAGESZ + n
           a == g * PAGESZ
           at == Look(tbl, krnl_pgd, a)
           ct == Look(tbl, s, b)
<1>2. addr + n * PAGESZ = a /\ g \in KernelPages
  BY RangeHasPages
<1> HIDE DEF g
<1>3. a \in Nat
  BY <1>2, PagesHaveSides
<1>4. ct[Levels] = at[Levels] /\ Index(a, Levels) = Index(b, Levels) /\ ct[Levels] # 0
  BY <1>1, <1>2 DEF Touched
<1> HIDE DEF a
<1>5. Path(tbl, al, lev, own, krnl_pgd, a, at) /\ Path(tbl, al, lev, own, s, b, ct)
  BY <1>3, LookSteps
<1> HIDE DEF at, ct
<1>6. Levels \in 1 .. Levels /\ \A l \in 1 .. Levels : l = Levels \/ l \in 1 .. Levels - 1
  BY SmallNumbers, SMTT(30)
<1>7. Meet(at, ct, Levels)
  BY <1>4 DEF Meet
<1>8. SameStart(krnl_pgd, s, a, b)
  BY <1>3, <1>5, <1>7, SameWay
<1>9. SameIndices(a, b) /\ s = krnl_pgd
  BY <1>4, <1>6, <1>8 DEF SameStart, SameIndices, UpperIndices
<1>10. OnLevel(al, lev, own, s, ct, Levels)
  BY <1>5, <1>6 DEF Path
<1>11. lev[ct[Levels]] = Levels
  BY <1>4, <1>10 DEF OnLevel
<1> QED  BY <1>2, <1>9, <1>11 DEF OfRange, a, g, ct

\* Entries of two sets of tables with the same inner ones are in the same slot.
SameSlot(tbl, tbl2, al, s, b) ==
  \/ Look(tbl, s, b)[Levels + 1] = 0 /\ Look(tbl2, s, b)[Levels + 1] = 0 /\ Look(tbl, s, b)[Levels] = 0
  \/ /\ Look(tbl, s, b)[Levels] \in al /\ Look(tbl, s, b)[Levels] # 0
     /\ Look(tbl, s, b)[Levels + 1] = tbl[Look(tbl, s, b)[Levels]][Index(b, Levels)]
     /\ Look(tbl2, s, b)[Levels + 1] = tbl2[Look(tbl, s, b)[Levels]][Index(b, Levels)]

\* A change of the last level moves no entry.
LEMMA LeavesKeepSlots ==
  ASSUME NEW tbl, NEW tbl2, NEW al, NEW roots, NEW lev, NEW own, Shape(tbl, al, roots, lev, own),
         Shape(tbl2, al, roots, lev, own), SameInner(tbl, tbl2, al, lev),
         NEW s \in roots \cup {0}, NEW b \in Nat
  PROVE  SameSlot(tbl, tbl2, al, s, b)
<1> DEFINE ct == Look(tbl, s, b)
           dt == Look(tbl2, s, b)
<1>1. Path(tbl, al, lev, own, s, b, ct) /\ Path(tbl2, al, lev, own, s, b, dt)
  BY LookSteps
<1> HIDE DEF ct, dt
<1>2. UpperIndices(b, b) /\ Levels \in 1 .. Levels
  BY SmallNumbers DEF UpperIndices
<1>3. AllMeet(ct, dt)
  BY <1>1, <1>2, SameIndicesSameWay
<1>4. ct[Levels] = dt[Levels]
  BY <1>2, <1>3 DEF AllMeet
<1>5. OnLevel(al, lev, own, s, ct, Levels)
  BY <1>1, <1>2 DEF Path
<1>6. /\ ct[Levels + 1] = IF ct[Levels] = 0 THEN 0 ELSE tbl[ct[Levels]][Index(b, Levels)]
      /\ dt[Levels + 1] = IF dt[Levels] = 0 THEN 0 ELSE tbl2[dt[Levels]][Index(b, Levels)]
  BY <1>1, <1>2 DEF Path
<1>7. ct[Levels] = 0 \/ ct[Levels] \in al
  BY <1>5 DEF OnLevel
<1> QED  BY <1>4, <1>6, <1>7 DEF SameSlot, ct, dt

\* The end of a range takes its entries away and no others.
LEMMA ErasedIsGood ==
  ASSUME NEW tbl, NEW al, NEW roots, NEW lev, NEW own, Shape(tbl, al, roots, lev, own),
         krnl_pgd \in roots, NEW addr \in Address, NEW pgnum \in 1 .. MaxRange,
         validate_page_range(addr, pgnum), is_kernel_address(addr)
  PROVE  /\ Trees(Erased(tbl, addr, pgnum), al, roots)
         /\ Written(tbl, Erased(tbl, addr, pgnum), roots, krnl_pgd, KernelPages,
                    addr \div PAGESZ, pgnum, Zeros)
<1> DEFINE tbl2 == Erased(tbl, addr, pgnum)
           g == addr \div PAGESZ
           T(t, i) == Hit(tbl, addr, pgnum, t, i)
<1>1. /\ tbl \in [Table -> [Slots -> Nat]] /\ al \subseteq Table
      /\ \A t \in al : t # 0
  BY SmallNumbers DEF Shape, WellTyped
<1>0. Erases(tbl, tbl2, addr, pgnum)
  BY <1>1, ErasedSlots
<1> HIDE DEF tbl2
<1>2. /\ tbl2 \in [Table -> [Slots -> Nat]]
      /\ \A t \in Table, i \in Slots : T(t, i) => tbl2[t][i] = 0
      /\ \A t \in Table, i \in Slots : ~T(t, i) => tbl2[t][i] = tbl[t][i]
  BY <1>0 DEF Erases
<1>3. ASSUME NEW n \in 0 .. pgnum - 1
      PROVE  addr + n * PAGESZ = (g + n) * PAGESZ /\ addr + n * PAGESZ \in Nat /\ g + n \in KernelPages
  <2>1. addr + n * PAGESZ = (g + n) * PAGESZ /\ g + n \in KernelPages
    BY RangeHasPages
  <2> HIDE DEF g
  <2> QED  BY <2>1, PagesHaveSides
<1>4. ASSUME NEW t \in al, NEW i, T(t, i) PROVE lev[t] = Levels
  <2>1. PICK n \in 0 .. pgnum - 1 : /\ t = Look(tbl, krnl_pgd, addr + n * PAGESZ)[Levels]
                                    /\ i = Index(addr + n * PAGESZ, Levels)
    BY <1>4 DEF Hit
  <2> DEFINE a == addr + n * PAGESZ
  <2>2. a \in Nat /\ t = Look(tbl, krnl_pgd, a)[Levels] /\ i = Index(a, Levels)
    BY <1>3, <2>1
  <2> HIDE DEF a
  <2>3. Touched(tbl, addr, pgnum, krnl_pgd, a)
    BY <1>1, <1>4, <2>2 DEF Touched
  <2>4. krnl_pgd \in roots \cup {0}
    OBVIOUS
  <2> HIDE DEF T
  <2>5. OfRange(tbl, lev, addr, pgnum, krnl_pgd, a)
    BY <2>2, <2>3, <2>4, HitIsInRange
  <2> QED  BY <2>2, <2>5 DEF OfRange
<1>5. SameInner(tbl, tbl2, al, lev)
  <2>1. ~(Levels < Levels)
    BY SmallNumbers, SMTT(30)
  <2>2. ASSUME NEW t \in al, NEW i \in Slots, lev[t] < Levels PROVE tbl2[t][i] = tbl[t][i]
    <3>1. ~T(t, i)
      BY <1>4, <2>1, <2>2
    <3> HIDE DEF T
    <3> QED  BY <1>1, <1>2, <3>1
  <2> QED  BY <2>2 DEF SameInner
<1>6. Shape(tbl2, al, roots, lev, own)
  BY <1>2, <1>5, LeavesKeepShape
<1>7. ASSUME NEW s \in roots \cup {0}, NEW b \in Nat PROVE SameSlot(tbl, tbl2, al, s, b)
  BY <1>5, <1>6, LeavesKeepSlots
<1> HIDE DEF T, g
<1>8. ASSUME NEW s \in roots \cup {0}, NEW b \in Nat,
             Look(tbl, s, b)[Levels] = 0 \/ ~T(Look(tbl, s, b)[Levels], Index(b, Levels))
      PROVE  Look(tbl2, s, b)[Levels + 1] = Look(tbl, s, b)[Levels + 1]
  <2>1. SameSlot(tbl, tbl2, al, s, b) /\ Index(b, Levels) \in Slots
    BY <1>7, SmallNumbers, IndexIsSlot
  <2> DEFINE t == Look(tbl, s, b)[Levels]
             i == Index(b, Levels)
  <2>2. \/ Look(tbl, s, b)[Levels + 1] = 0 /\ Look(tbl2, s, b)[Levels + 1] = 0
        \/ /\ t \in al /\ i \in Slots /\ ~T(t, i)
           /\ Look(tbl, s, b)[Levels + 1] = tbl[t][i] /\ Look(tbl2, s, b)[Levels + 1] = tbl2[t][i]
    BY <1>8, <2>1 DEF SameSlot
  <2> HIDE DEF t, i
  <2>3. ASSUME t \in al, i \in Slots, ~T(t, i) PROVE tbl2[t][i] = tbl[t][i]
    BY <1>1, <1>2, <2>3
  <2> QED  BY <2>2, <2>3
<1>9. ASSUME NEW s \in roots \cup {0}, NEW b \in Nat, Look(tbl, s, b)[Levels] # 0,
             T(Look(tbl, s, b)[Levels], Index(b, Levels))
      PROVE  s = krnl_pgd /\ \E n \in 0 .. pgnum - 1 : g + n \in KernelPages /\ SameIndices((g + n) * PAGESZ, b)
  <2>1. Touched(tbl, addr, pgnum, s, b)
    BY <1>9 DEF Touched, T
  <2>2. OfRange(tbl, lev, addr, pgnum, s, b)
    BY <2>1, HitIsInRange
  <2> QED  BY <2>2 DEF OfRange, g
<1>10. ASSUME NEW s \in roots \cup {0}, NEW b \in Nat, s # krnl_pgd
       PROVE  Look(tbl2, s, b)[Levels + 1] = Look(tbl, s, b)[Levels + 1]
  BY <1>8, <1>9, <1>10
<1>11. ASSUME NEW h \in KernelPages
       PROVE  Look(tbl2, krnl_pgd, h * PAGESZ)[Levels + 1] =
                IF h \in g .. g + pgnum - 1 THEN Zeros[h] ELSE Look(tbl, krnl_pgd, h * PAGESZ)[Levels + 1]
  <2> DEFINE b == h * PAGESZ
  <2>1. b \in Nat /\ h \in Nat /\ krnl_pgd \in roots \cup {0}
    BY PagesHaveSides
  <2>2. g \in Nat /\ pgnum \in Nat
    <3>1. addr \in Nat /\ pgnum \in Nat
      BY PageTableAssumption, SMTT(30) DEF Address
    <3> QED  BY <3>1, DivParts, Sizes DEF g
  <2>3. CASE h \in g .. g + pgnum - 1
    <3> DEFINE n == h - g
    <3>1. n \in 0 .. pgnum - 1 /\ g + n = h
      BY <2>1, <2>2, <2>3, SMTT(30)
    <3> HIDE DEF n
    <3>2. addr + n * PAGESZ = b
      BY <1>3, <3>1
    <3>3. T(Look(tbl, krnl_pgd, b)[Levels], Index(b, Levels))
      BY <3>1, <3>2 DEF T, Hit
    <3>4. SameSlot(tbl, tbl2, al, krnl_pgd, b) /\ Index(b, Levels) \in Slots
      BY <1>7, <2>1, SmallNumbers, IndexIsSlot
    <3>5. Zeros[h] = 0
      BY <2>1 DEF Zeros
    <3> HIDE DEF b
    <3> DEFINE t == Look(tbl, krnl_pgd, b)[Levels]
               i == Index(b, Levels)
    <3>6. \/ Look(tbl2, krnl_pgd, b)[Levels + 1] = 0
          \/ t \in al /\ i \in Slots /\ T(t, i) /\ Look(tbl2, krnl_pgd, b)[Levels + 1] = tbl2[t][i]
      BY <3>3, <3>4 DEF SameSlot
    <3> HIDE DEF t, i
    <3>7. Look(tbl2, krnl_pgd, b)[Levels + 1] = 0
      BY <1>1, <1>2, <3>6
    <3> QED  BY <2>3, <3>5, <3>7 DEF b
  <2>4. CASE h \notin g .. g + pgnum - 1
    <3>1. ASSUME NEW n \in 0 .. pgnum - 1, g + n \in KernelPages, SameIndices((g + n) * PAGESZ, b) PROVE FALSE
      <4>1. g + n = h
        BY <3>1, PageHasIndices DEF SameIndices
      <4>2. g + n \in g .. g + pgnum - 1
        BY <2>2, SMTT(30)
      <4> QED  BY <2>4, <4>1, <4>2
    <3> HIDE DEF b
    <3>2. Look(tbl, krnl_pgd, b)[Levels] = 0 \/ ~T(Look(tbl, krnl_pgd, b)[Levels], Index(b, Levels))
      BY <1>9, <2>1, <3>1
    <3>3. Look(tbl2, krnl_pgd, b)[Levels + 1] = Look(tbl, krnl_pgd, b)[Levels + 1]
      BY <1>8, <2>1, <3>2
    <3> QED  BY <2>4, <3>3 DEF b
  <2> QED  BY <2>3, <2>4
<1>12. Written(tbl, tbl2, roots, krnl_pgd, KernelPages, g, pgnum, Zeros)
  BY <1>10, <1>11 DEF Written
<1>13. Trees(tbl2, al, roots)
  BY <1>6 DEF Trees
<1> QED  BY <1>12, <1>13 DEF tbl2, g

\* Pages that are written and then erased are erased.
LEMMA WrittenThenErased ==
  ASSUME NEW tbl, NEW tb, NEW tb2, NEW roots, NEW root, NEW D, NEW g \in Nat, NEW n \in Nat, NEW m \in 0 .. n,
         NEW val, Written(tbl, tb, roots, root, D, g, m, val), Written(tb, tb2, roots, root, D, g, n, Zeros)
  PROVE  Written(tbl, tb2, roots, root, D, g, n, Zeros)
<1>1. ASSUME NEW h, h \in g .. g + m - 1 PROVE h \in g .. g + n - 1
  BY <1>1, SMTT(30)
<1>2. ASSUME NEW s \in roots \cup {0}, NEW b \in Nat, s # root
      PROVE  Look(tb2, s, b)[Levels + 1] = Look(tbl, s, b)[Levels + 1]
  BY <1>2 DEF Written
<1>3. ASSUME NEW h \in D
      PROVE  Look(tb2, root, h * PAGESZ)[Levels + 1] =
               IF h \in g .. g + n - 1 THEN Zeros[h] ELSE Look(tbl, root, h * PAGESZ)[Levels + 1]
  <2>1. /\ Look(tb2, root, h * PAGESZ)[Levels + 1] =
             IF h \in g .. g + n - 1 THEN Zeros[h] ELSE Look(tb, root, h * PAGESZ)[Levels + 1]
        /\ h \notin g .. g + m - 1 =>
             Look(tb, root, h * PAGESZ)[Levels + 1] = Look(tbl, root, h * PAGESZ)[Levels + 1]
    BY DEF Written
  <2> QED  BY <1>1, <2>1
<1> QED  BY <1>2, <1>3 DEF Written

----------------------------------------------------------------------------
(* The tree of a process, and its end.                                     *)

\* The tables of the tree of r down to level k.
Upper(al, lev, own, r, k) == {t \in al : own[t] = r /\ lev[t] <= k}

\* The tables in the slots of S.
LEMMA BelowMembers ==
  ASSUME NEW S, NEW c
  PROVE  c \in Below(S) <=> c # 0 /\ \E t \in S, i \in Slots : tables[t][i] = c
BY SMTT(30) DEF Below

\* free_mm_tables_recursive() reaches the tables of its root and no others.
LEMMA TreeIsOwned ==
  ASSUME NEW roots, NEW lev, NEW own, Shape(tables, alloc, roots, lev, own),
         NEW r \in roots, NEW l \in 1 .. Levels
  PROVE  TreeTo(r, l) = Upper(alloc, lev, own, r, l)
<1> DEFINE U(k) == Upper(alloc, lev, own, r, k)
           B(h) == [k \in 1 .. l |-> IF k = 1 THEN {r} ELSE h[k - 1] \cup Below(h[k - 1])]
<1>1. /\ \A t \in alloc : lev[t] \in 1 .. Levels /\ lev[t] \in Nat
      /\ r \in alloc /\ lev[r] = 1 /\ own[r] = r /\ l \in Nat
  <2>1. \A n \in 1 .. Levels : n \in Nat
    BY SmallNumbers
  <2>2. \A t \in alloc : lev[t] \in 1 .. Levels
    BY DEF Shape, WellTyped
  <2> QED  BY <2>1, <2>2 DEF Shape, WellTyped, RootsOnTop
<1>2. U(1) = {r}
  <2>1. ASSUME NEW t \in alloc, own[t] = r, lev[t] <= 1 PROVE t = r
    <3>1. lev[t] = 1
      BY <1>1, <2>1, SMTT(30)
    <3>2. t \in roots
      BY <3>1 DEF Shape, RootsOnTop
    <3> QED  BY <2>1, <3>2 DEF Shape, RootsOnTop
  <2>2. 1 <= 1
    BY SMTT(30)
  <2> QED  BY <1>1, <2>1, <2>2 DEF Upper
<1>3. ASSUME NEW k \in 1 .. l - 1 PROVE U(k + 1) = U(k) \cup Below(U(k))
  <2>1. k \in Nat /\ k < Levels
    BY <1>1, SmallNumbers, SMTT(30)
  <2>2. ASSUME NEW c \in U(k + 1) PROVE c \in U(k) \cup Below(U(k))
    <3>1. c \in alloc /\ own[c] = r /\ lev[c] <= k + 1 /\ lev[c] \in Nat
      BY <1>1 DEF Upper
    <3>2. CASE lev[c] <= k
      BY <3>1, <3>2 DEF Upper
    <3>3. CASE ~(lev[c] <= k)
      <4>1. lev[c] = k + 1 /\ lev[c] # 1
        BY <1>1, <2>1, <3>1, <3>3, SMTT(30)
      <4>2. c \notin roots
        BY <4>1 DEF Shape, RootsOnTop
      <4>3. PICK u \in alloc, i \in Slots : Holds(tables, lev, u, i) /\ tables[u][i] = c
        BY <3>1, <4>2 DEF Shape, HaveParents
      <4>4. lev[c] = lev[u] + 1 /\ own[c] = own[u] /\ c # 0
        BY <4>3 DEF Shape, ChildrenBelow, Holds
      <4>5. lev[u] <= k
        BY <1>1, <2>1, <4>1, <4>4, SMTT(30)
      <4>6. u \in U(k)
        BY <3>1, <4>4, <4>5 DEF Upper
      <4>7. c \in Below(U(k))
        <5> HIDE DEF U
        <5> QED  BY <4>3, <4>4, <4>6, BelowMembers
      <4> QED  BY <4>7
    <3> QED  BY <3>2, <3>3
  <2>3. ASSUME NEW c \in U(k) PROVE c \in U(k + 1)
    <3>1. lev[c] <= k + 1
      BY <1>1, <2>1, SMTT(30) DEF Upper
    <3> QED  BY <3>1 DEF Upper
  <2>4. ASSUME NEW c \in Below(U(k)) PROVE c \in U(k + 1)
    <3>1. PICK u \in U(k), i \in Slots : tables[u][i] = c /\ c # 0
      <4> HIDE DEF U
      <4> QED  BY BelowMembers
    <3>2. u \in alloc /\ own[u] = r /\ lev[u] <= k /\ lev[u] \in Nat
      BY <1>1 DEF Upper
    <3>3. lev[u] < Levels
      BY <2>1, <3>2, SmallNumbers, SMTT(30)
    <3>4. c \in alloc /\ lev[c] = lev[u] + 1 /\ own[c] = own[u]
      BY <3>1, <3>2, <3>3 DEF Shape, ChildrenBelow, Holds
    <3>5. lev[c] <= k + 1
      BY <2>1, <3>2, <3>4, SMTT(30)
    <3> QED  BY <3>2, <3>4, <3>5 DEF Upper
  <2> HIDE DEF U
  <2> QED  BY <2>2, <2>3, <2>4
<1> HIDE DEF U
<1>4. \E h : h = B(h)
  <2> DEFINE h == [k \in 1 .. l |-> U(k)]
  <2>1. ASSUME NEW k \in 1 .. l PROVE h[k] = IF k = 1 THEN {r} ELSE h[k - 1] \cup Below(h[k - 1])
    <3>1. CASE k = 1
      BY <1>2, <3>1
    <3>2. CASE k # 1
      <4> DEFINE j == k - 1
      <4>1. j \in 1 .. l - 1 /\ j \in 1 .. l /\ j + 1 = k
        BY <1>1, <3>2, SMTT(30)
      <4> HIDE DEF j
      <4>2. h[k] = U(j + 1) /\ h[j] = U(j)
        BY <4>1
      <4> HIDE DEF h
      <4>3. h[k] = h[j] \cup Below(h[j])
        BY <1>3, <4>1, <4>2
      <4> QED  BY <3>2, <4>3 DEF j
    <3> QED  BY <3>1, <3>2
  <2>2. h = [k \in 1 .. l |-> h[k]]
    OBVIOUS
  <2> HIDE DEF h
  <2>3. h = B(h)
    BY <2>1, <2>2
  <2> QED  BY <2>3
<1> DEFINE tree == CHOOSE h : h = B(h)
<1>5. tree = B(tree)
  BY <1>4
<1>6. TreeTo(r, l) = tree[l]
  BY DEF TreeTo
<1> HIDE DEF tree
<1>7. tree[1] = {r}
  <2>1. 1 \in 1 .. l
    BY SMTT(30)
  <2> QED  BY <1>5, <2>1
<1>8. ASSUME NEW k \in 1 .. l - 1 PROVE tree[k + 1] = tree[k] \cup Below(tree[k])
  <2>1. k + 1 \in 1 .. l /\ k + 1 # 1 /\ (k + 1) - 1 = k
    BY <1>1, SMTT(30)
  <2> QED  BY <1>5, <2>1
<1> DEFINE T == {n \in Nat : n + 1 <= l => tree[n + 1] = U(n + 1)}
<1>9. 0 \in T
  <2>1. 0 + 1 = 1
    BY SMTT(30)
  <2> QED  BY <1>2, <1>7, <2>1, SmallNumbers
<1>10. ASSUME NEW n \in Nat, n \in T PROVE n + 1 \in T
  <2> DEFINE k == n + 1
  <2>1. k \in Nat
    BY SMTT(30)
  <2> SUFFICES ASSUME k + 1 <= l PROVE tree[k + 1] = U(k + 1)
    BY <2>1
  <2>2. k \in 1 .. l - 1 /\ n + 1 <= l
    BY <1>1, SMTT(30)
  <2>3. tree[k] = U(k)
    BY <1>10, <2>2
  <2> HIDE DEF k
  <2> QED  BY <1>3, <1>8, <2>2, <2>3
<1> HIDE DEF T
<1>11. \A n \in Nat : n \in T
  BY <1>9, <1>10, Induction
<1>12. l - 1 \in Nat /\ (l - 1) + 1 = l /\ (l - 1) + 1 <= l
  BY SMTT(30)
<1>13. tree[l] = U(l)
  BY <1>11, <1>12 DEF T
<1> QED  BY <1>6, <1>13 DEF U

\* own tells the tree of r.
OwnsTree(own, r) == TreeTo(r, Levels) = {t \in alloc : own[t] = r}

\* free_mm_tables_recursive() reaches all the tables of its root.
LEMMA WholeTree ==
  ASSUME NEW roots, NEW lev, NEW own, Shape(tables, alloc, roots, lev, own), NEW r \in roots
  PROVE  OwnsTree(own, r)
<1>1. TreeTo(r, Levels) = Upper(alloc, lev, own, r, Levels)
  <2>1. ASSUME NEW l \in 1 .. Levels PROVE TreeTo(r, l) = Upper(alloc, lev, own, r, l)
    BY TreeIsOwned
  <2> QED  BY <2>1, SmallNumbers
<1>2. \A t \in alloc : lev[t] <= Levels
  <2>1. \A t \in alloc : lev[t] \in 1 .. Levels
    BY DEF Shape, WellTyped
  <2> QED  BY <2>1, SmallNumbers
<1> QED  BY <1>1, <1>2 DEF Upper, OwnsTree

\* The tables S of the tree of r are freed.
Frees(tbl, al, own, r, S, tbl2) ==
  /\ S = {t \in al : own[t] = r}
  /\ tbl2 = [t \in Table |-> IF t \in S THEN EmptyTable ELSE tbl[t]]

\* The other trees keep their shape when the tables of one are freed ...
LEMMA FreeKeepsShape ==
  ASSUME NEW tbl, NEW al, NEW roots, NEW lev, NEW own, Shape(tbl, al, roots, lev, own),
         NEW r \in roots, NEW S, NEW tbl2, Frees(tbl, al, own, r, S, tbl2)
  PROVE  Shape(tbl2, al \ S, roots \ {r}, lev, own)
<1> DEFINE al2 == al \ S
           roots2 == roots \ {r}
<1>1. /\ tbl \in [Table -> [Slots -> Nat]] /\ al \subseteq Table /\ roots \subseteq al
      /\ lev \in [Table -> 1 .. Levels] /\ own \in [Table -> Table]
  BY DEF Shape, WellTyped
<1>0. /\ S = {t \in al : own[t] = r}
      /\ tbl2 = [t \in Table |-> IF t \in S THEN EmptyTable ELSE tbl[t]]
  BY DEF Frees
<1>2. /\ \A t \in al2 : t \in al /\ own[t] # r /\ tbl2[t] = tbl[t]
      /\ \A t \in al : own[t] # r => t \in al2
  BY <1>0, <1>1
<1>3. WellTyped(tbl2, al2, roots2, lev, own)
  <2>1. EmptyTable \in [Slots -> Nat]
    BY SmallNumbers DEF EmptyTable
  <2>2. tbl2 \in [Table -> [Slots -> Nat]]
    BY <1>0, <1>1, <2>1
  <2>3. al2 \subseteq Table /\ roots2 \subseteq al2
    BY <1>1, <1>2 DEF Shape, RootsOnTop
  <2> QED  BY <1>1, <2>2, <2>3 DEF WellTyped
<1>4. RootsOnTop(al2, roots2, lev, own)
  BY <1>2 DEF Shape, RootsOnTop
<1> HIDE DEF al2, roots2
<1>5. ASSUME NEW t \in al2, NEW i \in Slots, Holds(tbl2, lev, t, i)
      PROVE  Holds(tbl, lev, t, i) /\ tbl2[t][i] = tbl[t][i]
  BY <1>2, <1>5 DEF Holds
<1>6. ChildrenBelow(tbl2, al2, lev, own)
  <2>1. ASSUME NEW t \in al2, NEW i \in Slots, Holds(tbl2, lev, t, i)
        PROVE  LET c == tbl2[t][i] IN c \in al2 /\ lev[c] = lev[t] + 1 /\ own[c] = own[t]
    <3> DEFINE c == tbl[t][i]
    <3>1. Holds(tbl, lev, t, i) /\ tbl2[t][i] = c /\ t \in al /\ own[t] # r
      BY <1>2, <1>5, <2>1
    <3>2. c \in al /\ lev[c] = lev[t] + 1 /\ own[c] = own[t]
      BY <3>1 DEF Shape, ChildrenBelow
    <3> HIDE DEF c
    <3>3. c \in al2
      BY <1>2, <3>1, <3>2
    <3> QED  BY <3>1, <3>2, <3>3
  <2> QED  BY <2>1 DEF ChildrenBelow
<1>7. OneParent(tbl2, al2, lev)
  <2> SUFFICES ASSUME NEW t \in al2, NEW u \in al2, NEW i \in Slots, NEW j \in Slots,
                      Holds(tbl2, lev, t, i), Holds(tbl2, lev, u, j), tbl2[t][i] = tbl2[u][j]
               PROVE  t = u /\ i = j
    BY DEF OneParent
  <2>1. t \in al /\ u \in al /\ Holds(tbl, lev, t, i) /\ Holds(tbl, lev, u, j) /\ tbl[t][i] = tbl[u][j]
    BY <1>2, <1>5
  <2> QED  BY <2>1 DEF Shape, OneParent
<1>8. HaveParents(tbl2, al2, roots2, lev)
  <2> SUFFICES ASSUME NEW c \in al2 \ roots2
               PROVE  \E t \in al2, i \in Slots : Holds(tbl2, lev, t, i) /\ tbl2[t][i] = c
    BY DEF HaveParents
  <2>1. c \in al /\ own[c] # r
    BY <1>2
  <2>2. c \notin roots
    BY <2>1 DEF roots2, Shape, RootsOnTop
  <2>3. PICK t \in al, i \in Slots : Holds(tbl, lev, t, i) /\ tbl[t][i] = c
    BY <2>1, <2>2 DEF Shape, HaveParents
  <2>4. own[c] = own[t]
    BY <2>3 DEF Shape, ChildrenBelow
  <2>5. t \in al2
    BY <1>2, <2>1, <2>4
  <2>6. tbl2[t] = tbl[t]
    BY <1>2, <2>5
  <2>7. Holds(tbl2, lev, t, i) /\ tbl2[t][i] = c
    BY <2>3, <2>6 DEF Holds
  <2> QED  BY <2>5, <2>7
<1>9. Shape(tbl2, al2, roots2, lev, own)
  BY <1>3, <1>4, <1>6, <1>7, <1>8 DEF Shape
<1> QED  BY <1>9 DEF al2, roots2

\* The page at a below s has the entry it had.
SameEntry(tbl, tbl2, s, a) == Look(tbl2, s, a)[Levels + 1] = Look(tbl, s, a)[Levels + 1]

\* ... and all their entries.
LEMMA FreeKeepsEntries ==
  ASSUME NEW tbl, NEW al, NEW roots, NEW lev, NEW own, Shape(tbl, al, roots, lev, own),
         NEW r \in roots, NEW S, NEW tbl2, Frees(tbl, al, own, r, S, tbl2),
         NEW s \in (roots \ {r}) \cup {0}, NEW a \in Nat
  PROVE  SameEntry(tbl, tbl2, s, a)
<1> DEFINE at == Look(tbl2, s, a)
           bt == Look(tbl, s, a)
<1>1. Shape(tbl2, al \ S, roots \ {r}, lev, own)
  BY FreeKeepsShape
<1>2. Path(tbl2, al \ S, lev, own, s, a, at) /\ Path(tbl, al, lev, own, s, a, bt)
  BY <1>1, LookSteps
<1> HIDE DEF at, bt
<1>3. \A t \in al \ S : tbl2[t] = tbl[t]
  BY DEF Shape, WellTyped, Frees
<1>4. SameInner(tbl2, tbl, al \ S, lev) /\ UpperIndices(a, a)
  BY <1>3 DEF SameInner, UpperIndices
<1>5. AllMeet(at, bt)
  BY <1>2, <1>4, SameIndicesSameWay
<1>6. Levels \in 1 .. Levels
  BY SmallNumbers
<1>7. /\ at[Levels + 1] = IF at[Levels] = 0 THEN 0 ELSE tbl2[at[Levels]][Index(a, Levels)]
      /\ bt[Levels + 1] = IF bt[Levels] = 0 THEN 0 ELSE tbl[bt[Levels]][Index(a, Levels)]
      /\ at[Levels] = 0 \/ at[Levels] \in al \ S
      /\ at[Levels] = bt[Levels]
  <2>1. OnLevel(al \ S, lev, own, s, at, Levels)
    BY <1>2, <1>6 DEF Path
  <2>2. at[Levels] = bt[Levels]
    BY <1>5, <1>6 DEF AllMeet
  <2>3. /\ at[Levels + 1] = IF at[Levels] = 0 THEN 0 ELSE tbl2[at[Levels]][Index(a, Levels)]
        /\ bt[Levels + 1] = IF bt[Levels] = 0 THEN 0 ELSE tbl[bt[Levels]][Index(a, Levels)]
    BY <1>2, <1>6 DEF Path
  <2> QED  BY <2>1, <2>2, <2>3 DEF OnLevel
<1>8. at[Levels + 1] = bt[Levels + 1]
  <2>1. CASE at[Levels] = 0
    BY <1>7, <2>1
  <2>2. CASE at[Levels] # 0
    BY <1>3, <1>7, <2>2
  <2> QED  BY <2>1, <2>2
<1> QED  BY <1>8 DEF at, bt, SameEntry

\* A process that has ended has no entries.
LEMMA NoRootNoEntry ==
  ASSUME NEW tbl, NEW al, NEW roots, NEW lev, NEW own, Shape(tbl, al, roots, lev, own), NEW a \in Nat
  PROVE  Look(tbl, 0, a)[Levels + 1] = 0
<1> DEFINE at == Look(tbl, 0, a)
<1>1. Path(tbl, al, lev, own, 0, a, at)
  BY LookSteps
<1> HIDE DEF at
<1>2. Levels \in 1 .. Levels
  BY SmallNumbers
<1>3. OnLevel(al, lev, own, 0, at, Levels)
  BY <1>1, <1>2 DEF Path
<1>4. \A t \in al : own[t] \in Table
  BY DEF Shape, WellTyped
<1>5. at[Levels] = 0
  BY <1>3, <1>4, SmallNumbers DEF OnLevel
<1>6. at[Levels + 1] = 0
  BY <1>1, <1>2, <1>5 DEF Path
<1> QED  BY <1>6 DEF at

----------------------------------------------------------------------------
(* The invariant.  That the tables form trees does not follow from itself: *)
(* of each table in memory it takes a level and a root, and that a walk    *)
(* which meets it there is the only one that does.                         *)

RootsApart ==
  /\ \A p \in Proc : pgd[p] # krnl_pgd
  /\ \A p, q \in Proc : pgd[p] # 0 /\ pgd[p] = pgd[q] => p = q

TreesInv == PageTableTypeOK /\ RootsApart /\ Trees(tables, alloc, Roots)

\* The roots are those of the processes that have not ended, and that of the kernel.
LEMMA RootMembers ==
  ASSUME NEW r
  PROVE  r \in Roots <=> r # 0 /\ (r = krnl_pgd \/ \E p \in Proc : pgd[p] = r)
BY DEF Roots

\* init_mm() gives every process a root of its own.
LEMMA InitialRoots ==
  ASSUME Init
  PROVE  /\ Cardinality(Proc) \in Nat /\ Cardinality(Proc) + 1 \in Table
         /\ pgd \in [Proc -> 1 .. Cardinality(Proc)]
         /\ \A p, q \in Proc : p # q => pgd[p] # pgd[q]
         /\ \A r \in 1 .. Cardinality(Proc) : \E p \in Proc : pgd[p] = r
<1> DEFINE n == Cardinality(Proc)
           K == 1 .. n
           Apart(f) == \A p, q \in Proc : p # q => f[p] # f[q]
<1>1. n \in Nat /\ n + 1 \in Table
  <2>1. IsFiniteSet(Proc) /\ n < NTables
    BY PageTableAssumption
  <2>2. n \in Nat
    BY <2>1, FS_CardinalityType
  <2> HIDE DEF n
  <2> QED  BY <2>1, <2>2, PageTableAssumption, SMTT(30) DEF Table
<1>2. IsFiniteSet(K) /\ Cardinality(K) = n
  <2> HIDE DEF n
  <2>1. 1 \in Int /\ n \in Int
    BY <1>1, SMTT(30)
  <2>2. IsFiniteSet(K) /\ Cardinality(K) = IF 1 > n THEN 0 ELSE n - 1 + 1
    BY <2>1, FS_Interval
  <2>3. (IF 1 > n THEN 0 ELSE n - 1 + 1) = n
    BY <1>1, SMTT(30)
  <2> QED  BY <2>2, <2>3, SMTT(30)
<1>3. \E f \in [Proc -> K] : Apart(f)
  <2>1. IsFiniteSet(Proc)
    BY PageTableAssumption
  <2>2. ExistsBijection(Proc, K)
    <3> HIDE DEF K
    <3> QED  BY <1>2, <2>1, FS_SameCardinalityBij
  <2>3. PICK f : f \in Bijection(Proc, K)
    BY <2>2 DEF ExistsBijection
  <2>4. f \in [Proc -> K] /\ \A p, q \in Proc : f[p] = f[q] => p = q
    BY <2>3 DEF Bijection, Injection, IsInjective
  <2> QED  BY <2>4
<1>4. pgd = CHOOSE f \in [Proc -> K] : Apart(f)
  BY DEF Init
<1>5. pgd \in [Proc -> K] /\ Apart(pgd)
  <2> DEFINE c == CHOOSE f \in [Proc -> K] : Apart(f)
  <2>1. c \in [Proc -> K] /\ Apart(c)
    BY <1>3
  <2> HIDE DEF c
  <2> QED  BY <1>4, <2>1 DEF c
<1>6. \A r \in K : \E p \in Proc : pgd[p] = r
  <2> HIDE DEF K
  <2>1. pgd \in Injection(Proc, K)
    BY <1>5 DEF Injection, IsInjective
  <2>2. pgd \in Surjection(Proc, K)
    BY <1>2, <2>1, FS_Injection
  <2> QED  BY <2>2 DEF Surjection
<1> QED  BY <1>1, <1>5, <1>6

\* At first all tables are roots.
LEMMA TreesInit == Init => TreesInv
<1> SUFFICES ASSUME Init PROVE TreesInv
  OBVIOUS
<1> DEFINE n == Cardinality(Proc)
           lev == [t \in Table |-> 1]
           own == [t \in Table |-> t]
<1>1. /\ n \in Nat /\ n + 1 \in Table
      /\ pgd \in [Proc -> 1 .. n]
      /\ \A p, q \in Proc : p # q => pgd[p] # pgd[q]
      /\ \A r \in 1 .. n : \E p \in Proc : pgd[p] = r
  BY InitialRoots
<1>2. tables = [t \in Table |-> EmptyTable] /\ krnl_pgd = n + 1 /\ alloc = 1 .. n + 1
  BY DEF Init
<1> HIDE DEF n
<1>3. /\ alloc \subseteq Table /\ krnl_pgd \in alloc
      /\ \A k \in 1 .. n : k \in alloc /\ k # krnl_pgd
      /\ \A k \in alloc : k # 0 /\ (k = n + 1 \/ k \in 1 .. n)
  <2>1. n \in Nat /\ n + 1 <= NTables /\ NTables \in Nat
    BY <1>1, PageTableAssumption, SMTT(30) DEF Table
  <2>2. alloc \subseteq Table /\ krnl_pgd \in alloc
    BY <1>2, <2>1, SMTT(30) DEF Table
  <2>3. \A k \in 1 .. n : k \in 1 .. n + 1 /\ k # n + 1
    BY <2>1, SMTT(30)
  <2>4. \A k \in 1 .. n + 1 : k # 0 /\ (k = n + 1 \/ k \in 1 .. n)
    BY <2>1, SMTT(30)
  <2> QED  BY <1>2, <2>2, <2>3, <2>4
<1>4. \A p \in Proc : pgd[p] \in 1 .. n
  BY <1>1
<1>5. Roots = alloc
  <2>1. ASSUME NEW r \in Roots PROVE r \in alloc
    BY <1>3, <1>4, RootMembers
  <2>2. ASSUME NEW r \in alloc PROVE r \in Roots
    BY <1>1, <1>2, <1>3, RootMembers
  <2> QED  BY <2>1, <2>2
<1>6. RootsApart
  BY <1>1, <1>3, <1>4 DEF RootsApart
<1>7. EmptyTable \in [Slots -> Nat] /\ \A i \in Slots : EmptyTable[i] = 0
  BY SmallNumbers DEF EmptyTable
<1>8. tables \in [Table -> [Slots -> Nat]] /\ \A t \in Table, i \in Slots : tables[t][i] = 0
  BY <1>2, <1>7
<1>9. PageTableTypeOK
  <2>1. pgd \in [Proc -> alloc \cup {0}]
    <3>1. \A p \in Proc : pgd[p] \in alloc \cup {0}
      BY <1>3, <1>4
    <3> QED  BY <1>1, <3>1
  <2> QED  BY <1>3, <1>8, <2>1 DEF PageTableTypeOK
<1>10. Shape(tables, alloc, alloc, lev, own)
  <2>1. /\ \A t \in alloc, i \in Slots : ~Holds(tables, lev, t, i)
        /\ \A t \in alloc : lev[t] = 1 /\ own[t] = t
    BY <1>3, <1>8 DEF Holds
  <2>2. lev \in [Table -> 1 .. Levels] /\ own \in [Table -> Table]
    BY SmallNumbers
  <2> HIDE DEF lev, own
  <2>3. WellTyped(tables, alloc, alloc, lev, own) /\ RootsOnTop(alloc, alloc, lev, own)
    BY <1>3, <1>8, <2>1, <2>2 DEF WellTyped, RootsOnTop
  <2>4. ChildrenBelow(tables, alloc, lev, own) /\ OneParent(tables, alloc, lev)
    BY <2>1 DEF ChildrenBelow, OneParent
  <2>5. HaveParents(tables, alloc, alloc, lev)
    BY DEF HaveParents
  <2> QED  BY <2>3, <2>4, <2>5 DEF Shape
<1> QED  BY <1>5, <1>6, <1>9, <1>10 DEF TreesInv, Trees

\* What a range of user pages leaves behind.
LEMMA MapRangeWrites ==
  ASSUME TreesInv, NEW p \in Proc, NEW addr \in Address, NEW pgnum \in 1 .. MaxRange,
         NEW v \in Entry, map_range(p, addr, pgnum, v)
  PROVE  /\ Trees(tables', alloc', Roots)
         /\ \E m \in 0 .. pgnum : Written(tables, tables', Roots, pgd[p], UserPages,
                                          addr \div PAGESZ, m, [g \in Nat |-> v])
<1> DEFINE val == [g \in Nat |-> v]
           w == StoreRange(p, addr, pgnum, val)
           r == pgd[p]
           f == addr \div PAGESZ
<1>1. /\ pgd[p] # 0 /\ validate_page_range(addr, pgnum) /\ ~is_kernel_address(addr)
      /\ tables' = w.tables /\ alloc' = w.alloc
  BY DEF map_range
<1>2. Root(p, addr) = r /\ SidePages(addr) = UserPages
  BY <1>1 DEF Root, SidePages
<1>3. r \in Roots
  BY <1>1, RootMembers
<1>4. val \in [Nat -> Nat]
  BY PageTableAssumption
<1> HIDE DEF val
<1>5. Trees(tables, alloc, Roots)
  BY DEF TreesInv
<1>6. Ranged(tables, Roots, r, SidePages(addr), f, pgnum, val, w)
  BY <1>1, <1>2, <1>3, <1>4, <1>5, StoreRangeIsGood
<1> HIDE DEF w, r, f
<1>7. PICK tb, al, t, m : /\ w = Walking(tb, al, t) /\ Trees(tb, al, Roots)
                          /\ m \in 0 .. pgnum /\ Written(tables, tb, Roots, r, SidePages(addr), f, m, val)
  BY <1>6 DEF Ranged
<1>8. tables' = tb /\ alloc' = al
  BY <1>1, <1>7 DEF Walking
<1> QED  BY <1>2, <1>7, <1>8 DEF r, f, val

\* A range of kernel pages gets its entries or loses them, as a whole.
WrittenAll(addr, pgnum, val) ==
  Written(tables, tables', Roots, krnl_pgd, KernelPages, addr \div PAGESZ, pgnum, val)

\* What the two actions on the kernel's tables start from.
LEMMA KernelStart ==
  ASSUME TreesInv, NEW addr \in Address, NEW pgnum \in 1 .. MaxRange, KernelRange(addr, pgnum)
  PROVE  /\ is_kernel_address(addr) /\ validate_page_range(addr, pgnum) /\ krnl_pgd \in Roots
         /\ Trees(tables, alloc, Roots) /\ addr \div PAGESZ \in Nat /\ pgnum \in Nat
<1>1. is_kernel_address(addr) /\ validate_page_range(addr, pgnum)
  BY DEF KernelRange
<1>2. krnl_pgd # 0
  BY SmallNumbers DEF TreesInv, PageTableTypeOK
<1>3. addr \in Nat /\ pgnum \in Nat
  BY PageTableAssumption, SMTT(30) DEF Address
<1>4. addr \div PAGESZ \in Nat
  BY <1>3, DivParts, Sizes
<1> QED  BY <1>1, <1>2, <1>3, <1>4, RootMembers DEF TreesInv

\* kernel_alloc_contiguous_region() maps all its pages or leaves none mapped.
LEMMA KernelAllocWrites ==
  ASSUME TreesInv, NEW addr \in Address, NEW pgnum \in 1 .. MaxRange,
         kernel_alloc_contiguous_region(addr, pgnum)
  PROVE  /\ Trees(tables', alloc', Roots)
         /\ WrittenAll(addr, pgnum, kernel_pte) \/ WrittenAll(addr, pgnum, Zeros)
<1> DEFINE w == StoreRange(AnyProc, addr, pgnum, kernel_pte)
           f == addr \div PAGESZ
<1>1. /\ KernelRange(addr, pgnum) /\ alloc' = w.alloc
      /\ tables' = IF w.at = 0 THEN Erased(w.tables, addr, pgnum) ELSE w.tables
  BY DEF kernel_alloc_contiguous_region
<1>2. /\ is_kernel_address(addr) /\ validate_page_range(addr, pgnum) /\ krnl_pgd \in Roots
      /\ Trees(tables, alloc, Roots) /\ f \in Nat /\ pgnum \in Nat
  BY <1>1, KernelStart
<1>3. Root(AnyProc, addr) = krnl_pgd /\ SidePages(addr) = KernelPages
  BY <1>2 DEF Root, SidePages
<1>4. kernel_pte \in [Nat -> Nat]
  BY SMTT(30) DEF kernel_pte
<1>5. Ranged(tables, Roots, krnl_pgd, SidePages(addr), f, pgnum, kernel_pte, w)
  BY <1>2, <1>3, <1>4, StoreRangeIsGood
<1> HIDE DEF w, f
<1>6. PICK tb, al, t, m : /\ w = Walking(tb, al, t) /\ Trees(tb, al, Roots)
                          /\ m \in 0 .. pgnum /\ (t # 0 => m = pgnum)
                          /\ Written(tables, tb, Roots, krnl_pgd, SidePages(addr), f, m, kernel_pte)
  BY <1>5 DEF Ranged
<1>7. /\ alloc' = al
      /\ tables' = IF t = 0 THEN Erased(tb, addr, pgnum) ELSE tb
  BY <1>1, <1>6 DEF Walking
<1>8. Written(tables, tb, Roots, krnl_pgd, KernelPages, f, m, kernel_pte)
  BY <1>3, <1>6
<1>9. CASE t # 0
  BY <1>6, <1>7, <1>8, <1>9 DEF WrittenAll, f
<1>10. CASE t = 0
  <2>1. PICK lev, own : Shape(tb, al, Roots, lev, own)
    BY <1>6 DEF Trees
  <2> DEFINE tb2 == Erased(tb, addr, pgnum)
  <2>2. /\ Trees(tb2, al, Roots)
        /\ Written(tb, tb2, Roots, krnl_pgd, KernelPages, f, pgnum, Zeros)
    BY <1>2, <2>1, ErasedIsGood DEF f
  <2>3. tables' = tb2
    BY <1>7, <1>10
  <2> HIDE DEF tb2
  <2>4. Written(tables, tb2, Roots, krnl_pgd, KernelPages, f, pgnum, Zeros)
    BY <1>2, <1>6, <1>8, <2>2, WrittenThenErased
  <2> QED  BY <1>7, <2>2, <2>3, <2>4 DEF WrittenAll, f
<1> QED  BY <1>9, <1>10

\* kernel_release_contiguous_region() takes the entries of its pages away.
LEMMA KernelReleaseWrites ==
  ASSUME TreesInv, NEW addr \in Address, NEW pgnum \in 1 .. MaxRange,
         kernel_release_contiguous_region(addr, pgnum)
  PROVE  Trees(tables', alloc', Roots) /\ WrittenAll(addr, pgnum, Zeros)
<1>1. KernelRange(addr, pgnum) /\ tables' = Erased(tables, addr, pgnum) /\ alloc' = alloc
  BY DEF kernel_release_contiguous_region
<1>2. /\ is_kernel_address(addr) /\ validate_page_range(addr, pgnum) /\ krnl_pgd \in Roots
      /\ Trees(tables, alloc, Roots)
  BY <1>1, KernelStart
<1>3. PICK lev, own : Shape(tables, alloc, Roots, lev, own)
  BY <1>2 DEF Trees
<1>4. /\ Trees(Erased(tables, addr, pgnum), alloc, Roots)
      /\ Written(tables, Erased(tables, addr, pgnum), Roots, krnl_pgd, KernelPages,
                 addr \div PAGESZ, pgnum, Zeros)
  BY <1>2, <1>3, ErasedIsGood
<1> QED  BY <1>1, <1>4 DEF WrittenAll

\* A step that leaves the roots alone and the tables trees keeps the invariant.
LEMMA TablesStep ==
  ASSUME TreesInv, UNCHANGED <<pgd, krnl_pgd>>, Trees(tables', alloc', Roots)
  PROVE  TreesInv'
<1>1. pgd' = pgd /\ krnl_pgd' = krnl_pgd
  OBVIOUS
<1>2. Roots' = Roots /\ RootsApart'
  BY <1>1 DEF TreesInv, RootsApart, Roots
<1>4. PICK lev, own : Shape(tables', alloc', Roots, lev, own)
  BY DEF Trees
<1>5. tables' \in [Table -> [Slots -> Nat]] /\ alloc' \subseteq Table /\ Roots \subseteq alloc'
  BY <1>4 DEF Shape, WellTyped
<1>6. krnl_pgd # 0 /\ pgd \in [Proc -> alloc \cup {0}]
  BY SmallNumbers DEF TreesInv, PageTableTypeOK
<1>7. pgd \in [Proc -> alloc' \cup {0}]
  <2>1. \A q \in Proc : pgd[q] \in alloc' \cup {0}
    BY <1>5, RootMembers
  <2> QED  BY <1>6, <2>1
<1>8. PageTableTypeOK'
  BY <1>1, <1>5, <1>6, <1>7, RootMembers DEF PageTableTypeOK
<1>9. Trees(tables, alloc, Roots)'
  BY <1>2
<1> QED  BY <1>2, <1>8, <1>9 DEF TreesInv

\* The end of a process, seen from the trees.
LEMMA FreeMmFrees ==
  ASSUME TreesInv, NEW p \in Proc, free_mm(p)
  PROVE  \E lev, own, S :
           /\ Shape(tables, alloc, Roots, lev, own) /\ Frees(tables, alloc, own, pgd[p], S, tables')
           /\ alloc' = alloc \ S /\ Roots' = Roots \ {pgd[p]} /\ pgd[p] \in Roots
<1>1. PICK lev, own : Shape(tables, alloc, Roots, lev, own)
  BY DEF TreesInv, Trees
<1> DEFINE r == pgd[p]
           S == TreeTo(r, Levels)
<1>2. /\ r # 0 /\ alloc' = alloc \ S
      /\ tables' = [t \in Table |-> IF t \in S THEN EmptyTable ELSE tables[t]]
      /\ pgd' = [pgd EXCEPT ![p] = 0] /\ krnl_pgd' = krnl_pgd
  BY DEF free_mm
<1>3. r \in Roots
  BY <1>2, RootMembers
<1>4. S = {t \in alloc : own[t] = r}
  <2>1. OwnsTree(own, r)
    BY <1>1, <1>3, WholeTree
  <2> QED  BY <2>1 DEF OwnsTree
<1>5. /\ pgd \in [Proc -> alloc \cup {0}] /\ krnl_pgd # 0
      /\ \A q \in Proc : q # p => pgd[q] # r
      /\ krnl_pgd # r
  BY <1>2, SmallNumbers DEF TreesInv, PageTableTypeOK, RootsApart
<1> HIDE DEF r, S
<1>6. pgd'[p] = 0 /\ \A q \in Proc : q # p => pgd'[q] = pgd[q]
  BY <1>2, <1>5
<1>7. Roots' = Roots \ {r}
  <2>1. Roots' = ({pgd'[q] : q \in Proc} \cup {krnl_pgd}) \ {0}
    BY <1>2 DEF Roots
  <2>2. ASSUME NEW x \in Roots' PROVE x \in Roots \ {r}
    <3>1. x # 0 /\ (x = krnl_pgd \/ \E q \in Proc : pgd'[q] = x)
      BY <2>1
    <3>2. CASE x = krnl_pgd
      BY <1>5, <3>2, RootMembers
    <3>3. CASE \E q \in Proc : pgd'[q] = x
      <4>1. PICK q \in Proc : pgd'[q] = x
        BY <3>3
      <4>2. q # p
        BY <1>6, <3>1, <4>1
      <4>3. pgd[q] = x /\ x # r
        BY <1>5, <1>6, <4>1, <4>2
      <4> QED  BY <3>1, <4>3, RootMembers
    <3> QED  BY <3>1, <3>2, <3>3
  <2>3. ASSUME NEW x \in Roots \ {r} PROVE x \in Roots'
    <3>1. x # 0 /\ (x = krnl_pgd \/ \E q \in Proc : pgd[q] = x)
      BY RootMembers
    <3>2. CASE x = krnl_pgd
      BY <2>1, <3>1, <3>2
    <3>3. CASE \E q \in Proc : pgd[q] = x
      <4>1. PICK q \in Proc : pgd[q] = x
        BY <3>3
      <4>2. q # p
        BY <4>1 DEF r
      <4> QED  BY <1>6, <2>1, <3>1, <4>1, <4>2
    <3> QED  BY <3>1, <3>2, <3>3
  <2> QED  BY <2>2, <2>3
<1>8. Frees(tables, alloc, own, r, S, tables')
  BY <1>2, <1>4 DEF Frees
<1> QED  BY <1>1, <1>2, <1>3, <1>7, <1>8 DEF r

\* The end of a process leaves the other trees as they are.
LEMMA FreeMmKeepsTrees ==
  ASSUME TreesInv, NEW p \in Proc, free_mm(p)
  PROVE  TreesInv'
<1>1. PICK lev, own, S :
        /\ Shape(tables, alloc, Roots, lev, own) /\ Frees(tables, alloc, own, pgd[p], S, tables')
        /\ alloc' = alloc \ S /\ Roots' = Roots \ {pgd[p]} /\ pgd[p] \in Roots
  BY FreeMmFrees
<1>2. Shape(tables', alloc \ S, Roots \ {pgd[p]}, lev, own)
  BY <1>1, FreeKeepsShape
<1>3. Shape(tables', alloc', Roots', lev, own)
  BY <1>1, <1>2
<1>4. /\ pgd' = [pgd EXCEPT ![p] = 0] /\ krnl_pgd' = krnl_pgd /\ pgd[p] # 0
      /\ pgd \in [Proc -> alloc \cup {0}] /\ krnl_pgd # 0
  BY SmallNumbers DEF free_mm, TreesInv, PageTableTypeOK
<1>5. pgd'[p] = 0 /\ \A q \in Proc : q # p => pgd'[q] = pgd[q]
  BY <1>4
<1>6. RootsApart'
  <2>1. \A q \in Proc : pgd'[q] # krnl_pgd
    BY <1>4, <1>5 DEF TreesInv, RootsApart
  <2>2. ASSUME NEW q \in Proc, NEW s \in Proc, pgd'[q] # 0, pgd'[q] = pgd'[s] PROVE q = s
    <3>1. q # p /\ s # p
      BY <1>5, <2>2
    <3> QED  BY <1>5, <2>2, <3>1 DEF TreesInv, RootsApart
  <2> QED  BY <1>4, <2>1, <2>2 DEF RootsApart
<1>7. /\ tables' \in [Table -> [Slots -> Nat]] /\ alloc' \subseteq Table /\ Roots' \subseteq alloc'
  BY <1>3 DEF Shape, WellTyped
<1>8. krnl_pgd \in alloc' /\ \A q \in Proc : pgd'[q] \in alloc' \cup {0}
  <2>1. Roots' = ({pgd'[q] : q \in Proc} \cup {krnl_pgd}) \ {0}
    BY <1>4 DEF Roots
  <2>2. krnl_pgd \in Roots' /\ \A q \in Proc : pgd'[q] # 0 => pgd'[q] \in Roots'
    BY <1>4, <2>1
  <2> QED  BY <1>7, <2>2
<1>9. pgd' \in [Proc -> alloc' \cup {0}]
  <2>1. pgd' = [q \in Proc |-> pgd'[q]]
    BY <1>4
  <2> QED  BY <1>8, <2>1
<1>10. PageTableTypeOK'
  BY <1>4, <1>7, <1>8, <1>9 DEF PageTableTypeOK
<1>11. Trees(tables, alloc, Roots)'
  BY <1>3 DEF Trees
<1> QED  BY <1>6, <1>10, <1>11 DEF TreesInv

\* What a step is.
LEMMA NextSteps ==
  ASSUME Next
  PROVE  \/ \E p \in Proc, addr \in Address, pgnum \in 1 .. MaxRange, v \in Entry : map_range(p, addr, pgnum, v)
         \/ \E addr \in Address, pgnum \in 1 .. MaxRange : kernel_alloc_contiguous_region(addr, pgnum)
         \/ \E addr \in Address, pgnum \in 1 .. MaxRange : kernel_release_contiguous_region(addr, pgnum)
         \/ \E p \in Proc : free_mm(p)
<1>1. \A r \in Ranges : r[1] \in Address /\ r[2] \in 1 .. MaxRange
  BY SMTT(30) DEF Ranges
<1> HIDE DEF Ranges
<1> QED  BY <1>1 DEF Next

\* The tables are trees in every state, whatever is mapped and whoever ends.
THEOREM TreesInvariant == Spec => []TreesInv
<1>1. ASSUME TreesInv, Next PROVE TreesInv'
  <2>1. CASE \E p \in Proc, addr \in Address, pgnum \in 1 .. MaxRange, v \in Entry : map_range(p, addr, pgnum, v)
    <3>1. PICK p \in Proc, addr \in Address, pgnum \in 1 .. MaxRange, v \in Entry : map_range(p, addr, pgnum, v)
      BY <2>1
    <3>2. UNCHANGED <<pgd, krnl_pgd>>
      BY <3>1 DEF map_range
    <3> QED  BY <1>1, <3>1, <3>2, MapRangeWrites, TablesStep
  <2>2. CASE \E addr \in Address, pgnum \in 1 .. MaxRange : kernel_alloc_contiguous_region(addr, pgnum)
    <3>1. PICK addr \in Address, pgnum \in 1 .. MaxRange : kernel_alloc_contiguous_region(addr, pgnum)
      BY <2>2
    <3>2. UNCHANGED <<pgd, krnl_pgd>>
      BY <3>1 DEF kernel_alloc_contiguous_region
    <3> QED  BY <1>1, <3>1, <3>2, KernelAllocWrites, TablesStep
  <2>3. CASE \E addr \in Address, pgnum \in 1 .. MaxRange : kernel_release_contiguous_region(addr, pgnum)
    <3>1. PICK addr \in Address, pgnum \in 1 .. MaxRange : kernel_release_contiguous_region(addr, pgnum)
      BY <2>3
    <3>2. UNCHANGED <<pgd, krnl_pgd>>
      BY <3>1 DEF kernel_release_contiguous_region
    <3> QED  BY <1>1, <3>1, <3>2, KernelReleaseWrites, TablesStep
  <2>4. CASE \E p \in Proc : free_mm(p)
    BY <1>1, <2>4, FreeMmKeepsTrees
  <2> QED  BY <1>1, <2>1, <2>2, <2>3, <2>4, NextSteps
<1>2. ASSUME TreesInv, UNCHANGED vars PROVE TreesInv'
  BY <1>2 DEF vars, TreesInv, PageTableTypeOK, RootsApart, Roots
<1> QED  BY <1>1, <1>2, TreesInit, PTL DEF Spec

----------------------------------------------------------------------------
(* The trees.                                                              *)

\* The slots of the tables above the last level of the tree of r that hold a table,
\* and the tables they hold.
FullSlots(r) == {x \in Inner(r) \X Slots : tables[x[1]][x[2]] # 0}

\* Each table but the root is in exactly one of them.
LEMMA FullSlotsCount ==
  ASSUME NEW lev, NEW own, Shape(tables, alloc, Roots, lev, own), NEW r \in Roots
  PROVE  Cardinality(FullSlots(r)) = Cardinality(TreeTo(r, Levels)) - 1
<1> DEFINE U == TreeTo(r, Levels)
           P == FullSlots(r)
           f == [x \in P |-> tables[x[1]][x[2]]]
<1>1. U = {t \in alloc : own[t] = r}
  <2>1. OwnsTree(own, r)
    BY WholeTree
  <2> QED  BY <2>1 DEF OwnsTree
<1>2. Inner(r) = Upper(alloc, lev, own, r, Levels - 1)
  <2>1. Levels - 1 \in 1 .. Levels
    BY SmallNumbers, SMTT(30)
  <2>2. ASSUME NEW l \in 1 .. Levels PROVE TreeTo(r, l) = Upper(alloc, lev, own, r, l)
    BY TreeIsOwned
  <2> QED  BY <2>1, <2>2 DEF Inner
<1>3. /\ alloc \subseteq Table /\ r \in alloc /\ own[r] = r /\ r \in Roots /\ lev[r] = 1
      /\ \A t \in alloc : lev[t] \in 1 .. Levels
  BY DEF Shape, WellTyped, RootsOnTop
<1>4. ASSUME NEW t \in alloc PROVE t \in Inner(r) <=> own[t] = r /\ lev[t] < Levels
  <2>1. lev[t] <= Levels - 1 <=> lev[t] < Levels
    BY <1>3, SmallNumbers, SMTT(30)
  <2> QED  BY <1>2, <2>1 DEF Upper
<1>5. Inner(r) \subseteq alloc
  BY <1>2 DEF Upper
<1>6. IsFiniteSet(U) /\ IsFiniteSet(U \ {r}) /\ Cardinality(U \ {r}) = Cardinality(U) - 1
  <2>1. 1 \in Int /\ NTables \in Int
    BY PageTableAssumption, SMTT(30)
  <2>2. IsFiniteSet(Table)
    BY <2>1, FS_Interval DEF Table
  <2>3. U \in SUBSET Table /\ r \in U
    BY <1>1, <1>3
  <2> HIDE DEF U
  <2>4. IsFiniteSet(U)
    BY <2>2, <2>3, FS_Subset
  <2>5. IsFiniteSet(U \ {r}) /\ Cardinality(U \ {r}) = IF r \in U THEN Cardinality(U) - 1 ELSE Cardinality(U)
    BY <2>4, FS_RemoveElement
  <2> QED  BY <2>3, <2>4, <2>5
<1>7. ASSUME NEW x \in P
      PROVE  /\ x[1] \in alloc /\ own[x[1]] = r /\ x[2] \in Slots /\ Holds(tables, lev, x[1], x[2])
             /\ x = <<x[1], x[2]>>
  <2>1. x[1] \in Inner(r) /\ x[2] \in Slots /\ tables[x[1]][x[2]] # 0 /\ x = <<x[1], x[2]>>
    BY SMTT(30) DEF FullSlots
  <2> QED  BY <1>4, <1>5, <2>1 DEF Holds
<1>8. f \in [P -> U \ {r}]
  <2>1. ASSUME NEW x \in P PROVE tables[x[1]][x[2]] \in U \ {r}
    <3> DEFINE c == tables[x[1]][x[2]]
    <3>1. c \in alloc /\ lev[c] = lev[x[1]] + 1 /\ own[c] = own[x[1]]
      BY <1>7 DEF Shape, ChildrenBelow
    <3>2. lev[x[1]] \in 1 .. Levels
      BY <1>3, <1>7
    <3> HIDE DEF c
    <3>3. lev[c] # 1
      BY <3>1, <3>2, SMTT(30)
    <3>4. c \in U \ {r}
      BY <1>1, <1>3, <1>7, <3>1, <3>3
    <3> QED  BY <3>4 DEF c
  <2> HIDE DEF P, U
  <2> QED  BY <2>1
<1>9. f \in Injection(P, U \ {r})
  <2>1. ASSUME NEW x \in P, NEW y \in P, f[x] = f[y] PROVE x = y
    <3>1. tables[x[1]][x[2]] = tables[y[1]][y[2]]
      BY <2>1
    <3>2. OneParent(tables, alloc, lev)
      BY DEF Shape
    <3>3. /\ x[1] \in alloc /\ x[2] \in Slots /\ Holds(tables, lev, x[1], x[2])
          /\ y[1] \in alloc /\ y[2] \in Slots /\ Holds(tables, lev, y[1], y[2])
      BY <1>7
    <3> DEFINE t == x[1]  i == x[2]  u == y[1]  j == y[2]
    <3> HIDE DEF t, i, u, j
    <3>4. /\ t \in alloc /\ i \in Slots /\ Holds(tables, lev, t, i)
          /\ u \in alloc /\ j \in Slots /\ Holds(tables, lev, u, j)
          /\ tables[t][i] = tables[u][j]
      BY <3>1, <3>3 DEF t, i, u, j
    <3>5. t = u /\ i = j
      BY <3>2, <3>4 DEF OneParent
    <3>6. x[1] = y[1] /\ x[2] = y[2]
      BY <3>5 DEF t, i, u, j
    <3>7. x = <<x[1], x[2]>> /\ y = <<y[1], y[2]>>
      BY <1>7
    <3> QED  BY <3>6, <3>7
  <2>2. DOMAIN f = P
    OBVIOUS
  <2> HIDE DEF f, P, U
  <2> QED  BY <1>8, <2>1, <2>2 DEF Injection, IsInjective
<1>10. f \in Surjection(P, U \ {r})
  <2>1. ASSUME NEW c \in U \ {r} PROVE \E x \in P : f[x] = c
    <3>1. c \in alloc /\ own[c] = r /\ c # r
      BY <1>1
    <3>2. c \notin Roots
      BY <3>1 DEF Shape, RootsOnTop
    <3>3. PICK t \in alloc, i \in Slots : Holds(tables, lev, t, i) /\ tables[t][i] = c
      BY <3>1, <3>2 DEF Shape, HaveParents
    <3>4. own[t] = r /\ lev[t] < Levels /\ c # 0
      BY <3>1, <3>3 DEF Shape, ChildrenBelow, Holds
    <3>5. t \in Inner(r)
      BY <1>4, <3>4
    <3> DEFINE x == <<t, i>>
    <3>6. x \in Inner(r) \X Slots /\ x[1] = t /\ x[2] = i
      BY <3>5, SMTT(30)
    <3> HIDE DEF x
    <3>7. x \in P
      BY <3>3, <3>4, <3>6 DEF FullSlots
    <3>8. f[x] = c
      BY <3>3, <3>6, <3>7
    <3> QED  BY <3>7, <3>8
  <2> HIDE DEF f, P, U
  <2> QED  BY <1>8, <2>1 DEF Surjection
<1> HIDE DEF f, P, U
<1>11. Cardinality(P) = Cardinality(U \ {r})
  BY <1>6, <1>9, <1>10, FS_Injection
<1>12. Cardinality(P) = Cardinality(U) - 1
  BY <1>6, <1>11
<1> QED  BY <1>12 DEF P, U

\* Every table in memory is in the tree of exactly one root and has one parent
\* there: what free_mm_tables_recursive() frees at the end of a process is what the
\* walks for the process created, once, and nothing else.
THEOREM TablesAreTrees == Spec => []TablesFormTrees
<1>1. ASSUME TreesInv PROVE TablesFormTrees
  <2>1. PICK lev, own : Shape(tables, alloc, Roots, lev, own)
    BY <1>1 DEF TreesInv, Trees
  <2>2. ASSUME NEW r \in Roots PROVE TreeTo(r, Levels) = {t \in alloc : own[t] = r}
    <3>1. OwnsTree(own, r)
      BY <2>1, WholeTree
    <3> QED  BY <3>1 DEF OwnsTree
  <2>3. \A t \in alloc : own[t] \in Roots
    BY <2>1 DEF Shape, RootsOnTop
  <2>4. UNION {TreeTo(r, Levels) : r \in Roots} = alloc
    BY <2>2, <2>3
  <2>5. \A r, s \in Roots : r # s => TreeTo(r, Levels) \cap TreeTo(s, Levels) = {}
    BY <2>2
  <2>6. ASSUME NEW r \in Roots
        PROVE  Cardinality(FullSlots(r)) = Cardinality(TreeTo(r, Levels)) - 1
    BY <2>1, FullSlotsCount
  <2> QED  BY <1>1, <2>4, <2>5, <2>6 DEF TreesInv, TablesFormTrees, FullSlots
<1> QED  BY <1>1, TreesInvariant, PTL

----------------------------------------------------------------------------
(* Empty tables.                                                           *)

EmptyEntries(tbl) == \A t \in Table, i \in Slots : tbl[t][i] = 0
NoEntry(tbl, root, a) == Look(tbl, root, a)[Levels + 1] = 0

\* In tables that are all empty every walk ends at nothing.
LEMMA EmptyTablesNoEntry ==
  ASSUME NEW tbl, NEW al, NEW roots, NEW lev, NEW own, Shape(tbl, al, roots, lev, own),
         EmptyEntries(tbl), NEW r \in roots \cup {0}, NEW a \in Nat
  PROVE  NoEntry(tbl, r, a)
<1> DEFINE at == Look(tbl, r, a)
<1>1. Path(tbl, al, lev, own, r, a, at)
  BY LookSteps
<1> HIDE DEF at
<1>2. Levels \in 1 .. Levels
  BY SmallNumbers
<1>3. OnLevel(al, lev, own, r, at, Levels)
  BY <1>1, <1>2 DEF Path
<1>4. CASE at[Levels] = 0
  <2>1. at[Levels + 1] = 0
    BY <1>1, <1>2, <1>4 DEF Path
  <2> QED  BY <2>1 DEF at, NoEntry
<1>5. CASE at[Levels] # 0
  <2>1. at[Levels] \in al /\ al \subseteq Table
    BY <1>3, <1>5 DEF OnLevel, Shape, WellTyped
  <2>2. at[Levels + 1] = tbl[at[Levels]][Index(a, Levels)] /\ Index(a, Levels) \in Slots
    BY <1>1, <1>2, <1>5, IndexIsSlot DEF Path
  <2>3. at[Levels + 1] = 0
    BY <2>1, <2>2 DEF EmptyEntries
  <2> QED  BY <2>3 DEF at, NoEntry
<1> QED  BY <1>4, <1>5

----------------------------------------------------------------------------
(* The flat map.                                                           *)

UserMap == [p \in Proc |-> [g \in UserPages |-> pte_get_entry(p, g * PAGESZ)]]
KernelMap == [g \in KernelPages |-> pte_get_entry(AnyProc, g * PAGESZ)]

EntryIn(tbl, root, g) == Look(tbl, root, g * PAGESZ)[Levels + 1]

\* pte_get_entry() looks for a user page below the root of the process.
LEMMA UserEntries ==
  ASSUME NEW p \in Proc, NEW g \in UserPages
  PROVE  /\ UserMap[p][g] = EntryIn(tables, pgd[p], g)
         /\ UserMap'[p][g] = EntryIn(tables', pgd'[p], g)
<1> DEFINE a == g * PAGESZ
<1>1. ~is_kernel_address(a)
  BY PagesHaveSides
<1>2. Root(p, a) = pgd[p] /\ Root(p, a)' = pgd'[p]
  BY <1>1 DEF Root
<1>3. /\ pte_get_entry(p, a) = Look(tables, Root(p, a), a)[Levels + 1]
      /\ pte_get_entry(p, a)' = Look(tables', Root(p, a)', a)[Levels + 1]
  BY DEF pte_get_entry
<1>4. UserMap[p][g] = pte_get_entry(p, a) /\ UserMap'[p][g] = pte_get_entry(p, a)'
  BY DEF UserMap
<1> QED  BY <1>2, <1>3, <1>4 DEF EntryIn

\* ... and for a kernel page below that of the kernel.
LEMMA KernelEntries ==
  ASSUME NEW g \in KernelPages
  PROVE  /\ KernelMap[g] = EntryIn(tables, krnl_pgd, g)
         /\ KernelMap'[g] = EntryIn(tables', krnl_pgd', g)
<1> DEFINE a == g * PAGESZ
           p == AnyProc
<1>1. is_kernel_address(a)
  BY PagesHaveSides
<1>2. KernelMap[g] = pte_get_entry(p, a) /\ KernelMap'[g] = pte_get_entry(p, a)'
  BY DEF KernelMap
<1> HIDE DEF p
<1>3. Root(p, a) = krnl_pgd /\ Root(p, a)' = krnl_pgd'
  BY <1>1 DEF Root
<1>4. /\ pte_get_entry(p, a) = Look(tables, Root(p, a), a)[Levels + 1]
      /\ pte_get_entry(p, a)' = Look(tables', Root(p, a)', a)[Levels + 1]
  BY DEF pte_get_entry
<1> QED  BY <1>2, <1>3, <1>4 DEF EntryIn

\* The two maps are functions of the pages.
LEMMA MapDomains ==
  /\ DOMAIN KernelMap = KernelPages
  /\ \A p \in Proc : DOMAIN UserMap[p] = UserPages
BY DEF UserMap, KernelMap

\* Steps that change no entry leave the maps alone.
LEMMA SameUser ==
  ASSUME NEW p \in Proc, \A g \in UserPages : UserMap'[p][g] = UserMap[p][g]
  PROVE  UserMap'[p] = UserMap[p]
<1>1. /\ UserMap[p] = [g \in UserPages |-> pte_get_entry(p, g * PAGESZ)]
      /\ UserMap'[p] = [g \in UserPages |-> pte_get_entry(p, g * PAGESZ)']
  BY DEF UserMap
<1>2. /\ UserMap[p] = [g \in UserPages |-> UserMap[p][g]]
      /\ UserMap'[p] = [g \in UserPages |-> UserMap'[p][g]]
  BY <1>1
<1> QED  BY <1>2

\* The same for all processes.
LEMMA SameUsers ==
  ASSUME \A p \in Proc : UserMap'[p] = UserMap[p]
  PROVE  UserMap' = UserMap
<1>1. UserMap = [p \in Proc |-> UserMap[p]] /\ UserMap' = [p \in Proc |-> UserMap'[p]]
  BY DEF UserMap
<1> QED  BY <1>1

\* The same for the kernel.
LEMMA SameKernel ==
  ASSUME \A g \in KernelPages : KernelMap'[g] = KernelMap[g]
  PROVE  KernelMap' = KernelMap
<1>1. KernelMap = [g \in KernelPages |-> KernelMap[g]] /\ KernelMap' = [g \in KernelPages |-> KernelMap'[g]]
  BY DEF KernelMap
<1> QED  BY <1>1

\* The map starts empty.
LEMMA MapInit == Init => Map!Init
<1> SUFFICES ASSUME Init PROVE Map!Init
  OBVIOUS
<1>1. TreesInv
  BY TreesInit
<1>2. tables = [t \in Table |-> EmptyTable]
  BY DEF Init
<1>3. EmptyEntries(tables)
  BY <1>2 DEF EmptyEntries, EmptyTable
<1>4. ASSUME NEW r \in Roots \cup {0}, NEW a \in Nat PROVE NoEntry(tables, r, a)
  <2>1. PICK lev, own : Shape(tables, alloc, Roots, lev, own)
    BY <1>1 DEF TreesInv, Trees
  <2> QED  BY <1>3, <2>1, EmptyTablesNoEntry
<1>5. ASSUME NEW p \in Proc, NEW g \in UserPages PROVE UserMap[p][g] = 0
  <2>1. pgd[p] \in Roots \cup {0} /\ g * PAGESZ \in Nat
    BY RootMembers, PagesHaveSides
  <2>2. NoEntry(tables, pgd[p], g * PAGESZ)
    BY <1>4, <2>1
  <2> QED  BY <2>2, UserEntries DEF NoEntry, EntryIn
<1>6. ASSUME NEW g \in KernelPages PROVE KernelMap[g] = 0
  <2>1. krnl_pgd \in Roots \cup {0} /\ g * PAGESZ \in Nat
    BY RootMembers, PagesHaveSides
  <2>2. NoEntry(tables, krnl_pgd, g * PAGESZ)
    BY <1>4, <2>1
  <2> QED  BY <2>2, KernelEntries DEF NoEntry, EntryIn
<1>7. UserMap = [p \in Proc |-> [g \in UserPages |-> 0]]
  <2>1. ASSUME NEW p \in Proc, NEW g \in UserPages PROVE pte_get_entry(p, g * PAGESZ) = 0
    BY <1>5 DEF UserMap
  <2> QED  BY <2>1 DEF UserMap
<1>8. KernelMap = [g \in KernelPages |-> 0]
  <2>1. ASSUME NEW g \in KernelPages PROVE pte_get_entry(AnyProc, g * PAGESZ) = 0
    BY <1>6 DEF KernelMap
  <2> QED  BY <2>1 DEF KernelMap
<1> QED  BY <1>7, <1>8 DEF Map!Init, UserMap, KernelMap

\* A range of kernel pages: it is mapped to its frames or unmapped, and the processes
\* keep their entries.
LEMMA KernelPagesWritten ==
  ASSUME TreesInv, NEW addr \in Address, NEW pgnum \in 1 .. MaxRange, validate_page_range(addr, pgnum),
         is_kernel_address(addr), UNCHANGED <<pgd, krnl_pgd>>,
         WrittenAll(addr, pgnum, kernel_pte) \/ WrittenAll(addr, pgnum, Zeros)
  PROVE  UserMap' = UserMap /\ Map!SetKernel(KernelMap, KernelMap')
<1> DEFINE f == addr \div PAGESZ
           last == f + pgnum - 1
<1>1. PICK val \in {kernel_pte, Zeros} :
        Written(tables, tables', Roots, krnl_pgd, KernelPages, f, pgnum, val)
  BY DEF WrittenAll
<1>2. pgd' = pgd /\ krnl_pgd' = krnl_pgd
  OBVIOUS
<1>3. UserMap' = UserMap
  <2>1. ASSUME NEW q \in Proc, NEW g \in UserPages PROVE UserMap'[q][g] = UserMap[q][g]
    <3>1. pgd[q] \in Roots \cup {0} /\ pgd[q] # krnl_pgd /\ g * PAGESZ \in Nat
      BY RootMembers, PagesHaveSides DEF TreesInv, RootsApart
    <3>2. EntryIn(tables', pgd[q], g) = EntryIn(tables, pgd[q], g)
      BY <1>1, <3>1 DEF Written, EntryIn
    <3> QED  BY <1>2, <3>2, UserEntries
  <2> QED  BY <2>1, SameUser, SameUsers
<1>4. ASSUME NEW g \in KernelPages
      PROVE  KernelMap'[g] = IF g \in f .. last THEN val[g] ELSE KernelMap[g]
  <2>1. EntryIn(tables', krnl_pgd, g) =
          IF g \in f .. last THEN val[g] ELSE EntryIn(tables, krnl_pgd, g)
    BY <1>1 DEF Written, EntryIn
  <2> QED  BY <1>2, <2>1, KernelEntries
<1>5. f \in Nat /\ pgnum \in Nat
  <2>1. addr \in Nat /\ pgnum \in Nat
    BY PageTableAssumption, SMTT(30) DEF Address
  <2> QED  BY <2>1, DivParts, Sizes
<1>6. f \in KernelPages /\ last \in KernelPages
  <2>1. /\ 0 \in 0 .. pgnum - 1 /\ pgnum - 1 \in 0 .. pgnum - 1 /\ f + 0 = f
        /\ f + (pgnum - 1) = last
    BY <1>5, SMTT(30)
  <2>2. ASSUME NEW n \in 0 .. pgnum - 1 PROVE f + n \in KernelPages
    BY RangeHasPages
  <2> HIDE DEF last, f
  <2>3. f + 0 \in KernelPages /\ f + (pgnum - 1) \in KernelPages
    BY <2>1, <2>2
  <2> QED  BY <2>1, <2>3
<1> HIDE DEF last, f
<1>7. CASE val = kernel_pte
  <2>1. Map!Filled(KernelMap, KernelMap', f, last, kernel_pte)
    BY <1>4, <1>7, MapDomains DEF Map!Filled
  <2> QED  BY <1>3, <1>6, <2>1 DEF Map!SetKernel
<1>8. CASE val = Zeros
  <2>1. \A g \in KernelPages : Zeros[g] = 0
    BY PagesHaveSides DEF Zeros
  <2>2. ASSUME NEW g \in KernelPages
        PROVE  KernelMap'[g] = IF g \in f .. last THEN [h \in KernelPages |-> 0][g] ELSE KernelMap[g]
    BY <1>4, <1>8, <2>1
  <2>3. Map!Filled(KernelMap, KernelMap', f, last, [h \in KernelPages |-> 0])
    BY <2>2, MapDomains DEF Map!Filled
  <2> QED  BY <1>3, <1>6, <2>3 DEF Map!SetKernel
<1> QED  BY <1>7, <1>8

\* A range of user pages: the other processes and the kernel keep their entries.
LEMMA UserRange ==
  ASSUME TreesInv, NEW p \in Proc, NEW addr \in Address, NEW pgnum \in 1 .. MaxRange,
         NEW v \in Entry, map_range(p, addr, pgnum, v)
  PROVE  KernelMap' = KernelMap /\ (UserMap' = UserMap \/ Map!SetUser(p, UserMap, UserMap'))
<1> DEFINE f == addr \div PAGESZ
           val == [g \in Nat |-> v]
<1>1. PICK m \in 0 .. pgnum : Written(tables, tables', Roots, pgd[p], UserPages, f, m, val)
  BY MapRangeWrites
<1>2. /\ pgd' = pgd /\ krnl_pgd' = krnl_pgd /\ validate_page_range(addr, pgnum) /\ pgd[p] # 0
      /\ ~is_kernel_address(addr)
  BY DEF map_range
<1>3. KernelMap' = KernelMap
  <2>1. ASSUME NEW g \in KernelPages PROVE KernelMap'[g] = KernelMap[g]
    <3>1. krnl_pgd \in Roots \cup {0} /\ krnl_pgd # pgd[p] /\ g * PAGESZ \in Nat
      BY RootMembers, PagesHaveSides DEF TreesInv, RootsApart
    <3>2. EntryIn(tables', krnl_pgd, g) = EntryIn(tables, krnl_pgd, g)
      BY <1>1, <3>1 DEF Written, EntryIn
    <3> QED  BY <1>2, <3>2, KernelEntries
  <2> QED  BY <2>1, SameKernel
<1>4. ASSUME NEW q \in Proc \ {p} PROVE UserMap'[q] = UserMap[q]
  <2>1. ASSUME NEW g \in UserPages PROVE UserMap'[q][g] = UserMap[q][g]
    <3>1. pgd[q] \in Roots \cup {0} /\ pgd[q] # pgd[p] /\ g * PAGESZ \in Nat
      BY <1>2, RootMembers, PagesHaveSides DEF TreesInv, RootsApart
    <3>2. EntryIn(tables', pgd[q], g) = EntryIn(tables, pgd[q], g)
      BY <1>1, <3>1 DEF Written, EntryIn
    <3> QED  BY <1>2, <3>2, UserEntries
  <2> QED  BY <2>1, SameUser
<1>5. ASSUME NEW g \in UserPages
      PROVE  UserMap'[p][g] = IF g \in f .. f + m - 1 THEN v ELSE UserMap[p][g]
  <2>1. EntryIn(tables', pgd[p], g) =
          IF g \in f .. f + m - 1 THEN val[g] ELSE EntryIn(tables, pgd[p], g)
    BY <1>1 DEF Written, EntryIn
  <2>2. val[g] = v
    BY PagesHaveSides
  <2> QED  BY <1>2, <2>1, <2>2, UserEntries
<1>6. f \in Nat /\ MaxRange \in Nat
  <2>1. 0 \in 0 .. pgnum - 1
    BY PageTableAssumption, SMTT(30)
  <2> QED  BY <1>2, <2>1, RangeHasPages, PageTableAssumption
<1>7. CASE m = 0
  <2>1. f .. f + m - 1 = {}
    BY <1>6, <1>7, SMTT(30)
  <2>2. ASSUME NEW g \in UserPages PROVE UserMap'[p][g] = UserMap[p][g]
    BY <1>5, <2>1
  <2>3. UserMap'[p] = UserMap[p]
    BY <2>2, SameUser
  <2> QED  BY <1>3, <1>4, <2>3, SameUsers
<1>8. CASE m # 0
  <2>1. 0 \in 0 .. pgnum - 1 /\ m - 1 \in 0 .. pgnum - 1 /\ f + 0 = f /\ f + (m - 1) = f + m - 1
    BY <1>6, <1>8, SMTT(30)
  <2>2. ASSUME NEW n \in 0 .. pgnum - 1 PROVE f + n \in UserPages
    BY <1>2, RangeHasPages
  <2>3. f \in UserPages /\ f + m - 1 \in UserPages
    BY <2>1, <2>2
  <2> DEFINE last == f + m - 1
  <2>6. ASSUME NEW g \in UserPages
        PROVE  UserMap'[p][g] = IF g \in f .. last THEN [h \in UserPages |-> v][g] ELSE UserMap[p][g]
    BY <1>5
  <2> HIDE DEF last, f
  <2>4. Map!Filled(UserMap[p], UserMap'[p], f, last, [h \in UserPages |-> v])
    BY <2>6, MapDomains DEF Map!Filled
  <2>5. f \in UserPages /\ last \in UserPages
    BY <2>3 DEF last
  <2> QED  BY <1>3, <1>4, <2>4, <2>5 DEF Map!SetUser
<1> QED  BY <1>7, <1>8

\* free_mm() takes the entries of its process away and no others.
LEMMA FreeMmClears ==
  ASSUME TreesInv, NEW p \in Proc, free_mm(p)
  PROVE  KernelMap' = KernelMap /\ Map!Clear(p, UserMap, UserMap')
<1>1. PICK lev, own, S :
        /\ Shape(tables, alloc, Roots, lev, own) /\ Frees(tables, alloc, own, pgd[p], S, tables')
        /\ pgd[p] \in Roots
  BY FreeMmFrees
<1>2. /\ pgd[p] # 0 /\ krnl_pgd' = krnl_pgd /\ pgd'[p] = 0
      /\ \A q \in Proc : q # p => pgd'[q] = pgd[q]
  BY DEF free_mm, TreesInv, PageTableTypeOK
<1>3. ASSUME NEW s \in (Roots \ {pgd[p]}) \cup {0}, NEW g, g * PAGESZ \in Nat
      PROVE  EntryIn(tables', s, g) = EntryIn(tables, s, g)
  <2> DEFINE a == g * PAGESZ
  <2>1. a \in Nat
    BY <1>3
  <2> HIDE DEF a
  <2>2. SameEntry(tables, tables', s, a)
    BY <1>1, <2>1, FreeKeepsEntries
  <2> QED  BY <2>2 DEF EntryIn, SameEntry, a
<1>4. KernelMap' = KernelMap
  <2>1. ASSUME NEW g \in KernelPages PROVE KernelMap'[g] = KernelMap[g]
    <3>1. krnl_pgd \in (Roots \ {pgd[p]}) \cup {0} /\ g * PAGESZ \in Nat
      BY RootMembers, PagesHaveSides DEF TreesInv, RootsApart
    <3>2. EntryIn(tables', krnl_pgd, g) = EntryIn(tables, krnl_pgd, g)
      BY <1>3, <3>1
    <3> QED  BY <1>2, <3>2, KernelEntries
  <2> QED  BY <2>1, SameKernel
<1>5. ASSUME NEW q \in Proc \ {p} PROVE UserMap'[q] = UserMap[q]
  <2>1. ASSUME NEW g \in UserPages PROVE UserMap'[q][g] = UserMap[q][g]
    <3>1. pgd[q] \in (Roots \ {pgd[p]}) \cup {0} /\ g * PAGESZ \in Nat
      BY <1>2, RootMembers, PagesHaveSides DEF TreesInv, RootsApart
    <3>2. EntryIn(tables', pgd[q], g) = EntryIn(tables, pgd[q], g)
      BY <1>3, <3>1
    <3> QED  BY <1>2, <3>2, UserEntries
  <2> QED  BY <2>1, SameUser
<1>6. ASSUME NEW g \in UserPages PROVE UserMap'[p][g] = 0
  <2> DEFINE a == g * PAGESZ
  <2>1. a \in Nat
    BY PagesHaveSides
  <2> HIDE DEF a
  <2>2. Look(tables, 0, a)[Levels + 1] = 0
    BY <1>1, <2>1, NoRootNoEntry
  <2>3. EntryIn(tables, 0, g) = 0
    BY <2>2 DEF EntryIn, a
  <2>4. EntryIn(tables', 0, g) = EntryIn(tables, 0, g)
    BY <1>3, <2>1 DEF a
  <2> QED  BY <1>2, <2>3, <2>4, UserEntries
<1> QED  BY <1>4, <1>5, <1>6 DEF Map!Clear

\* pte_get_entry() finds the last entry stored for its page by pte_set_entry() or
\* vmap_pgd_memset(), or none once free_mm() has run for the process, and the walks of
\* the kernel find a region mapped as a whole or not at all, whatever tables have been
\* created and freed in between: the trees implement the flat map.
THEOREM TreesAreAMap == Spec => ImplementsPageMap
<1>1. ASSUME TreesInv, Next PROVE Map!Next \/ (UserMap' = UserMap /\ KernelMap' = KernelMap)
  <2>1. \/ UserMap' = UserMap /\ Map!SetKernel(KernelMap, KernelMap')
        \/ KernelMap' = KernelMap /\ UserMap' = UserMap
        \/ /\ KernelMap' = KernelMap
           /\ \E p \in Proc : Map!SetUser(p, UserMap, UserMap') \/ Map!Clear(p, UserMap, UserMap')
    <3>1. CASE \E p \in Proc, addr \in Address, pgnum \in 1 .. MaxRange, v \in Entry :
                 map_range(p, addr, pgnum, v)
      BY <1>1, <3>1, UserRange
    <3>2. CASE \E addr \in Address, pgnum \in 1 .. MaxRange : kernel_alloc_contiguous_region(addr, pgnum)
      <4>1. PICK addr \in Address, pgnum \in 1 .. MaxRange : kernel_alloc_contiguous_region(addr, pgnum)
        BY <3>2
      <4>2. KernelRange(addr, pgnum) /\ UNCHANGED <<pgd, krnl_pgd>>
        BY <4>1 DEF kernel_alloc_contiguous_region
      <4>3. is_kernel_address(addr) /\ validate_page_range(addr, pgnum)
        BY <4>2 DEF KernelRange
      <4>4. WrittenAll(addr, pgnum, kernel_pte) \/ WrittenAll(addr, pgnum, Zeros)
        BY <1>1, <4>1, KernelAllocWrites
      <4> QED  BY <1>1, <4>2, <4>3, <4>4, KernelPagesWritten
    <3>3. CASE \E addr \in Address, pgnum \in 1 .. MaxRange : kernel_release_contiguous_region(addr, pgnum)
      <4>1. PICK addr \in Address, pgnum \in 1 .. MaxRange : kernel_release_contiguous_region(addr, pgnum)
        BY <3>3
      <4>2. KernelRange(addr, pgnum) /\ UNCHANGED <<pgd, krnl_pgd>>
        BY <4>1 DEF kernel_release_contiguous_region
      <4>3. is_kernel_address(addr) /\ validate_page_range(addr, pgnum)
        BY <4>2 DEF KernelRange
      <4>4. WrittenAll(addr, pgnum, Zeros)
        BY <1>1, <4>1, KernelReleaseWrites
      <4> QED  BY <1>1, <4>2, <4>3, <4>4, KernelPagesWritten
    <3>4. CASE \E p \in Proc : free_mm(p)
      BY <1>1, <3>4, FreeMmClears
    <3> QED  BY <1>1, <3>1, <3>2, <3>3, <3>4, NextSteps
  <2> QED  BY <2>1 DEF Map!Next, UserMap, KernelMap
<1>2. ASSUME UNCHANGED vars PROVE UserMap' = UserMap /\ KernelMap' = KernelMap
  <2>1. tables' = tables /\ pgd' = pgd /\ krnl_pgd' = krnl_pgd
    BY <1>2 DEF vars
  <2>2. ASSUME NEW p \in Proc PROVE UserMap'[p] = UserMap[p]
    BY <2>1, UserEntries, SameUser
  <2>3. ASSUME NEW g \in KernelPages PROVE KernelMap'[g] = KernelMap[g]
    BY <2>1, KernelEntries
  <2> QED  BY <2>2, <2>3, SameUsers, SameKernel
<1>3. TreesInv /\ [Next]_vars => [Map!Next]_<<UserMap, KernelMap>>
  BY <1>1, <1>2
<1>4. Spec => Map!Init /\ [][Map!Next]_<<UserMap, KernelMap>>
  BY <1>3, MapInit, TreesInvariant, PTL DEF Spec
<1> QED  BY <1>4, PTL DEF ImplementsPageMap, Map!Spec, UserMap, KernelMap
============================================================================
