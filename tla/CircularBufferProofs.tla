------------------------ MODULE CircularBufferProofs ------------------------
(***************************************************************************)
(* Facts about the operators of CircularBuffer, for every buffer size N.   *)
(* The lengths are sums over a recursive function, so there is induction   *)
(* here: it is done on sets of numbers, with the least element of a        *)
(* non-empty set of naturals taken from the library's well-foundedness     *)
(* theorems.                                                               *)
(***************************************************************************)
EXTENDS CircularBuffer, WellFoundedInduction, TLAPS

\* Every non-empty set of natural numbers has a least element.
LEMMA LeastNat ==
  ASSUME NEW T \in SUBSET Nat, T # {}
  PROVE  \E x \in T : \A y \in T : x <= y
<1> DEFINE R == {ss \in Nat \X Nat : ss[1] < ss[2]}
<1>1. IsWellFoundedOn(R, Nat)
  BY NatLessThanWellFounded, Zenon DEF OpToRel
<1> HIDE DEF R
<1>2. PICK x \in T : \A y \in T : ~(<<y, x>> \in R)
  BY <1>1, WFMin, Zenon
<1>3. ASSUME NEW y \in T PROVE x <= y
  <2>1. <<y, x>> \in Nat \X Nat /\ <<y, x>>[1] = y /\ <<y, x>>[2] = x
    OBVIOUS
  <2>2. ASSUME y < x PROVE <<y, x>> \in R
    BY <2>1, <2>2 DEF R
  <2> QED BY <1>2, <2>2
<1> QED BY <1>3

\* Induction: a set of naturals with 0 and closed under successor is Nat.
LEMMA NatInductionSet ==
  ASSUME NEW S \in SUBSET Nat, 0 \in S, \A n \in S : n + 1 \in S
  PROVE  S = Nat
<1> SUFFICES ASSUME Nat \ S # {} PROVE FALSE
  OBVIOUS
<1>1. PICK x \in Nat \ S : \A y \in Nat \ S : x <= y
  BY LeastNat
<1>2. x # 0 /\ x - 1 \in Nat /\ x - 1 \in S
  BY <1>1
<1> QED BY <1>2

\* g[i] is the sum of s[0], ..., s[i - 1], for i up to n.
IsPrefixSum(g, s, n) ==
  /\ g \in [0..n -> Nat]
  /\ g[0] = 0
  /\ \A i \in 1..n : g[i] = g[i - 1] + s[i - 1]

\* Such sums exist for every sequence of naturals and every length.
LEMMA PrefixSumExists ==
  ASSUME NEW s \in [Nat -> Nat], NEW n \in Nat
  PROVE  \E g : IsPrefixSum(g, s, n)
<1> DEFINE S == {m \in Nat : \E g : IsPrefixSum(g, s, m)}
<1>1. 0 \in S
  <2>1. IsPrefixSum([i \in 0..0 |-> 0], s, 0)
    BY DEF IsPrefixSum
  <2> QED BY <2>1
<1>2. ASSUME NEW m \in S PROVE m + 1 \in S
  <2>1. PICK g : IsPrefixSum(g, s, m)
    BY <1>2
  <2> DEFINE h == [i \in 0..(m + 1) |-> IF i <= m THEN g[i] ELSE g[m] + s[m]]
  <2>0. m \in Nat
    BY <1>2
  <2>2. h \in [0..(m+1) -> Nat]
    <3>1. ASSUME NEW i \in 0..(m+1) PROVE (IF i <= m THEN g[i] ELSE g[m] + s[m]) \in Nat
      <4>1. g \in [0..m -> Nat]
        BY <2>1 DEF IsPrefixSum
      <4>2. m \in 0..m /\ (i <= m => i \in 0..m)
        BY ONLY <2>0, <3>1
      <4>3. g[m] \in Nat /\ s[m] \in Nat /\ (i <= m => g[i] \in Nat)
        BY ONLY s \in [Nat -> Nat], <2>0, <4>1, <4>2
      <4>4. g[m] + s[m] \in Nat
        BY ONLY <4>3
      <4> QED BY ONLY <4>3, <4>4
    <3> QED BY <3>1
  <2>3. h[0] = 0
    BY <2>1 DEF IsPrefixSum
  <2>4. ASSUME NEW i \in 1..(m+1) PROVE h[i] = h[i-1] + s[i-1]
    <3>1. CASE i <= m
      BY <2>1, <3>1 DEF IsPrefixSum
    <3>2. CASE i = m + 1
      BY <2>1, <3>2 DEF IsPrefixSum
    <3> QED BY <3>1, <3>2
  <2>5. IsPrefixSum(h, s, m + 1)
    BY <2>2, <2>3, <2>4 DEF IsPrefixSum
  <2> QED BY <2>5
<1>3. S = Nat
  BY <1>1, <1>2, NatInductionSet
<1> QED BY <1>3

\* ComposedLength, the running sum of the search loop, is what its recursive
\* definition says it is.
LEMMA ComposedLengthSum ==
  ASSUME NEW b, b.out_offs \in Slots,
         \A i \in Slots : b.entry[i].size \in Nat
  PROVE  /\ ComposedLength(b) \in [0..N -> Nat]
         /\ ComposedLength(b)[0] = 0
         /\ \A i \in Slots : ComposedLength(b)[i + 1] =
              ComposedLength(b)[i] + b.entry[SlotAt(b, i)].size
<1> DEFINE s == [i \in Nat |-> b.entry[SlotAt(b, i)].size]
           F(f) == [i \in 0..N |-> IF i = 0 THEN 0
                                   ELSE f[i - 1] + b.entry[SlotAt(b, i - 1)].size]
<1>0. N \in Nat /\ N > 0
  BY NAssumption
<1>1. s \in [Nat -> Nat]
  BY <1>0 DEF SlotAt, Slots
<1>2. PICK g : IsPrefixSum(g, s, N)
  BY <1>0, <1>1, PrefixSumExists
<1>3. g = F(g)
  <2>1. \A i \in 0..N : g[i] = F(g)[i]
    BY <1>0, <1>2 DEF IsPrefixSum
  <2> QED BY <2>1, <1>2 DEF IsPrefixSum
<1>4. ComposedLength(b) = CHOOSE f : f = F(f)
  BY DEF ComposedLength
<1> HIDE DEF F
<1>5. ComposedLength(b) = F(ComposedLength(b))
  BY <1>3, <1>4, Zenon
<1> DEFINE len == ComposedLength(b)
<1>6. \A i \in 0..N : len[i] = IF i = 0 THEN 0 ELSE len[i-1] + b.entry[SlotAt(b, i - 1)].size
  BY <1>5 DEF F
<1>7. len[0] = 0
  BY <1>0, <1>6
<1>8. \A i \in Slots : len[i + 1] = len[i] + b.entry[SlotAt(b, i)].size
  BY <1>0, <1>6 DEF Slots
<1> DEFINE T == {i \in Nat : i <= N => len[i] \in Nat}
<1> HIDE DEF len
<1>9. T = Nat
  <2>1. 0 \in T
    BY <1>7
  <2>2. ASSUME NEW i \in T PROVE i + 1 \in T
    <3>1. CASE i + 1 <= N
      <4>1. i \in Slots /\ len[i] \in Nat
        BY <1>0, <2>2, <3>1 DEF Slots
      <4>2. SlotAt(b, i) \in Slots
        BY <1>0, <4>1 DEF SlotAt, Slots
      <4>3. b.entry[SlotAt(b, i)].size \in Nat
        BY <4>2
      <4>4. len[i + 1] \in Nat
        BY <1>8, <4>1, <4>3
      <4> QED BY <4>4, <2>2
    <3> QED BY <3>1, <2>2
  <2> QED BY <2>1, <2>2, NatInductionSet
<1>10. \A i \in 0..N : len[i] \in Nat
  BY <1>0, <1>9
<1>11. len = [i \in 0..N |-> len[i]]
  BY <1>5 DEF F, len
<1> QED BY <1>7, <1>8, <1>10, <1>11 DEF len

\* The successor of a slot, and the i-th slot from out_offs, wrap once.
LEMMA SlotWraps ==
  /\ N \in Nat /\ N > 0 /\ 0 \in Slots
  /\ \A x \in Slots : (x + 1) % N = IF x + 1 = N THEN 0 ELSE x + 1
  /\ \A x, y \in Slots : (x + y) % N = IF x + y < N THEN x + y ELSE x + y - N
<1>1. N \in Nat /\ N > 0 /\ 0 \in Slots
  BY NAssumption DEF Slots
<1>2. ASSUME NEW a \in Nat, a < 2 * N
      PROVE  (a < N => a % N = a) /\ (N <= a => a % N = a - N)
  BY <1>1, <1>2
<1>3. ASSUME NEW x \in Slots, NEW y \in Nat, y <= N
      PROVE  (x + y) % N = IF x + y < N THEN x + y ELSE x + y - N
  <2> DEFINE a == x + y
  <2>1. a \in Nat /\ a < 2 * N
    BY <1>1, <1>3 DEF Slots
  <2> HIDE DEF a
  <2>2. (a < N => a % N = a) /\ (N <= a => a % N = a - N)
    BY <1>2, <2>1
  <2>3. a % N = IF a < N THEN a ELSE a - N
    BY <1>1, <2>1, <2>2
  <2> QED BY <1>1, <2>1, <2>3 DEF a, Slots
<1>4. \A x \in Slots : (x + 1) % N = IF x + 1 = N THEN 0 ELSE x + 1
  <2> SUFFICES ASSUME NEW x \in Slots
               PROVE  (x + 1) % N = IF x + 1 = N THEN 0 ELSE x + 1
    OBVIOUS
  <2>1. (x + 1) % N = IF x + 1 < N THEN x + 1 ELSE x + 1 - N
    BY <1>1, <1>3
  <2> QED BY <1>1, <2>1 DEF Slots
<1>5. \A x, y \in Slots : y \in Nat /\ y <= N
  BY <1>1 DEF Slots
<1> QED BY <1>1, <1>3, <1>4, <1>5

\* The successor of a slot is a slot.
LEMMA SlotSuccessor ==
  ASSUME NEW x \in Slots
  PROVE  (x + 1) % N \in Slots
<1>1. (x + 1) % N = IF x + 1 = N THEN 0 ELSE x + 1
  BY SlotWraps
<1> DEFINE y == (x + 1) % N
<1>2. y = IF x + 1 = N THEN 0 ELSE x + 1
  BY <1>1
<1> HIDE DEF y
<1>3. y \in Slots
  BY <1>2, SlotWraps DEF Slots
<1> QED BY <1>3 DEF y

\* The slots visited from out_offs on are N different ones.
LEMMA SlotAtInjective ==
  ASSUME NEW b, b.out_offs \in Slots
  PROVE  /\ \A i \in Slots : SlotAt(b, i) \in Slots
         /\ \A i, j \in Slots : SlotAt(b, i) = SlotAt(b, j) => i = j
<1>1. \A i \in Slots : SlotAt(b, i) = IF b.out_offs + i < N THEN b.out_offs + i
                                      ELSE b.out_offs + i - N
  BY SlotWraps DEF SlotAt
<1> QED BY <1>1, SlotWraps DEF Slots

\* The running sum never decreases.
LEMMA ComposedLengthMonotone ==
  ASSUME NEW b, b.out_offs \in Slots,
         \A i \in Slots : b.entry[i].size \in Nat,
         NEW i \in 0..N, NEW j \in 0..N, i <= j
  PROVE  ComposedLength(b)[i] <= ComposedLength(b)[j]
<1> DEFINE len == ComposedLength(b)
           T == {k \in Nat : i + k <= N => len[i] <= len[i + k]}
<1>0. N \in Nat
  BY NAssumption
<1>1. /\ len \in [0..N -> Nat]
      /\ \A k \in Slots : len[k + 1] = len[k] + b.entry[SlotAt(b, k)].size
  BY ComposedLengthSum
<1> HIDE DEF len
<1>2. 0 \in T
  BY <1>0, <1>1
<1>3. ASSUME NEW k \in T PROVE k + 1 \in T
  <2>1. CASE i + (k + 1) <= N
    <3>1. i + k \in Slots /\ i + k \in 0..N /\ len[i] <= len[i + k]
      BY <1>0, <1>3, <2>1 DEF Slots
    <3>2. b.entry[SlotAt(b, i + k)].size \in Nat
      BY <3>1, SlotAtInjective
    <3>3. len[i + k + 1] = len[i + k] + b.entry[SlotAt(b, i + k)].size
      BY <1>1, <3>1
    <3>4. i + (k + 1) = i + k + 1 /\ len[i + k] \in Nat /\ len[i] \in Nat
      BY <1>0, <1>1, <1>3, <3>1
    <3> QED BY <3>1, <3>2, <3>3, <3>4, <1>3
  <2> QED BY <2>1, <1>3
<1>4. T = Nat
  BY <1>2, <1>3, NatInductionSet
<1>5. j - i \in T /\ i + (j - i) = j /\ j <= N
  BY <1>0, <1>4
<1>6. len[i] <= len[i + (j - i)]
  BY <1>5
<1> QED BY <1>5, <1>6 DEF len

\* What aesd_circular_buffer_find_entry_offset_for_fpos returns: an entry
\* that is not empty, and an offset inside it.
LEMMA FoundInsideEntry ==
  ASSUME NEW b, b.out_offs \in Slots,
         \A i \in Slots : b.entry[i].size \in Nat,
         NEW pos \in Nat, NEW i \in Slots, FoundAt(b, pos, i)
  PROVE  /\ SlotAt(b, i) \in Slots
         /\ EntryOffset(b, pos, i) \in Nat
         /\ EntryOffset(b, pos, i) < b.entry[SlotAt(b, i)].size
<1> DEFINE len == ComposedLength(b)
<1>1. N \in Nat /\ i \in Nat /\ i + 1 \in 0..N /\ i \in 0..N
  BY NAssumption DEF Slots
<1>2. SlotAt(b, i) \in Slots
  BY SlotAtInjective
<1>3. /\ len[i] \in Nat /\ len[0] = 0
      /\ len[i + 1] = len[i] + b.entry[SlotAt(b, i)].size
  BY <1>1, ComposedLengthSum
<1>4. len[i + 1] > pos /\ \A j \in 0..(i - 1) : len[j + 1] <= pos
  BY DEF FoundAt
<1> HIDE DEF len
<1>5. len[i] <= pos
  <2>1. CASE i = 0
    BY <1>3, <2>1
  <2>2. CASE i # 0
    <3>1. i - 1 \in 0..(i - 1) /\ (i - 1) + 1 = i
      BY <1>1, <2>2
    <3>2. len[(i - 1) + 1] <= pos
      BY <1>4, <3>1
    <3> QED BY <3>1, <3>2
  <2> QED BY <2>1, <2>2
<1>6. EntryOffset(b, pos, i) = pos - len[i]
  BY DEF EntryOffset, len
<1>7. b.entry[SlotAt(b, i)].size \in Nat
  BY <1>2
<1> QED BY <1>2, <1>3, <1>4, <1>5, <1>6, <1>7
=============================================================================
