-------------------------- MODULE HistogramProofs --------------------------
(***************************************************************************)
(* Theorems about HistogramBins and HistogramStat, for every number and    *)
(* width of bins and all samples: a sample is counted in the one bin it    *)
(* belongs to and its printed bounds enclose it.                           *)
(***************************************************************************)
EXTENDS HistogramStat, AccumStatProofs, DataLemmas, FiniteSetTheorems

----------------------------------------------------------------------------
(* Order and multiplication. *)

\* A larger factor gives a product larger by at least the other factor.
LEMMA TimesOrder ==
  ASSUME NEW a \in Int, NEW b \in Int, NEW n \in Nat \ {0}, a < b
  PROVE  a * n + n <= b * n
  <1>1. (b - a - 1) * n >= 0
    BY SMTT(30)
  <1>2. (b - a - 1) * n = b * n - a * n - n
    BY SMTT(30)
  <1> DEFINE x == a * n
             y == b * n
  <1>3. x \in Int /\ y \in Int
    OBVIOUS
  <1>4. y - x - n >= 0
    BY <1>1, <1>2
  <1> HIDE DEF x, y
  <1>5. x + n <= y
    BY <1>3, <1>4
  <1> QED
    BY <1>5 DEF x, y

\* So products are ordered as their factors are.
LEMMA TimesCancel ==
  ASSUME NEW a \in Int, NEW b \in Int, NEW n \in Nat \ {0}, a * n < b * n
  PROVE  a < b
  <1>1. SUFFICES ASSUME b <= a PROVE FALSE
    OBVIOUS
  <1>2. CASE b = a
    BY <1>2
  <1>3. CASE b < a
    <2> DEFINE x == a * n
               y == b * n
    <2>1. y + n <= x
      BY <1>3, TimesOrder
    <2>2. x \in Int /\ y \in Int /\ x < y
      OBVIOUS
    <2> HIDE DEF x, y
    <2> QED
      BY <2>1, <2>2
  <1> QED
    BY <1>1, <1>2, <1>3

----------------------------------------------------------------------------
(* Positions. *)

\* Positions are integers, at least one apart.
LEMMA PositionOrder ==
  ASSUME NEW i \in Int, NEW j \in Int, i < j
  PROVE  /\ bin_positions(i) \in Int /\ bin_positions(j) \in Int
         /\ bin_positions(i) < bin_positions(j)
  <1> DEFINE W == max_range - min_range
             m == min_range * num_bins
             x == (i - 1) * W
             y == (j - 1) * W
  <1>1. W \in Nat \ {0} /\ m \in Int
    BY BinAssumption
  <1>2. bin_positions(i) = m + x /\ bin_positions(j) = m + y
    BY DEF bin_positions
  <1> HIDE DEF W, m
  <1>3. x + W <= y
    BY <1>1, TimesOrder
  <1>4. x \in Int /\ y \in Int
    BY <1>1
  <1> HIDE DEF x, y
  <1> QED
    BY <1>1, <1>2, <1>3, <1>4

\* The position after k widths.
LEMMA PositionForm ==
  ASSUME NEW k \in Int
  PROVE  bin_positions(k + 1) = min_range * num_bins + k * (max_range - min_range)
  <1>1. (k + 1) - 1 = k
    OBVIOUS
  <1> QED
    BY <1>1, Zenon DEF bin_positions

\* There is a bin between two positions for each sample between the outer ones.
LEMMA PositionBetween ==
  ASSUME NEW x \in Int, bin_positions(1) <= x, x < bin_positions(num_bins + 1)
  PROVE  \E k \in 1 .. num_bins : bin_positions(k) <= x /\ x < bin_positions(k + 1)
  <1> DEFINE W == max_range - min_range
             m == min_range * num_bins
             a == x - m
             q == a \div W
             r == a % W
  <1>1. W \in Nat \ {0} /\ m \in Int /\ num_bins \in Nat \ {0}
    BY BinAssumption
  <1>2. /\ bin_positions(1) = m + 0 * W
        /\ bin_positions(num_bins + 1) = m + num_bins * W
        /\ bin_positions(q + 1) = m + q * W
        /\ bin_positions(q + 2) = m + (q + 1) * W
    <2>1. 0 \in Int /\ num_bins \in Int /\ q \in Int /\ q + 1 \in Int
      BY <1>1
    <2> HIDE DEF q
    <2>2. 0 + 1 = 1 /\ (q + 1) + 1 = q + 2
      BY <2>1
    <2>3. /\ bin_positions(0 + 1) = m + 0 * W
          /\ bin_positions((q + 1) + 1) = m + (q + 1) * W
          /\ bin_positions(num_bins + 1) = m + num_bins * W
          /\ bin_positions(q + 1) = m + q * W
      BY <2>1, PositionForm, Zenon
    <2> QED
      BY <2>2, <2>3, Zenon
  <1> HIDE DEF W, m
  <1>3. a \in Nat
    BY <1>1, <1>2
  <1>4. q \in Nat
    BY <1>1, <1>3, DivType
  <1>5. a = W * q + r /\ r \in 0 .. W - 1
    BY <1>1, <1>3, DivMod
  <1>6. W * q = q * W /\ (q + 1) * W = q * W + W /\ q * W \in Int
    <2> HIDE DEF q
    <2> QED
      BY <1>1, <1>4, SMTT(30)
  <1> DEFINE y == q * W
             z == num_bins * W
  <1>7. x = m + y + r /\ y \in Int /\ z \in Int
    <2>1. a = y + r
      BY <1>5, <1>6
    <2>2. y \in Int /\ z \in Int
      BY <1>1, <1>6
    <2> HIDE DEF y, z, r
    <2> QED
      BY <1>1, <1>5, <2>1, <2>2 DEF a
  <1>8. bin_positions(q + 1) <= x /\ x < bin_positions(q + 2)
    <2>1. bin_positions(q + 1) = m + y /\ bin_positions(q + 2) = m + (y + W)
      BY <1>2, <1>6
    <2> HIDE DEF y, r
    <2> QED
      BY <1>1, <1>5, <1>7, <2>1
  <1>9. q < num_bins
    <2>1. y < z
      <3>1. x < m + z
        BY <1>2
      <3> HIDE DEF y, z, r
      <3> QED
        BY <1>1, <1>5, <1>7, <3>1
    <2> HIDE DEF q
    <2> QED
      BY <1>1, <1>4, <2>1, TimesCancel
  <1>10. q + 1 \in 1 .. num_bins /\ q + 1 + 1 = q + 2
    <2> HIDE DEF q
    <2> QED
      BY <1>1, <1>4, <1>9
  <1> QED
    BY <1>8, <1>10

----------------------------------------------------------------------------
(* Bins *)

\* A sample belongs to no two bins.
LEMMA BelongsOnce ==
  ASSUME NEW s \in Int, NEW i \in Bins, NEW j \in Bins,
         Belongs(s, i), Belongs(s, j)
  PROVE  i = j
  <1>1. \A a, b \in Bins : Belongs(s, a) /\ Belongs(s, b) => ~(a < b)
    <2> SUFFICES ASSUME NEW a \in Bins, NEW b \in Bins,
                        Belongs(s, a), Belongs(s, b), a < b
                 PROVE  FALSE
      OBVIOUS
    <2> DEFINE x == s * num_bins
    <2>1. num_bins \in Nat \ {0} /\ x \in Int
      BY BinAssumption
    <2>2. a \in Int /\ b \in Int /\ a <= num_bins /\ b > 0
      BY <2>1 DEF Bins
    <2>3. x < bin_positions(a + 1) /\ x >= bin_positions(b)
      BY <2>2 DEF Belongs
    <2>4. a + 1 = b \/ a + 1 < b
      BY <2>2
    <2>5. /\ bin_positions(a + 1) \in Int /\ bin_positions(b) \in Int
          /\ bin_positions(a + 1) <= bin_positions(b)
      <3>1. bin_positions(a) < bin_positions(b) /\ bin_positions(b) \in Int
        BY <2>2, PositionOrder
      <3>2. CASE a + 1 = b
        BY <3>1, <3>2
      <3>3. CASE a + 1 < b
        <4>1. a + 1 \in Int
          BY <2>2
        <4> QED
          BY <2>2, <3>3, <4>1, PositionOrder
      <3> QED
        BY <2>4, <3>2, <3>3
    <2> HIDE DEF x
    <2> QED
      BY <2>1, <2>3, <2>5
  <1>2. i \in Int /\ j \in Int
    BY BinAssumption DEF Bins
  <1>3. ~(i < j) /\ ~(j < i)
    BY <1>1
  <1> QED
    BY <1>2, <1>3

\* The binary search ends at the right bound of the bin between the positions.
LEMMA SearchEnds ==
  ASSUME NEW x \in Int, bin_positions(1) <= x, x < bin_positions(num_bins + 1)
  PROVE  /\ upper_bound(x) - 1 \in 1 .. num_bins
         /\ bin_positions(upper_bound(x) - 1) <= x
         /\ x < bin_positions(upper_bound(x) - 1 + 1)
  <1> DEFINE P(i) == /\ \A j \in 0 .. i - 1 : bin_positions(j) <= x
                     /\ i \in Bins => bin_positions(i) > x
             R == 0 .. num_bins + 2
  <1>1. num_bins \in Nat \ {0}
    BY BinAssumption
  <1>2. \A i \in Int : bin_positions(i) \in Int
    <2> SUFFICES ASSUME NEW i \in Int PROVE bin_positions(i) \in Int
      OBVIOUS
    <2>1. i + 1 \in Int /\ i < i + 1
      OBVIOUS
    <2> QED
      BY <2>1, PositionOrder
  <1>3. PICK k \in 1 .. num_bins : bin_positions(k) <= x /\ x < bin_positions(k + 1)
    BY PositionBetween
  <1>4. \E i \in R : P(i)
    <2>1. k + 1 \in R /\ k + 1 - 1 = k /\ k \in Int
      BY <1>1
    <2>2. \A j \in 0 .. k : bin_positions(j) <= x
      <3> SUFFICES ASSUME NEW j \in 0 .. k PROVE bin_positions(j) <= x
        OBVIOUS
      <3>1. CASE j = k
        BY <1>3, <3>1
      <3>2. CASE j < k
        <4>1. bin_positions(j) < bin_positions(k)
          BY <3>2, <2>1, PositionOrder
        <4> QED
          BY <1>2, <1>3, <4>1, <2>1
      <3> QED
        BY <2>1, <3>1, <3>2
    <2>3. bin_positions(k + 1) > x
      BY <1>2, <1>3, <2>1
    <2>4. P(k + 1)
      BY <2>1, <2>2, <2>3
    <2> HIDE DEF P
    <2> QED
      BY <2>1, <2>4
  <1>5. upper_bound(x) = CHOOSE i \in R : P(i)
    BY DEF upper_bound
  <1> DEFINE u == upper_bound(x)
  <1>6. u \in R /\ P(u)
    <2> HIDE DEF P, R
    <2> QED
      BY <1>4, <1>5
  <1> HIDE DEF u
  <1>7. u # 0
    <2> SUFFICES ASSUME u = 0 PROVE FALSE
      OBVIOUS
    <2>1. 0 \in Bins /\ 0 \in Int /\ 1 \in Int /\ 0 < 1
      BY <1>1 DEF Bins
    <2>2. bin_positions(0) > x /\ bin_positions(0) < bin_positions(1)
      BY <1>6, <2>1, PositionOrder
    <2> QED
      BY <1>2, <2>1, <2>2
  <1>8. u # 1
    <2> SUFFICES ASSUME u = 1 PROVE FALSE
      OBVIOUS
    <2>1. 1 \in Bins /\ 1 \in Int
      BY <1>1 DEF Bins
    <2> QED
      BY <1>2, <1>6, <2>1
  <1>9. u # num_bins + 2
    <2> SUFFICES ASSUME u = num_bins + 2 PROVE FALSE
      OBVIOUS
    <2>1. num_bins + 1 \in 0 .. u - 1 /\ num_bins + 1 \in Int
      BY <1>1
    <2> QED
      BY <1>2, <1>6, <2>1
  <1>10. u \in Int /\ u - 1 \in 1 .. num_bins /\ u \in Bins /\ u - 1 + 1 = u
    BY <1>1, <1>6, <1>7, <1>8, <1>9 DEF Bins
  <1>11. bin_positions(u - 1) <= x /\ x < bin_positions(u)
    <2>1. u - 1 \in 0 .. u - 1 /\ u \in Int
      BY <1>1, <1>10
    <2> QED
      BY <1>2, <1>6, <1>10, <2>1
  <1>12. u - 1 + 1 = u
    BY <1>10
  <1> QED
    BY <1>10, <1>11, <1>12 DEF u

\* The count that a sample raises is that of the bin it belongs to, and of no other,
\* wherever it lies (histogram_impl::operator() against its description).
THEOREM BinIsRight ==
  ASSUME NEW s \in Int
  PROVE  /\ bin(s) \in Bins
         /\ \A i \in Bins : bin(s) = i <=> Belongs(s, i)
  <1> DEFINE x == s * num_bins
  <1>1. num_bins \in Nat \ {0} /\ x \in Int
    BY BinAssumption
  <1>2. /\ bin_positions(1) \in Int /\ bin_positions(num_bins + 1) \in Int
        /\ bin_positions(1) < bin_positions(num_bins + 1)
    <2>1. 1 \in Int /\ num_bins + 1 \in Int /\ 1 < num_bins + 1
      BY <1>1
    <2> QED
      BY <2>1, PositionOrder
  <1>3. bin(s) \in Bins /\ Belongs(s, bin(s))
    <2>1. CASE x < bin_positions(1)
      <3>1. bin(s) = 0
        BY <2>1 DEF bin
      <3>2. Belongs(s, 0)
        <4>1. 0 + 1 = 1 /\ ~(0 > 0)
          OBVIOUS
        <4> QED
          BY <2>1, <4>1 DEF Belongs
      <3> QED
        BY <1>1, <3>1, <3>2 DEF Bins
    <2>2. CASE x >= bin_positions(num_bins + 1)
      <3>1. ~(x < bin_positions(1))
        BY <1>1, <1>2, <2>2
      <3>2. bin(s) = num_bins + 1
        BY <2>2, <3>1 DEF bin
      <3>3. Belongs(s, num_bins + 1)
        <4>1. ~(num_bins + 1 <= num_bins)
          BY <1>1
        <4> QED
          BY <2>2, <4>1 DEF Belongs
      <3> QED
        BY <1>1, <3>2, <3>3 DEF Bins
    <2>3. CASE bin_positions(1) <= x /\ x < bin_positions(num_bins + 1)
      <3>1. bin(s) = upper_bound(x) - 1
        <4>1. ~(x < bin_positions(1)) /\ ~(x >= bin_positions(num_bins + 1))
          BY <1>1, <1>2, <2>3
        <4> QED
          BY <4>1 DEF bin
      <3>2. bin(s) \in 1 .. num_bins /\ bin_positions(bin(s)) <= x
              /\ x < bin_positions(bin(s) + 1)
        <4> HIDE DEF x
        <4> QED
          BY <1>1, <2>3, <3>1, SearchEnds
      <3>3. bin(s) \in Bins
        BY <1>1, <3>2 DEF Bins
      <3>4. bin_positions(bin(s)) \in Int
        <4>1. bin(s) \in Int /\ bin(s) + 1 \in Int /\ bin(s) < bin(s) + 1
          BY <3>2
        <4> QED
          BY <4>1, PositionOrder
      <3>5. x >= bin_positions(bin(s))
        BY <1>1, <3>2, <3>4
      <3> QED
        BY <3>2, <3>3, <3>5 DEF Belongs
    <2> HIDE DEF x
    <2> QED
      BY <1>1, <1>2, <2>1, <2>2, <2>3
  <1> QED
    BY <1>3, BelongsOnce

\* A bound that is cut off towards zero keeps the integers on its two sides.
LEMMA StartCut ==
  ASSUME NEW i \in Int, NEW s \in Int
  PROVE  /\ s * num_bins >= bin_positions(i) => bin_start(i) <= s
         /\ s * num_bins < bin_positions(i) => s <= bin_start(i)
  <1> DEFINE n == num_bins
             p == bin_positions(i)
             t == bin_start(i)
             x == s * n
  <1>1. n \in Nat \ {0} /\ p \in Int /\ x \in Int
    <2>1. i + 1 \in Int /\ i < i + 1
      OBVIOUS
    <2> QED
      BY <2>1, BinAssumption, PositionOrder
  <1>2. CASE p >= 0
    <2> DEFINE q == p \div n
               y == q * n
               z == (q + 1) * n
    <2>1. t = q /\ q \in Int
      BY <1>1, <1>2 DEF bin_start
    <2>2. y \in Int /\ z = y + n /\ y <= p /\ p < z
      <3>1. p \in Nat
        BY <1>1, <1>2
      <3>2. p = n * q + (p % n) /\ p % n \in 0 .. n - 1
        BY <1>1, <3>1, DivMod
      <3>3. y = n * q /\ z = n * q + n /\ y \in Int
        <4> HIDE DEF n, q
        <4> QED
          BY <1>1, <2>1, SMTT(30)
      <3> DEFINE w == n * q
                 r == p % n
      <3>4. w \in Int
        BY <3>3
      <3> HIDE DEF n, p, w, r, y, z
      <3> QED
        BY <1>1, <3>2, <3>3, <3>4 DEF w, r
    <2>3. x >= p => t <= s
      <3> SUFFICES ASSUME x >= p PROVE q < s + 1
        BY <2>1
      <3>1. y < (s + 1) * n
        <4> DEFINE v == (s + 1) * n
        <4>1. v = x + n /\ v \in Int
          <5> HIDE DEF n
          <5> QED
            BY <1>1, SMTT(30)
        <4>2. y < v
          <5> HIDE DEF n, p, x, y, z, v
          <5> QED
            BY <1>1, <2>2, <4>1
        <4> QED
          BY <4>2
      <3> HIDE DEF q, n
      <3> QED
        BY <1>1, <2>1, <3>1, TimesCancel
    <2>4. x < p => s <= t
      <3> SUFFICES ASSUME x < p PROVE s < q + 1
        BY <2>1
      <3>1. x < z
        <4> HIDE DEF n, p, x, y, z
        <4> QED
          BY <1>1, <2>2
      <3> HIDE DEF q, n
      <3> QED
        BY <1>1, <2>1, <3>1, TimesCancel
    <2> QED
      BY <2>3, <2>4
  <1>3. CASE p < 0
    <2> DEFINE d == (-p) \div n
               y == (-d) * n
               z == (-d - 1) * n
    <2>1. t = -d /\ d \in Int
      BY <1>1, <1>3 DEF bin_start
    <2>2. y \in Int /\ z = y - n /\ p <= y /\ z < p
      <3>1. -p \in Nat
        BY <1>1, <1>3
      <3>2. -p = n * d + ((-p) % n) /\ (-p) % n \in 0 .. n - 1
        BY <1>1, <3>1, DivMod
      <3>3. y = -(n * d) /\ z = -(n * d) - n /\ n * d \in Int
        <4> HIDE DEF n, d
        <4> QED
          BY <1>1, <2>1, SMTT(30)
      <3> DEFINE w == n * d
                 r == (-p) % n
      <3>4. w \in Int
        BY <3>3
      <3> HIDE DEF n, p, w, r, y, z
      <3> QED
        BY <1>1, <3>2, <3>3, <3>4 DEF w, r
    <2>3. x >= p => t <= s
      <3> SUFFICES ASSUME x >= p PROVE -d - 1 < s
        BY <2>1
      <3>1. z < x
        <4> HIDE DEF n, p, x, y, z
        <4> QED
          BY <1>1, <2>2
      <3>2. -d - 1 \in Int
        BY <2>1
      <3> HIDE DEF d, n
      <3> QED
        BY <1>1, <3>1, <3>2, TimesCancel
    <2>4. x < p => s <= t
      <3> SUFFICES ASSUME x < p PROVE s <= -d
        BY <2>1
      <3>1. x < y
        <4> HIDE DEF n, p, x, y, z
        <4> QED
          BY <1>1, <2>2
      <3>2. -d \in Int
        BY <2>1
      <3>3. s < -d
        <4> HIDE DEF d, n
        <4> QED
          BY <1>1, <3>1, <3>2, TimesCancel
      <3> QED
        BY <3>2, <3>3
    <2> QED
      BY <2>3, <2>4
  <1> QED
    BY <1>1, <1>2, <1>3

\* The bounds in the title of a dump enclose the samples of each bin.
LEMMA LabelsRight ==
  ASSUME NEW s \in Int, NEW i \in Bins, Belongs(s, i)
  PROVE  LabelsEnclose(s, i)
  <1>1. i \in Int /\ i + 1 \in Int
    BY BinAssumption DEF Bins
  <1> QED
    BY <1>1, StartCut DEF Belongs, LabelsEnclose

----------------------------------------------------------------------------
(* The samples of the bins. *)

\* A value in shared memory is of samples that were written; it is of none only
\* when there were none.
ValueOK(value) ==
  /\ value.samples \subseteq 1 .. MaxSamples
  /\ value.samples = {} => value.upto = 0

\* The accumulator has samples written, at least one of them since it was made or
\* reset unless that is still being written.
SamplesOK ==
  /\ done <= MaxSamples
  /\ acc \subseteq 1 .. done
  /\ acc = {} => done = 0 \/ \E w \in Writers : wr[w] = "add"
  /\ \A w \in Writers : wr[w] \in {"check", "reset", "add"} => done < MaxSamples
  /\ \A f \in Features : ValueOK(shm[f])

\* What a dump has printed without samples was serialized before there were any.
EmptyIsOld ==
  \A c \in Controls : \A i \in 1 .. Len(dump[c].out) :
    LET value == dump[c].out[i].value IN
    dump[c].out[i].valid /\ histogram(value.samples, i - 1).of = 0 => value.upto = 0

HistInv == TypeOK /\ InRange /\ LockOK /\ SamplesOK /\ EmptyIsOld

\* The steps of writers and serializer keep the samples in range.
LEMMA SamplesStep ==
  ASSUME TypeOK, LockOK, SamplesOK, [Next]_vars
  PROVE  SamplesOK'
  <1> USE DEF TypeOK, LockOK, SamplesOK
  <1> USE SampleAssumption
  <1>1. ASSUME NEW w \in Writers, WriteLock(w)
        PROVE  SamplesOK'
    BY <1>1 DEF WriteLock
  <1>2. ASSUME NEW w \in Writers, CheckControlWord(w)
        PROVE  SamplesOK'
    BY <1>2 DEF CheckControlWord
  <1>3. ASSUME NEW w \in Writers, Reset(w)
        PROVE  SamplesOK'
    BY <1>3 DEF Reset
  <1>4. ASSUME NEW w \in Writers, AddSample(w)
        PROVE  SamplesOK'
    <2>1. done' = done + 1 /\ done < MaxSamples /\ acc' = acc \cup {done + 1} /\ shm' = shm
      BY <1>4 DEF AddSample
    <2>2. \A v \in Writers : wr'[v] \notin {"check", "reset", "add"}
      BY <1>4, AccumActorAssumption DEF AddSample
    <2>3. acc' \subseteq 1 .. done' /\ acc' # {} /\ done' <= MaxSamples
      BY <2>1
    <2> QED
      BY <2>1, <2>2, <2>3
  <1>5. CASE SerializeFeature
    <2>1. ~ \E w \in Writers : wr[w] = "add"
      BY <1>5, AccumActorAssumption DEF SerializeFeature
    <2>2. acc \subseteq 1 .. MaxSamples /\ (acc = {} => done = 0)
      BY <2>1
    <2>3. ValueOK([samples |-> acc, upto |-> done, before |-> shm[ser.feature].upto])
      BY <2>2 DEF ValueOK
    <2>4. \A f \in Features : ValueOK(shm'[f])
      BY <1>5, <2>3 DEF SerializeFeature
    <2>5. UNCHANGED <<done, acc, wr>>
      BY <1>5 DEF SerializeFeature
    <2> QED
      BY <2>4, <2>5
  <1>6. ASSUME UNCHANGED <<done, acc, wr, shm>>
        PROVE  SamplesOK'
    BY <1>6
  <1>7. ASSUME \/ SerializerStep /\ ~SerializeFeature
               \/ Stop
               \/ \E c \in Controls : ControlStep(c)
        PROVE  UNCHANGED <<done, acc, wr, shm>>
    <2>1. CASE SerializerStep /\ ~SerializeFeature
      BY <2>1 DEF SerializerStep, SerializerBegins, TestRunning, SerializeLock,
                  SerializeUnlock, WakeUp
    <2>2. CASE Stop
      BY <2>2 DEF Stop, StopEarly, StopSerializer, Join
    <2>3. CASE \E c \in Controls : ControlStep(c)
      BY <2>3 DEF ControlStep, ClearStat, DumpStat, ReadControlWord, ReadFeature, EndDump
    <2> QED
      BY <1>7, <2>1, <2>2, <2>3
  <1> QED
    BY <1>1, <1>2, <1>3, <1>4, <1>5, <1>6, <1>7 DEF Next, WriterStep, vars

\* No samples are counted only where there are none.
LEMMA NoSamples ==
  ASSUME NEW value, ValueOK(value), NEW i
  PROVE  histogram(value.samples, i).of = 0 => value.upto = 0
  <1>1. IsFiniteSet(1 .. MaxSamples)
    BY SampleAssumption, FS_Interval
  <1>2. IsFiniteSet(value.samples)
    BY <1>1, FS_Subset DEF ValueOK
  <1>3. Cardinality(value.samples) = 0 => value.samples = {}
    BY <1>2, FS_EmptySet
  <1> QED
    BY <1>3 DEF histogram, ValueOK

\* What dumps print keeps being of samples, once there are any.
LEMMA NumbersStep ==
  ASSUME TypeOK, InRange, SamplesOK, EmptyIsOld, [Next]_vars
  PROVE  EmptyIsOld'
  <1> DEFINE Fine(out, i) ==
        out[i].valid /\ histogram(out[i].value.samples, i - 1).of = 0
          => out[i].value.upto = 0
  <1> SUFFICES ASSUME NEW c \in Controls, NEW i \in 1 .. Len(dump'[c].out)
               PROVE  Fine(dump'[c].out, i)
    BY DEF EmptyIsOld, histogram, samples_in_bin
  <1>1. ASSUME NEW j \in 1 .. Len(dump[c].out) PROVE Fine(dump[c].out, j)
    BY <1>1 DEF EmptyIsOld
  <1>2. CASE dump'[c].out = dump[c].out
    BY <1>1, <1>2
  <1>3. CASE dump'[c].out = <<>>
    BY <1>3
  <1>4. CASE ReadFeature(c)
    <2> DEFINE f == Len(dump[c].out) + 1
    <2>1. /\ f \in Features /\ f \in Nat
          /\ Len(dump'[c].out) = f
          /\ dump'[c].out[f].valid => dump'[c].out[f].value = shm[f]
          /\ \A j \in 1 .. f - 1 : dump'[c].out[j] = dump[c].out[j]
      BY <1>4, FeatureOut DEF Features
    <2>2. CASE i = f
      <3>1. ValueOK(shm[f])
        BY <2>1 DEF SamplesOK
      <3>2. histogram(shm[f].samples, i - 1).of = 0 => shm[f].upto = 0
        BY <3>1, NoSamples
      <3> QED
        BY <2>1, <2>2, <3>2
    <2>3. CASE i # f
      <3>1. i \in 1 .. Len(dump[c].out) /\ dump'[c].out[i] = dump[c].out[i]
        BY <2>1, <2>3 DEF TypeOK, Dump
      <3>2. Fine(dump[c].out, i)
        BY <1>1, <3>1
      <3> QED
        BY <3>1, <3>2
    <2> QED
      BY <2>2, <2>3
  <1> QED
    BY <1>2, <1>3, <1>4, DumpOut

\* A histogram is an accumulator statistic with samples that have values.
LEMMA HistInvariant == HistSpec => [](HistInv /\ sample \in Samples)
  <1>1. HistInit => HistInv /\ sample \in Samples
    <2> SUFFICES ASSUME HistInit PROVE HistInv
      BY DEF HistInit
    <2>1. Init
      BY DEF HistInit
    <2>2. LockOK
      BY <2>1, AccumActorAssumption DEF Init, LockOK
    <2>3. SamplesOK
      BY <2>1, SampleAssumption DEF Init, SamplesOK, ValueOK, ZeroValue
    <2>4. EmptyIsOld
      BY <2>1 DEF Init, EmptyIsOld, NoDump
    <2> QED
      BY <2>1, <2>2, <2>3, <2>4, TypeInit DEF HistInv
  <1>2. HistInv /\ sample \in Samples /\ [HistNext]_hvars
          => (HistInv /\ sample \in Samples)'
    <2> SUFFICES ASSUME HistInv, sample \in Samples, [HistNext]_hvars
                 PROVE  (HistInv /\ sample \in Samples)'
      OBVIOUS
    <2>1. [Next]_vars /\ sample' = sample
      BY DEF HistNext, hvars
    <2>2. TypeOK' /\ InRange' /\ LockOK'
      BY <2>1, TypeStep, LockStep DEF HistInv
    <2>3. SamplesOK'
      BY <2>1, SamplesStep DEF HistInv
    <2>4. EmptyIsOld'
      BY <2>1, NumbersStep DEF HistInv
    <2> QED
      BY <2>1, <2>2, <2>3, <2>4 DEF HistInv
  <1> QED
    BY <1>1, <1>2, PTL DEF HistSpec

\* Each bin in shared memory has the number of the samples that belong to it, and
\* they lie between the bounds that a dump prints.
THEOREM BinsCountTheirs == HistSpec => []BinsHoldTheirSamples
  <1>1. HistInv /\ sample \in Samples => BinsHoldTheirSamples
    <2> SUFFICES ASSUME HistInv, sample \in Samples, NEW i \in Bins
                 PROVE  LET samples == shm[Place(i)].samples IN
                   /\ histogram(samples, i).count =
                        Cardinality({s \in samples : Belongs(sample[s], i)})
                   /\ \A s \in samples : bin(sample[s]) = i => LabelsEnclose(sample[s], i)
      BY DEF BinsHoldTheirSamples
    <2> DEFINE samples == shm[Place(i)].samples
    <2>1. Place(i) \in Features
      BY HistogramAssumption, BinAssumption DEF Place, Features, Bins
    <2>2. samples \subseteq 1 .. MaxSamples
      BY <2>1 DEF HistInv, SamplesOK, ValueOK
    <2> HIDE DEF samples
    <2>3. \A s \in samples : sample[s] \in Int
      BY <2>2, HistogramAssumption
    <2>4. \A s \in samples : bin(sample[s]) = i <=> Belongs(sample[s], i)
      BY <2>3, BinIsRight
    <2>5. {s \in samples : bin(sample[s]) = i} = {s \in samples : Belongs(sample[s], i)}
      BY <2>4
    <2>6. histogram(samples, i).count =
            Cardinality({s \in samples : Belongs(sample[s], i)})
      BY <2>5 DEF histogram, samples_in_bin
    <2>7. \A s \in samples : bin(sample[s]) = i => LabelsEnclose(sample[s], i)
      BY <2>3, <2>4, LabelsRight
    <2> QED
      BY <2>6, <2>7 DEF samples
  <1> QED
    BY <1>1, HistInvariant, PTL

----------------------------------------------------------------------------
(* Sums over sets. *)

\* The function g has the sums of the numbers f over the subsets of B; the fold
\* takes elements away in an order of its own.
SumRecurrence(g, B, f) ==
  /\ g[{}] = 0
  /\ \A s \in SUBSET B :
       s # {} => g[s] = f[CHOOSE x \in s : TRUE] + g[s \ {CHOOSE x \in s : TRUE}]

\* An element taken away leaves a smaller set.
LEMMA TakeOne ==
  ASSUME NEW B, IsFiniteSet(B), NEW s \in SUBSET B, s # {}
  PROVE  LET x == CHOOSE y \in s : TRUE IN
         /\ x \in s /\ x \in B /\ s \ {x} \in SUBSET B
         /\ Cardinality(s) \in Nat \ {0}
         /\ Cardinality(s \ {x}) = Cardinality(s) - 1
  <1> DEFINE x == CHOOSE y \in s : TRUE
  <1>1. x \in s
    OBVIOUS
  <1>2. IsFiniteSet(s)
    BY FS_Subset
  <1> HIDE DEF x
  <1>3. Cardinality(s) \in Nat /\ Cardinality(s) # 0
    BY <1>2, FS_CardinalityType, FS_EmptySet
  <1>4. Cardinality(s \ {x}) = Cardinality(s) - 1
    BY <1>1, <1>2, FS_RemoveElement
  <1>5. x \in B /\ s \ {x} \in SUBSET B
    BY <1>1
  <1> QED
    BY <1>1, <1>3, <1>4, <1>5 DEF x

\* There are sums over all subsets of a finite set.
LEMMA SumRecursion ==
  ASSUME NEW B, IsFiniteSet(B), NEW f \in [B -> Nat]
  PROVE  \E g \in [SUBSET B -> Nat] : SumRecurrence(g, B, f)
  <1> DEFINE Upto(g, k) ==
               /\ g[{}] = 0
               /\ \A s \in SUBSET B :
                    s # {} /\ Cardinality(s) <= k =>
                      g[s] = f[CHOOSE x \in s : TRUE] + g[s \ {CHOOSE x \in s : TRUE}]
             K == {k \in Nat : \E g \in [SUBSET B -> Nat] : Upto(g, k)}
  <1>1. 0 \in K
    <2> DEFINE g == [s \in SUBSET B |-> 0]
    <2>1. g \in [SUBSET B -> Nat] /\ g[{}] = 0
      OBVIOUS
    <2>2. ASSUME NEW s \in SUBSET B, s # {}, Cardinality(s) <= 0
          PROVE  FALSE
      <3>1. Cardinality(s) \in Nat \ {0}
        BY <2>2, TakeOne
      <3> QED
        BY <2>2, <3>1
    <2> QED
      BY <2>1, <2>2
  <1>2. ASSUME NEW k \in Nat, k \in K
        PROVE  k + 1 \in K
    <2>1. PICK g \in [SUBSET B -> Nat] : Upto(g, k)
      BY <1>2
    <2> DEFINE pick(s) == CHOOSE x \in s : TRUE
               h == [s \in SUBSET B |->
                       IF Cardinality(s) = k + 1 THEN f[pick(s)] + g[s \ {pick(s)}] ELSE g[s]]
    <2>2. ASSUME NEW s \in SUBSET B, s # {}
          PROVE  /\ pick(s) \in B /\ s \ {pick(s)} \in SUBSET B
                 /\ Cardinality(s) \in Nat \ {0}
                 /\ Cardinality(s \ {pick(s)}) = Cardinality(s) - 1
      BY <2>2, TakeOne
    <2>3. Cardinality({}) = 0
      BY FS_EmptySet
    <2> HIDE DEF pick
    <2>4. h \in [SUBSET B -> Nat]
      <3>1. ASSUME NEW s \in SUBSET B
            PROVE  h[s] \in Nat
        <4>1. CASE s = {}
          BY <2>3, <4>1
        <4>2. CASE s # {}
          <5>1. f[pick(s)] \in Nat /\ g[s \ {pick(s)}] \in Nat /\ g[s] \in Nat
            BY <2>2, <4>2
          <5> QED
            BY <5>1
        <4> QED
          BY <4>1, <4>2
      <3>2. h = [s \in SUBSET B |-> h[s]]
        OBVIOUS
      <3> HIDE DEF h
      <3> QED
        BY <3>1, <3>2
    <2>5. h[{}] = 0
      BY <2>1, <2>3
    <2>6. ASSUME NEW s \in SUBSET B, s # {}, Cardinality(s) <= k + 1
          PROVE  h[s] = f[pick(s)] + h[s \ {pick(s)}]
      <3>1. /\ s \ {pick(s)} \in SUBSET B
            /\ Cardinality(s) \in Nat \ {0}
            /\ Cardinality(s \ {pick(s)}) = Cardinality(s) - 1
        BY <2>2, <2>6
      <3>2. h[s \ {pick(s)}] = g[s \ {pick(s)}]
        BY <2>6, <3>1
      <3>3. CASE Cardinality(s) = k + 1
        BY <3>2, <3>3
      <3>4. CASE Cardinality(s) # k + 1
        <4>1. Cardinality(s) <= k
          BY <2>6, <3>1, <3>4
        <4>2. g[s] = f[pick(s)] + g[s \ {pick(s)}]
          BY <2>1, <2>6, <4>1 DEF pick
        <4> QED
          BY <3>2, <3>4, <4>2
      <3> QED
        BY <3>3, <3>4
    <2> HIDE DEF h
    <2>7. Upto(h, k + 1)
      BY <2>5, <2>6 DEF pick
    <2> HIDE DEF Upto
    <2> QED
      BY <2>4, <2>7
  <1>3. Nat \subseteq K
    <2> HIDE DEF K
    <2> QED
      BY <1>1, <1>2, NatSetInduction
  <1>4. Cardinality(B) \in Nat
    BY FS_CardinalityType
  <1>5. PICK g \in [SUBSET B -> Nat] : Upto(g, Cardinality(B))
    BY <1>3, <1>4
  <1>6. \A s \in SUBSET B : Cardinality(s) <= Cardinality(B)
    BY FS_Subset
  <1>7. SumRecurrence(g, B, f)
    BY <1>5, <1>6 DEF SumRecurrence
  <1> QED
    BY <1>7

\* The parts of the set S that part makes are at most as large as the numbers f.
PartsFit(part, S, B, f) == \A b \in B : Cardinality({x \in S : part[x] = b}) <= f[b]

\* Parts of a set that have at most the numbers f have at most their sum.
LEMMA SumOfParts ==
  ASSUME NEW B, IsFiniteSet(B), NEW f \in [B -> Nat], NEW g, SumRecurrence(g, B, f),
         NEW S, IsFiniteSet(S), NEW part \in [S -> B], PartsFit(part, S, B, f)
  PROVE  g[B] \in Nat /\ Cardinality(S) <= g[B]
  <1> DEFINE In(s) == {x \in S : part[x] \in s}
             Bounded(s) == g[s] \in Nat /\ Cardinality(In(s)) <= g[s]
             K == {k \in Nat : \A s \in SUBSET B : Cardinality(s) = k => Bounded(s)}
  <1>1. 0 \in K
    <2> SUFFICES ASSUME NEW s \in SUBSET B, Cardinality(s) = 0
                 PROVE  Bounded(s)
      OBVIOUS
    <2>1. s = {}
      BY FS_Subset, FS_EmptySet
    <2>2. In(s) = {} /\ g[s] = 0
      BY <2>1 DEF SumRecurrence
    <2> QED
      BY <2>2, FS_EmptySet
  <1>2. ASSUME NEW k \in Nat, k \in K
        PROVE  k + 1 \in K
    <2> SUFFICES ASSUME NEW s \in SUBSET B, Cardinality(s) = k + 1
                 PROVE  Bounded(s)
      OBVIOUS
    <2> DEFINE b == CHOOSE x \in s : TRUE
               rest == s \ {b}
               T == {x \in S : part[x] = b}
    <2>1. s # {}
      BY FS_EmptySet
    <2>2. b \in s /\ b \in B /\ rest \in SUBSET B /\ Cardinality(rest) = k
      BY <2>1, TakeOne
    <2>3. g[s] = f[b] + g[rest]
      BY <2>1 DEF SumRecurrence
    <2> HIDE DEF b
    <2>4. Bounded(rest)
      BY <1>2, <2>2
    <2>5. In(s) = In(rest) \cup T /\ In(rest) \cap T = {}
      BY <2>2
    <2>6. IsFiniteSet(In(rest)) /\ IsFiniteSet(T)
      BY FS_Subset
    <2>7. /\ Cardinality(In(rest)) \in Nat /\ Cardinality(T) \in Nat
          /\ Cardinality(In(rest) \cap T) = 0
      BY <2>5, <2>6, FS_CardinalityType, FS_EmptySet
    <2>8. Cardinality(T) <= f[b] /\ f[b] \in Nat
      BY <2>2 DEF PartsFit
    <2> HIDE DEF In, T, rest
    <2> DEFINE U == In(rest)
    <2> HIDE DEF U
    <2>9. Cardinality(U \cup T) = Cardinality(U) + Cardinality(T) - Cardinality(U \cap T)
      BY <2>6, FS_Union DEF U
    <2>10. Cardinality(In(s)) = Cardinality(In(rest)) + Cardinality(T)
      BY <2>5, <2>7, <2>9 DEF U
    <2> QED
      BY <2>3, <2>4, <2>7, <2>8, <2>10
  <1>3. Nat \subseteq K
    <2> HIDE DEF K
    <2> QED
      BY <1>1, <1>2, NatSetInduction
  <1>4. Cardinality(B) \in Nat
    BY FS_CardinalityType
  <1>5. In(B) = S
    OBVIOUS
  <1> QED
    BY <1>3, <1>4, <1>5

----------------------------------------------------------------------------
(* What a dump shows. *)

\* A feature in shared memory has all samples there were at its serialization that
\* are later than a request for reset, but the first of them.
ShmKept == \A f \in Features : \A s \in cleared + 2 .. shm[f].upto : s \in shm[f].samples

\* So has a feature that was printed, unless the last request for reset there is
\* came later than the dump.
PrintKept(shown, since, last) ==
  /\ shown.value.samples \subseteq 1 .. MaxSamples
  /\ shown.valid =>
       /\ shown.value.before <= shown.value.upto
       /\ last = since =>
            \A s \in last + 2 .. shown.value.upto : s \in shown.value.samples
  /\ ~shown.valid => shown.value.before = 0

\* The control word is read before the first bin only, so all bins are valid or none.
DumpKept(c) ==
  /\ dump[c].since <= cleared
  /\ Len(dump[c].out) > 0 /\ Len(dump[c].out) < numFeatures => dump[c].pc = "value"
  /\ \A i \in 1 .. Len(dump[c].out) :
       /\ dump[c].out[i].valid = dump[c].valid
       /\ PrintKept(dump[c].out[i], dump[c].since, cleared)

\* The serializer copies an accumulator from which nothing has been lost.
LEMMA ShmStep ==
  ASSUME TypeOK, SnapshotOK, ClearOK, ShmKept, [Next]_vars
  PROVE  ShmKept'
  <1>1. \A f \in Features : shm[f].upto \in Nat /\ shm[f].upto <= done
    BY DEF TypeOK, Value, SnapshotOK
  <1>2. CASE SerializeFeature
    <2> DEFINE k == ser.feature
    <2>1. k \in Features /\ cleared' = cleared
          /\ \A f \in Features : shm'[f] =
               IF f = k THEN [samples |-> acc, upto |-> done, before |-> shm[k].upto] ELSE shm[f]
      BY <1>2 DEF SerializeFeature, TypeOK, Features
    <2>2. \A s \in cleared + 2 .. done : s \in acc
      BY DEF ClearOK, ClearTakesNoMore
    <2>3. ASSUME NEW f \in Features, NEW s \in cleared' + 2 .. shm'[f].upto
          PROVE  s \in shm'[f].samples
      <3>1. CASE f = k
        BY <2>1, <2>2, <2>3, <3>1
      <3>2. CASE f # k
        BY <2>1, <2>3, <3>2 DEF ShmKept
      <3> QED
        BY <3>1, <3>2
    <2> QED
      BY <2>3 DEF ShmKept
  <1>3. ASSUME NEW c \in Controls, ClearStat(c)
        PROVE  ShmKept'
    <2>1. cleared' = done /\ shm' = shm /\ done \in Nat
      BY <1>3 DEF ClearStat, TypeOK
    <2>2. ASSUME NEW f \in Features
          PROVE  done + 2 .. shm[f].upto = {}
      BY <1>1, <2>1
    <2> QED
      BY <2>1, <2>2 DEF ShmKept
  <1>4. ASSUME UNCHANGED <<shm, cleared>>
        PROVE  ShmKept'
    BY <1>4 DEF ShmKept
  <1>5. ASSUME \/ \E w \in Writers : WriteLock(w) \/ WriterStep(w)
               \/ SerializerStep /\ ~SerializeFeature
               \/ Stop
               \/ \E c \in Controls : ControlStep(c) /\ ~ClearStat(c)
        PROVE  UNCHANGED <<shm, cleared>>
    <2>1. CASE \E w \in Writers : WriteLock(w) \/ WriterStep(w)
      BY <2>1 DEF WriteLock, WriterStep, CheckControlWord, Reset, AddSample
    <2>2. CASE SerializerStep /\ ~SerializeFeature
      BY <2>2 DEF SerializerStep, SerializerBegins, TestRunning, SerializeLock,
                  SerializeUnlock, WakeUp
    <2>3. CASE Stop
      BY <2>3 DEF Stop, StopEarly, StopSerializer, Join
    <2>4. CASE \E c \in Controls : ControlStep(c) /\ ~ClearStat(c)
      BY <2>4 DEF ControlStep, DumpStat, ReadControlWord, ReadFeature, EndDump
    <2> QED
      BY <1>5, <2>1, <2>2, <2>3, <2>4
  <1> QED
    BY <1>2, <1>3, <1>4, <1>5 DEF Next, vars

\* What reading a feature does to a dump.
LEMMA FeatureRead ==
  ASSUME TypeOK, InRange, NEW c \in Controls, ReadFeature(c)
  PROVE  LET f == Len(dump[c].out) + 1 IN
         /\ f \in Features /\ Len(dump'[c].out) = f
         /\ dump'[c].valid = dump[c].valid /\ dump'[c].since = dump[c].since
         /\ dump'[c].out[f].valid = dump[c].valid
         /\ dump'[c].out[f].value = IF dump[c].valid THEN shm[f] ELSE ZeroValue
         /\ \A i \in 1 .. f - 1 : dump'[c].out[i] = dump[c].out[i]
         /\ f < numFeatures /\ FirstOf = {1} => dump'[c].pc = "value"
         /\ \A e \in Controls \ {c} : dump'[e] = dump[e]
         /\ UNCHANGED <<shm, cleared>>
  <1> DEFINE d == dump[c]
             out == d.out
             f == Len(out) + 1
             shown == [valid |-> d.valid,
                       value |-> IF d.valid THEN shm[f] ELSE ZeroValue]
             next == IF f = numFeatures \/ f + 1 \in FirstOf THEN "flag" ELSE "value"
             new == Append(out, shown)
  <1>1. d \in Dump /\ d.pc = "value" /\ out \in Seq(Printed) /\ UNCHANGED <<shm, cleared>>
    BY DEF ReadFeature, TypeOK, Dump
  <1>2. f \in Features /\ Len(out) \in Nat
    <2>1. Len(out) \in Nat /\ Len(out) < numFeatures
      BY <1>1 DEF InRange
    <2> QED
      BY <2>1, FeatureAssumption DEF Features
  <1>3. dump' = [dump EXCEPT ![c] = [d EXCEPT !.pc = next, !.out = new]]
    BY Zenon DEF ReadFeature
  <1>4. shown.valid = d.valid /\ shown.value = IF d.valid THEN shm[f] ELSE ZeroValue
    OBVIOUS
  <1>5. f < numFeatures /\ FirstOf = {1} => next = "value"
    BY <1>2 DEF Features
  <1> HIDE DEF shown
  <1>6. Len(new) = f /\ new[f] = shown /\ \A i \in 1 .. f - 1 : new[i] = out[i]
    BY <1>1, <1>2
  <1> HIDE DEF next, new
  <1>7. /\ dump'[c].pc = next /\ dump'[c].out = new
        /\ dump'[c].valid = d.valid /\ dump'[c].since = d.since
        /\ \A e \in Controls \ {c} : dump'[e] = dump[e]
    BY <1>1, <1>3 DEF TypeOK, Dump
  <1> QED
    BY <1>1, <1>2, <1>4, <1>5, <1>6, <1>7

\* What a dump has printed goes on to have all samples that were not to go.
LEMMA KeptStep ==
  ASSUME TypeOK, InRange, SnapshotOK, ClearOK, SamplesOK, ShmKept, [Next]_vars,
         NEW c \in Controls, DumpKept(c)
  PROVE  DumpKept(c)'
  <1> DEFINE d == dump[c]
  <1>0. d \in Dump /\ d.out \in Seq(Printed) /\ d.since \in Nat /\ Len(d.out) \in Nat
        /\ cleared \in Nat /\ done \in Nat /\ cleared <= done
    BY DEF TypeOK, Dump, ClearOK
  <1>1. ASSUME NEW e \in Controls, ClearStat(e)
        PROVE  DumpKept(c)'
    <2>1. cleared' = done /\ dump' = dump
      BY <1>1 DEF ClearStat
    <2>2. d.since <= cleared'
      BY <1>0, <2>1 DEF DumpKept
    <2>3. cleared' = d.since => cleared' = cleared
      BY <1>0, <2>1 DEF DumpKept
    <2>4. ASSUME NEW i \in 1 .. Len(d.out)
          PROVE  PrintKept(d.out[i], d.since, cleared')
      BY <2>1, <2>3 DEF DumpKept, PrintKept
    <2> QED
      BY <2>1, <2>2, <2>4 DEF DumpKept
  <1>2. CASE DumpStat(c)
    <2>1. dump'[c].since = cleared /\ dump'[c].out = <<>> /\ cleared' = cleared
      BY <1>2 DEF DumpStat, TypeOK, NoDump
    <2> QED
      BY <1>0, <2>1 DEF DumpKept
  <1>3. CASE ReadControlWord(c)
    <2>1. d.pc = "flag" /\ Len(d.out) < numFeatures
      BY <1>3 DEF ReadControlWord
    <2>2. Len(d.out) = 0
      BY <1>0, <2>1 DEF DumpKept
    <2>3. dump'[c].since = d.since /\ dump'[c].out = d.out /\ cleared' = cleared
      BY <1>0, <1>3 DEF ReadControlWord, TypeOK, Dump
    <2> QED
      BY <2>2, <2>3 DEF DumpKept
  <1>4. CASE ReadFeature(c)
    <2> DEFINE f == Len(d.out) + 1
               new == dump'[c].out
    <2>1. /\ f \in Features /\ Len(new) = f
          /\ dump'[c].valid = d.valid /\ dump'[c].since = d.since
          /\ new[f].valid = d.valid
          /\ new[f].value = IF d.valid THEN shm[f] ELSE ZeroValue
          /\ \A i \in 1 .. f - 1 : new[i] = d.out[i]
          /\ f < numFeatures /\ FirstOf = {1} => dump'[c].pc = "value"
          /\ cleared' = cleared
      BY <1>4, FeatureRead
    <2>2. /\ shm[f].samples \subseteq 1 .. MaxSamples
          /\ shm[f].before <= shm[f].upto
          /\ \A s \in cleared + 2 .. shm[f].upto : s \in shm[f].samples
      BY <2>1 DEF SamplesOK, ValueOK, SnapshotOK, ShmKept
    <2>3. PrintKept(new[f], d.since, cleared)
      <3>1. CASE d.valid
        <4>1. new[f].value = shm[f]
          BY <2>1, <3>1
        <4> QED
          BY <2>1, <2>2, <3>1, <4>1 DEF PrintKept
      <3>2. CASE ~d.valid
        <4>1. new[f].value = ZeroValue
          BY <2>1, <3>2
        <4>2. new[f].value.samples = {} /\ new[f].value.before = 0 /\ ~new[f].valid
          BY <2>1, <3>2, <4>1 DEF ZeroValue
        <4> QED
          BY <4>2 DEF PrintKept
      <3> QED
        BY <3>1, <3>2
    <2>4. ASSUME NEW i \in 1 .. f
          PROVE  new[i].valid = d.valid /\ PrintKept(new[i], d.since, cleared)
      <3>1. CASE i = f
        BY <2>1, <2>3, <3>1
      <3>2. CASE i # f
        <4>1. i \in 1 .. Len(d.out) /\ new[i] = d.out[i]
          BY <1>0, <2>1, <3>2
        <4> QED
          BY <4>1 DEF DumpKept
      <3> QED
        BY <3>1, <3>2
    <2>5. FirstOf = {1}
      BY HistogramAssumption
    <2>6. ASSUME NEW i \in 1 .. Len(dump'[c].out)
          PROVE  /\ dump'[c].out[i].valid = dump'[c].valid
                 /\ PrintKept(dump'[c].out[i], dump'[c].since, cleared')
      BY <2>1, <2>4
    <2>7. dump'[c].since <= cleared'
      BY <2>1 DEF DumpKept
    <2>8. Len(dump'[c].out) < numFeatures => dump'[c].pc = "value"
      BY <2>1, <2>5
    <2> QED
      BY <2>6, <2>7, <2>8 DEF DumpKept
  <1>5. CASE EndDump(c)
    <2>1. dump'[c].since = 0 /\ dump'[c].out = <<>> /\ cleared' = cleared
      BY <1>5 DEF EndDump, TypeOK, NoDump
    <2> QED
      BY <1>0, <2>1 DEF DumpKept
  <1>6. ASSUME dump'[c] = dump[c], cleared' = cleared
        PROVE  DumpKept(c)'
    BY <1>6 DEF DumpKept, PrintKept
  <1>7. ASSUME NEW e \in Controls, e # c,
               DumpStat(e) \/ ReadControlWord(e) \/ ReadFeature(e) \/ EndDump(e)
        PROVE  dump'[c] = dump[c] /\ cleared' = cleared
    BY <1>7 DEF DumpStat, ReadControlWord, ReadFeature, EndDump, TypeOK
  <1>8. ASSUME \/ \E w \in Writers : WriteLock(w) \/ WriterStep(w)
               \/ SerializerStep
               \/ Stop
               \/ UNCHANGED vars
        PROVE  dump' = dump /\ cleared' = cleared
    BY <1>8 DEF WriteLock, WriterStep, CheckControlWord, Reset, AddSample,
                SerializerStep, SerializerBegins, TestRunning, SerializeLock,
                SerializeFeature, SerializeUnlock, WakeUp, Stop, StopEarly,
                StopSerializer, Join, vars
  <1> QED
    BY <1>1, <1>2, <1>3, <1>4, <1>5, <1>6, <1>7, <1>8 DEF Next, ControlStep

\* What the dumps of a histogram rely on.
KeptInv ==
  /\ HistInv /\ sample \in Samples
  /\ SnapshotOK /\ ClearOK /\ DumpSkew
  /\ ShmKept
  /\ \A c \in Controls : DumpKept(c)

\* A histogram takes the steps of an accumulator statistic.
LEMMA HistIsAccum == HistSpec => Spec
  <1>1. HistInit => Init
    BY DEF HistInit
  <1>2. [HistNext]_hvars => [Next]_vars
    BY DEF HistNext, hvars
  <1> QED
    BY <1>1, <1>2, PTL DEF HistSpec, Spec

\* KeptInv is an invariant.
LEMMA KeptInvariant == HistSpec => []KeptInv
  <1> DEFINE Kept == ShmKept /\ \A c \in Controls : DumpKept(c)
             Rest == /\ HistInv /\ sample \in Samples
                     /\ DumpInv
                     /\ LockOK /\ ClearOK
  <1>1. HistInit => Kept
    <2> SUFFICES ASSUME Init PROVE Kept
      BY DEF HistInit
    <2>1. \A f \in Features : shm[f].upto = 0
      BY DEF Init, ZeroValue
    <2>2. cleared = 0 /\ \A c \in Controls : dump[c].since = 0 /\ dump[c].out = <<>>
      BY DEF Init, NoDump
    <2>3. ShmKept
      BY <2>1, <2>2 DEF ShmKept
    <2> QED
      BY <2>2, <2>3 DEF DumpKept
  <1>2. Rest /\ Kept /\ [HistNext]_hvars => Kept'
    <2> SUFFICES ASSUME Rest, Kept, [HistNext]_hvars PROVE Kept'
      OBVIOUS
    <2>1. [Next]_vars
      BY DEF HistNext, hvars
    <2>2. TypeOK /\ InRange /\ SnapshotOK /\ ClearOK /\ SamplesOK
      BY DEF HistInv, DumpInv
    <2>3. ShmKept'
      BY <2>1, <2>2, ShmStep
    <2>4. ASSUME NEW c \in Controls
          PROVE  DumpKept(c)'
      BY <2>1, <2>2, KeptStep
    <2> QED
      BY <2>3, <2>4
  <1>3. HistSpec => []Rest
    BY HistInvariant, HistIsAccum, DumpInvariant, ClearInvariant, PTL
  <1>4. Rest /\ Kept => KeptInv
    BY DEF KeptInv, DumpInv
  <1> QED
    BY <1>1, <1>2, <1>3, <1>4, PTL DEF HistSpec

\* Once a sample has been serialized, no dump prints a bin without samples, nor a bin
\* after one that has been serialized for the second time since (AccumOp::write and
\* serialize, traits_common_hist::dumpStat).
THEOREM DensitiesAreNumbers == HistSpec => []NumbersOnceSerialized
  <1>1. ASSUME KeptInv, NEW c \in Controls, NEW i \in 1 .. Len(dump[c].out),
               dump[c].out[i].valid, histogram(dump[c].out[i].value.samples, i - 1).of = 0
        PROVE  /\ dump[c].out[i].value.upto = 0
               /\ \A j \in 1 .. i : dump[c].out[j].value.before = 0
    <2> DEFINE out == dump[c].out
    <2>1. out[i].value.upto = 0
      BY <1>1 DEF KeptInv, HistInv, EmptyIsOld
    <2>2. out \in Seq(Printed)
      BY <1>1 DEF KeptInv, HistInv, TypeOK, Dump
    <2>3. ASSUME NEW j \in 1 .. i
          PROVE  out[j].value.before <= out[i].value.upto /\ out[j].value.before \in Nat
      <3>1. j \in 1 .. Len(out) /\ (j = i \/ j \in 1 .. i - 1)
        BY <2>2
      <3>2. /\ out[j].value.before \in Nat /\ out[i].value.upto \in Nat
        <4>1. out[j] \in Printed /\ out[i] \in Printed
          BY <2>2, <3>1
        <4> QED
          BY <4>1 DEF Printed, Value
      <3>3. out[j].valid /\ out[j].value.before <= out[j].value.upto
        <4>1. out[i].valid = dump[c].valid /\ out[j].valid = dump[c].valid
          BY <1>1, <3>1 DEF KeptInv, DumpKept
        <4>2. PrintKept(out[j], dump[c].since, cleared)
          BY <1>1, <3>1 DEF KeptInv, DumpKept
        <4> QED
          BY <1>1, <4>1, <4>2 DEF PrintKept
      <3>4. j \in 1 .. i - 1 => out[i].value.upto >= out[j].value.before
        BY <1>1, <3>3 DEF KeptInv, DumpSkew
      <3> QED
        BY <3>1, <3>2, <3>3, <3>4
    <2>4. ASSUME NEW j \in 1 .. i
          PROVE  out[j].value.before = 0
      BY <2>1, <2>3
    <2> QED
      BY <2>1, <2>4
  <1>2. KeptInv => NumbersOnceSerialized
    BY <1>1, Zenon DEF NumbersOnceSerialized
  <1> QED
    BY <1>2, KeptInvariant, PTL

\* There are finitely many bins, and samples.
LEMMA FiniteBins == IsFiniteSet(Bins)
  <1>1. 0 \in Int /\ num_bins + 1 \in Int
    BY BinAssumption
  <1> QED
    BY <1>1, FS_Interval DEF Bins

LEMMA FiniteSamples ==
  ASSUME NEW samples, samples \subseteq 1 .. MaxSamples
  PROVE  IsFiniteSet(samples)
  <1>1. IsFiniteSet(1 .. MaxSamples)
    BY SampleAssumption, FS_Interval
  <1> QED
    BY <1>1, FS_Subset

\* The fold of the numbers that a dump shows is their sum.
LEMMA SumIsFold ==
  ASSUME NEW f \in [Bins -> Nat], NEW sum,
         sum = MapThenSumSet(LAMBDA i : f[i], Bins)
  PROVE  \E g : SumRecurrence(g, Bins, f) /\ sum = g[Bins]
  <1> DEFINE iter[s \in SUBSET Bins] ==
               IF s = {} THEN 0
               ELSE f[CHOOSE x \in s : TRUE] + iter[s \ {CHOOSE x \in s : TRUE}]
  <1>1. sum = iter[Bins]
    BY DEF MapThenSumSet, MapThenFoldSet
  <1>3. PICK g \in [SUBSET Bins -> Nat] : SumRecurrence(g, Bins, f)
    BY FiniteBins, SumRecursion
  <1>4. g = [s \in SUBSET Bins |->
               IF s = {} THEN 0
               ELSE f[CHOOSE x \in s : TRUE] + g[s \ {CHOOSE x \in s : TRUE}]]
    BY <1>3 DEF SumRecurrence
  <1>5. iter = [s \in SUBSET Bins |->
               IF s = {} THEN 0
               ELSE f[CHOOSE x \in s : TRUE] + iter[s \ {CHOOSE x \in s : TRUE}]]
    BY <1>4
  <1> HIDE DEF iter
  <1>6. SumRecurrence(iter, Bins, f)
    BY <1>5 DEF SumRecurrence
  <1> QED
    BY <1>1, <1>6

\* A dump counts every sample there was at the serialization before that of its
\* first bin, however serializations and requests for reset mix with it.
THEOREM DumpsLoseNothing == HistSpec => []DumpLosesNothing
  <1>1. ASSUME KeptInv, NEW c \in Controls,
               Len(dump[c].out) = numFeatures, cleared = dump[c].since
        PROVE  LET out == dump[c].out
                   shown(i) == histogram(out[Place(i)].value.samples, i).count IN
               MapThenSumSet(shown, Bins) >= Cardinality(cleared + 2 .. out[1].value.before)
    <2> DEFINE out == dump[c].out
               samples(i) == out[Place(i)].value.samples
               f == [i \in Bins |-> histogram(samples(i), i).count]
               S == cleared + 2 .. out[1].value.before
               part == [s \in S |-> bin(sample[s])]
    <2>1. /\ out \in Seq(Printed) /\ cleared \in Nat
          /\ IsFiniteSet(Bins) /\ \A i \in Bins : Place(i) \in 1 .. Len(out)
      <3>1. dump[c] \in Dump /\ cleared \in Nat
        BY <1>1 DEF KeptInv, HistInv, TypeOK
      <3>2. num_bins \in Nat /\ numFeatures = num_bins + 2
        BY BinAssumption, HistogramAssumption
      <3> QED
        BY <1>1, <3>1, <3>2, FiniteBins DEF Dump, Bins, Place
    <2>2. \A i \in Bins : out[Place(i)] \in Printed
      BY <2>1
    <2>3. \A i \in Bins : PrintKept(out[Place(i)], cleared, cleared)
                        /\ out[Place(i)].valid = dump[c].valid
      BY <1>1, <2>1 DEF KeptInv, DumpKept
    <2>4. ASSUME NEW i \in Bins
          PROVE  IsFiniteSet(samples(i)) /\ samples(i) \subseteq 1 .. MaxSamples
      <3>1. samples(i) \subseteq 1 .. MaxSamples
        BY <2>3 DEF PrintKept
      <3> QED
        BY <3>1, FiniteSamples
    <2>5. f \in [Bins -> Nat]
      <3>1. ASSUME NEW i \in Bins
            PROVE  histogram(samples(i), i).count \in Nat
        <4>1. IsFiniteSet({s \in samples(i) : bin(sample[s]) = i})
          BY <2>4, FS_Subset
        <4> QED
          BY <4>1, FS_CardinalityType DEF histogram, samples_in_bin
      <3> QED
        BY <3>1
    <2>6. ASSUME NEW i \in Bins, NEW s \in S
          PROVE  s \in samples(i)
      <3>1. 0 \in Bins /\ Place(0) = 1
        BY BinAssumption DEF Bins, Place
      <3>2. out[1].value.before \in Nat /\ out[Place(i)].value.upto \in Nat
        BY <2>2, <3>1 DEF Printed, Value
      <3>3. CASE ~dump[c].valid
        <4>1. out[1].value.before = 0
          BY <2>3, <3>1, <3>3 DEF PrintKept
        <4> QED
          BY <2>1, <4>1
      <3>4. CASE dump[c].valid
        <4>1. out[1].value.before <= out[Place(i)].value.upto
          <5>1. CASE Place(i) = 1
            BY <2>3, <3>1, <3>4, <5>1 DEF PrintKept
          <5>2. CASE Place(i) # 1
            <6>1. 1 \in 1 .. Place(i) - 1 /\ Place(i) \in 1 .. Len(out)
              BY <2>1, <5>2
            <6>2. out[1].valid /\ out[Place(i)].valid
              BY <2>3, <3>1, <3>4
            <6>3. out[Place(i)].value.upto >= out[1].value.before
              BY <1>1, <6>1, <6>2 DEF KeptInv, DumpSkew
            <6> QED
              BY <3>2, <6>3
          <5> QED
            BY <5>1, <5>2
        <4>2. s \in cleared + 2 .. out[Place(i)].value.upto
          <5> DEFINE before == out[1].value.before
                     upto == out[Place(i)].value.upto
          <5>1. s \in cleared + 2 .. before
            OBVIOUS
          <5> HIDE DEF before, upto
          <5>2. before \in Nat /\ upto \in Nat /\ before <= upto
            BY <3>2, <4>1 DEF before, upto
          <5>3. s \in cleared + 2 .. upto
            BY <2>1, <5>1, <5>2
          <5> QED
            BY <5>3 DEF upto
        <4> QED
          BY <2>3, <3>4, <4>2 DEF PrintKept
      <3> QED
        BY <3>3, <3>4
    <2>7. S \subseteq 1 .. MaxSamples /\ IsFiniteSet(S)
      <3>1. 0 \in Bins
        BY BinAssumption DEF Bins
      <3> HIDE DEF S, samples
      <3>2. S \subseteq 1 .. MaxSamples
        BY <2>4, <2>6, <3>1
      <3> QED
        BY <3>2, FiniteSamples
    <2>8. part \in [S -> Bins]
      <3>1. \A s \in S : sample[s] \in Int
        BY <1>1, <2>7, HistogramAssumption DEF KeptInv
      <3>2. \A s \in S : bin(sample[s]) \in Bins
        BY <3>1, BinIsRight
      <3> HIDE DEF S
      <3> QED
        BY <3>2
    <2>9. ASSUME NEW i \in Bins
          PROVE  Cardinality({s \in S : part[s] = i}) <= f[i]
      <3> HIDE DEF samples, S
      <3>1. {s \in S : part[s] = i} \subseteq {s \in samples(i) : bin(sample[s]) = i}
        BY <2>6
      <3>2. IsFiniteSet({s \in samples(i) : bin(sample[s]) = i})
        BY <2>4, FS_Subset
      <3>3. f[i] = Cardinality({s \in samples(i) : bin(sample[s]) = i})
        BY DEF histogram, samples_in_bin
      <3> QED
        BY <3>1, <3>2, <3>3, FS_Subset
    <2> DEFINE sum == MapThenSumSet(LAMBDA i : f[i], Bins)
    <2>10. sum >= Cardinality(S)
      <3>1. PICK g : SumRecurrence(g, Bins, f) /\ sum = g[Bins]
        <4> HIDE DEF f
        <4> QED
          BY <2>5, SumIsFold
      <3> HIDE DEF f, S, part, sum
      <3>2. g[Bins] \in Nat /\ Cardinality(S) <= g[Bins]
        <4>1. PartsFit(part, S, Bins, f)
          BY <2>9 DEF PartsFit
        <4> QED
          BY <2>1, <2>5, <2>7, <2>8, <3>1, <4>1, SumOfParts
      <3>3. Cardinality(S) \in Nat
        BY <2>7, FS_CardinalityType
      <3> QED
        BY <3>1, <3>2, <3>3
    <2>11. sum = MapThenSumSet(LAMBDA i : histogram(out[Place(i)].value.samples, i).count, Bins)
      BY ZenonT(40) DEF MapThenSumSet, MapThenFoldSet
    <2> QED
      BY <2>10, <2>11
  <1>2. KeptInv => DumpLosesNothing
    BY <1>1 DEF DumpLosesNothing
  <1> QED
    BY <1>2, KeptInvariant, PTL
=============================================================================
