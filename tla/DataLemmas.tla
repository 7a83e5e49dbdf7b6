----------------------------- MODULE DataLemmas ----------------------------
(***************************************************************************)
(* The data of the models: natural numbers (induction, greatest elements,  *)
(* division and remainder, one fact at a time), and what the operators on  *)
(* sequences return.                                                       *)
(*                                                                         *)
(* Induction is stated with a set where the library has a predicate: a     *)
(* proof by induction shows that the set of the numbers that have the      *)
(* property is closed, and concludes that it has all numbers.              *)
(***************************************************************************)
EXTENDS Integers, EntrySeqs, WellFoundedInduction, TLAPS

\* A set of numbers that is not empty has a least one.
LEMMA LeastNumber ==
  ASSUME NEW T \in SUBSET Nat, T # {}
  PROVE  \E x \in T : \A y \in T : x <= y
  <1> DEFINE R == {p \in Nat \X Nat : p[1] < p[2]}
  <1>1. IsWellFoundedOn(R, Nat)
    BY NatLessThanWellFounded DEF OpToRel
  <1>2. \A x, y \in Nat : y < x => <<y, x>> \in R
    OBVIOUS
  <1> HIDE DEF R
  <1>3. PICK x \in T : \A y \in T : <<y, x>> \notin R
    BY <1>1, WFMin, Zenon
  <1>4. ASSUME NEW y \in T
        PROVE  x <= y
    <2>1. x \in Nat /\ y \in Nat /\ ~(y < x)
      BY <1>2, <1>3
    <2> QED
      BY <2>1
  <1> QED
    BY <1>4

\* Induction.
LEMMA NatSetInduction ==
  ASSUME NEW S, 0 \in S, \A n \in Nat : n \in S => n + 1 \in S
  PROVE  Nat \subseteq S
  <1> SUFFICES ASSUME Nat \ S # {} PROVE FALSE
    OBVIOUS
  <1>1. PICK x \in Nat \ S : \A y \in Nat \ S : x <= y
    BY LeastNumber
  <1>2. x - 1 \in Nat /\ x - 1 \in Nat \ S
    BY <1>1
  <1> QED
    BY <1>1, <1>2

\* A set of numbers that is not empty and has a bound has a greatest one.
LEMMA GreatestNumber ==
  ASSUME NEW n \in Nat, NEW K \in SUBSET (0 .. n), K # {}
  PROVE  \E x \in K : \A y \in K : x >= y
  <1> DEFINE T == {n - k : k \in K}
  <1>0. T \subseteq Nat /\ T # {}
    <2>1. \A k \in K : n - k \in Nat
      OBVIOUS
    <2> QED
      BY <2>1
  <1>1. PICK x \in T : \A y \in T : x <= y
    <2> HIDE DEF T
    <2> QED
      BY <1>0, LeastNumber
  <1>2. PICK k \in K : x = n - k
    OBVIOUS
  <1>3. \A y \in K : k >= y
    BY <1>1, <1>2
  <1> QED
    BY <1>3

\* The function f on 0 .. n begins with base and goes on by step.
Recurrence(f, n, base, step) ==
  f[0] = base /\ \A k \in 1 .. n : f[k] = step[<<f[k - 1], k>>]

\* Every recurrence has a solution.
LEMMA PrimitiveRecursion ==
  ASSUME NEW n \in Nat, NEW V, NEW base \in V, NEW step \in [V \X (1 .. n) -> V]
  PROVE  \E f \in [0 .. n -> V] : Recurrence(f, n, base, step)
  <1> DEFINE Meets(f, m) == f[0] = base /\ \A k \in 1 .. m : f[k] = step[<<f[k - 1], k>>]
             S == {m \in Nat : m <= n => \E f \in [0 .. m -> V] : Meets(f, m)}
  <1>1. 0 \in S
    <2>1. [k \in 0 .. 0 |-> base] \in [0 .. 0 -> V] /\ Meets([k \in 0 .. 0 |-> base], 0)
      OBVIOUS
    <2> QED
      BY <2>1
  <1>2. ASSUME NEW m \in Nat, m \in S
        PROVE  m + 1 \in S
    <2> SUFFICES ASSUME m + 1 <= n
                 PROVE  \E f \in [0 .. m + 1 -> V] : Meets(f, m + 1)
      OBVIOUS
    <2>1. PICK f \in [0 .. m -> V] : Meets(f, m)
      BY <1>2
    <2> DEFINE x == step[<<f[m], m + 1>>]
               g == [k \in 0 .. m + 1 |-> IF k = m + 1 THEN x ELSE f[k]]
    <2>2. f[m] \in V /\ m + 1 \in 1 .. n
      OBVIOUS
    <2>3. x \in V
      BY <2>2
    <2> HIDE DEF x
    <2>4. g \in [0 .. m + 1 -> V]
      BY <2>3
    <2>5. \A k \in 0 .. m : g[k] = f[k]
      OBVIOUS
    <2>6. g[m + 1] = x
      OBVIOUS
    <2> HIDE DEF g
    <2>7. ASSUME NEW k \in 1 .. m + 1
          PROVE  g[k] = step[<<g[k - 1], k>>]
      <3>1. CASE k = m + 1
        <4>1. g[k - 1] = f[m]
          BY <2>5, <3>1
        <4> QED
          BY <2>6, <3>1, <4>1 DEF x
      <3>2. CASE k \in 1 .. m
        <4>1. g[k] = f[k] /\ g[k - 1] = f[k - 1]
          BY <2>5, <3>2
        <4> QED
          BY <2>1, <3>2, <4>1
      <3> QED
        BY <3>1, <3>2
    <2>8. g[0] = base
      BY <2>1, <2>5
    <2> QED
      BY <2>4, <2>7, <2>8
  <1> HIDE DEF S
  <1>3. Nat \subseteq S
    BY <1>1, <1>2, NatSetInduction
  <1>4. n \in S
    BY <1>3
  <1> QED
    BY <1>4 DEF S, Recurrence

----------------------------------------------------------------------------
\* Quotients are natural numbers.
LEMMA DivType ==
  ASSUME NEW a \in Nat, NEW b \in Nat \ {0}
  PROVE  a \div b \in Nat
  BY SMTT(30)

\* Nothing fits into what is larger.
LEMMA DivSmall ==
  ASSUME NEW a \in Nat, NEW b \in Nat \ {0}, a < b
  PROVE  a \div b = 0
  BY SMTT(30)

\* One divisor more gives one more.
LEMMA DivStep ==
  ASSUME NEW a \in Nat, NEW b \in Nat \ {0}
  PROVE  (a + b) \div b = 1 + (a \div b)
  BY SMTT(30)

\* Euclid's division.
LEMMA DivMod ==
  ASSUME NEW a \in Nat, NEW b \in Nat \ {0}
  PROVE  a = b * (a \div b) + (a % b) /\ a % b \in 0 .. b - 1
  BY SMTT(30)

\* A remainder of what is smaller is itself.
LEMMA ModSmall ==
  ASSUME NEW a \in Nat, NEW b \in Nat \ {0}, a < b
  PROVE  a % b = a
  BY SMTT(30)

\* Multiplication distributes over a successor.
LEMMA TimesSuccessor ==
  ASSUME NEW q \in Int, NEW b \in Int
  PROVE  b * (1 + q) = b + b * q
  OBVIOUS

\* A full turn leaves the remainder.
LEMMA ModStep ==
  ASSUME NEW a \in Nat, NEW b \in Nat \ {0}
  PROVE  (a + b) % b = a % b
  <1> DEFINE q == a \div b
             p == (a + b) \div b
  <1>1. q \in Nat
    BY DivType
  <1>2. p = 1 + q
    BY DivStep
  <1>3. b * p = b + b * q /\ b * q \in Int
    BY <1>1, <1>2, TimesSuccessor
  <1>4. a = b * q + (a % b) /\ a % b \in Int
    BY DivMod
  <1>5. a + b = b * p + ((a + b) % b) /\ (a + b) % b \in Int
    <2>1. a + b \in Nat
      OBVIOUS
    <2> QED
      BY <2>1, DivMod
  <1> DEFINE x == b * q
             y == b * p
             r == a % b
             z == (a + b) % b
  <1>6. y = b + x /\ a = x + r /\ a + b = y + z
    BY <1>3, <1>4, <1>5
  <1>7. x \in Int /\ r \in Int /\ z \in Int
    BY <1>3, <1>4, <1>5
  <1> HIDE DEF x, y, r, z
  <1>8. z = r
    BY <1>6, <1>7
  <1> QED
    BY <1>8 DEF z, r

\* Multiplication keeps the order.
LEMMA TimesMonotone ==
  ASSUME NEW a \in Nat, NEW b \in Nat, NEW c \in Nat, a <= b
  PROVE  a * c <= b * c /\ a * c \in Nat /\ b * c \in Nat
  BY SMTT(20)

\* Distribution and association.
LEMMA Distribute ==
  ASSUME NEW a \in Int, NEW b \in Int, NEW c \in Int
  PROVE  (a + b) * c = a * c + b * c /\ (a - b) * c = a * c - b * c /\ a * c \in Int /\ b * c \in Int
  BY SMTT(20)

LEMMA Associate ==
  ASSUME NEW a \in Int, NEW b \in Int, NEW c \in Int
  PROVE  (a * b) * c = a * (b * c) /\ a * b = b * a
  BY SMTT(20)

\* Quotient and remainder are unique.
LEMMA DivUnique ==
  ASSUME NEW a \in Nat, NEW b \in Nat \ {0}, NEW q \in Nat, NEW r \in 0 .. b - 1,
         a = q * b + r
  PROVE  a \div b = q /\ a % b = r
  <1> DEFINE p == a \div b
             m == a % b
  <1>1. p \in Nat /\ m \in 0 .. b - 1 /\ a = b * p + m
    BY DivType, DivMod
  <1> HIDE DEF p, m
  <1>2. b * p = p * b /\ p * b \in Int /\ q * b \in Int
    BY <1>1, Associate, Distribute
  <1>3. CASE p < q
    <2>1. (p + 1) * b <= q * b /\ (p + 1) * b = p * b + 1 * b /\ 1 * b = b
      <3>1. p + 1 \in Nat /\ p + 1 <= q
        BY <1>1, <1>3
      <3> QED
        BY <1>1, <3>1, TimesMonotone, Distribute
    <2> QED
      BY <1>1, <1>2, <2>1
  <1>4. CASE q < p
    <2>1. (q + 1) * b <= p * b /\ (q + 1) * b = q * b + 1 * b /\ 1 * b = b
      <3>1. q + 1 \in Nat /\ q + 1 <= p
        BY <1>1, <1>4
      <3> QED
        BY <1>1, <3>1, TimesMonotone, Distribute
    <2> QED
      BY <1>1, <1>2, <2>1
  <1>5. CASE p = q
    BY <1>1, <1>2, <1>5 DEF p, m
  <1> QED
    BY <1>1, <1>3, <1>4, <1>5

\* The successor of a remainder.
LEMMA ModSuccessor ==
  ASSUME NEW a \in Nat, NEW b \in Nat \ {0}
  PROVE  ((a % b) + 1) % b = (a + 1) % b
  <1> DEFINE r == a % b
             q == a \div b
             x == q * b
             c == a + 1
  <1>1. a = b * q + r /\ r \in 0 .. b - 1 /\ q \in Nat
    BY DivMod, DivType
  <1>2. b * q = x /\ x \in Int
    BY <1>1, Associate, Distribute
  <1>3. a = x + r
    BY <1>1, <1>2
  <1>4. (q + 1) * b = x + b
    <2>1. (q + 1) * b = q * b + 1 * b /\ 1 * b = b
      BY <1>1, Distribute
    <2> QED
      BY <2>1
  <1> HIDE DEF r, q, x, c
  <1>5. CASE r + 1 < b
    <2> DEFINE s == r + 1
    <2>1. c = q * b + s /\ s \in 0 .. b - 1 /\ c \in Nat /\ s \in Nat /\ s < b
      BY <1>1, <1>2, <1>3, <1>5 DEF c, x
    <2> HIDE DEF s
    <2>2. c % b = s /\ s % b = s
      BY <1>1, <2>1, DivUnique, ModSmall
    <2> QED
      BY <2>2 DEF c, r, s
  <1>6. CASE r + 1 = b
    <2> DEFINE p == q + 1
    <2>1. p \in Nat /\ 1 \in Nat /\ 1 * b + 0 = b /\ 0 \in 0 .. b - 1 /\ c \in Nat /\ b \in Nat
      BY <1>1 DEF c
    <2>2. c = p * b + 0
      BY <1>1, <1>2, <1>3, <1>4, <1>6 DEF c
    <2> HIDE DEF p
    <2>3. c % b = 0 /\ b % b = 0
      BY <2>1, <2>2, DivUnique
    <2> QED
      BY <1>6, <2>3 DEF c, r
  <1> QED
    BY <1>1, <1>5, <1>6

\* Dividing twice.
LEMMA DivDiv ==
  ASSUME NEW a \in Nat, NEW b \in Nat \ {0}, NEW c \in Nat \ {0}
  PROVE  (a \div b) \div c = a \div (c * b) /\ c * b \in Nat \ {0}
  <1> DEFINE p == a \div b
             m == a % b
             q == p \div c
             r == p % c
             x == r * b + m
  <1>1. p \in Nat /\ m \in 0 .. b - 1 /\ a = b * p + m
    BY DivType, DivMod
  <1> HIDE DEF p, m
  <1>2. q \in Nat /\ r \in 0 .. c - 1 /\ p = c * q + r
    BY <1>1, DivType, DivMod
  <1> HIDE DEF q, r
  <1>3. c * b \in Nat \ {0}
    BY SMTT(20)
  <1>4. b * p = p * b /\ c * q = q * c /\ p * b = (q * c) * b + r * b
        /\ (q * c) * b = q * (c * b) /\ q * (c * b) \in Int /\ r * b \in Int
    <2>1. q * c \in Int /\ r \in Int /\ p \in Int /\ c * b \in Int /\ p = q * c + r
      BY <1>1, <1>2, <1>3, Associate, Distribute
    <2>2. (q * c + r) * b = (q * c) * b + r * b /\ r * b \in Int
      BY <2>1, Distribute
    <2>3. b * p = p * b /\ c * q = q * c /\ (q * c) * b = q * (c * b)
      BY <1>2, <2>1, Associate
    <2>4. q * (c * b) \in Int
      BY <1>2, <2>1, Distribute
    <2> QED
      BY <2>1, <2>2, <2>3, <2>4
  <1>5. a = q * (c * b) + x
    BY <1>1, <1>4
  <1>6. x \in 0 .. c * b - 1
    <2>1. r \in Nat /\ c - 1 \in Nat /\ r <= c - 1
      BY <1>2
    <2>2. r * b <= (c - 1) * b /\ r * b \in Nat
      BY <2>1, TimesMonotone
    <2>3. (c - 1) * b = c * b - 1 * b /\ 1 * b = b
      BY Distribute
    <2> QED
      BY <1>1, <1>3, <2>2, <2>3
  <1> HIDE DEF x
  <1>7. a \div (c * b) = q
    BY <1>2, <1>3, <1>5, <1>6, DivUnique
  <1> QED
    BY <1>3, <1>7 DEF p, q

----------------------------------------------------------------------------
(* Folds.  The community modules define them by recursion over the sets of   *)
(* the positions that are still to come, from which one is picked.           *)

\* The function g on sets of positions takes away the one that is picked.
SetRecurrence(g, n, base, step, pick) ==
  /\ g[{}] = base
  /\ \A s \in SUBSET (1 .. n) : s # {} => g[s] = step[<<g[s \ {pick[s]}], pick[s]>>]

\* The position that is picked is the last one of the set in the order c, which is
\* its own inverse: that of the numbers, or their reverse.
PicksLast(pick, c, n) ==
  /\ c \in [1 .. n -> 1 .. n]
  /\ \A i \in 1 .. n : c[c[i]] = i
  /\ \A s \in SUBSET (1 .. n) :
       s # {} => pick[s] \in s /\ \A i \in s : c[i] <= c[pick[s]]

\* Every such recurrence has a solution.
LEMMA SetRecursion ==
  ASSUME NEW n \in Nat, NEW V, NEW base \in V, NEW step \in [V \X (1 .. n) -> V],
         NEW c, NEW pick, PicksLast(pick, c, n)
  PROVE  \E g \in [SUBSET (1 .. n) -> V] : SetRecurrence(g, n, base, step, pick)
  <1> DEFINE W == [SUBSET (1 .. n) -> V]
             base1 == [s \in SUBSET (1 .. n) |-> base]
             next(h, i) == [s \in SUBSET (1 .. n) |->
                              IF i \in s THEN step[<<h[s \ {i}], i>>] ELSE h[s]]
             step1 == [p \in W \X (1 .. n) |-> next(p[1], c[p[2]])]
  <1>0. /\ c \in [1 .. n -> 1 .. n]
        /\ \A i \in 1 .. n : c[c[i]] = i
        /\ \A s \in SUBSET (1 .. n) :
             s # {} => pick[s] \in s /\ \A i \in s : c[i] <= c[pick[s]]
    BY DEF PicksLast
  <1>1. ASSUME NEW h \in W, NEW i \in 1 .. n
        PROVE  next(h, i) \in W
    <2>1. ASSUME NEW s \in SUBSET (1 .. n)
          PROVE  h[s] \in V /\ step[<<h[s \ {i}], i>>] \in V
      OBVIOUS
    <2> QED
      BY <2>1
  <1>2. base1 \in W
    OBVIOUS
  <1>3. step1 \in [W \X (1 .. n) -> W]
    <2> HIDE DEF next, W
    <2> QED
      BY <1>0, <1>1
  <1>4. \A h \in W, k \in 1 .. n : step1[<<h, k>>] = next(h, c[k])
    OBVIOUS
  <1> HIDE DEF step1, W, base1
  <1>5. PICK F \in [0 .. n -> W] : Recurrence(F, n, base1, step1)
    BY <1>2, <1>3, PrimitiveRecursion
  <1>6. \A s \in SUBSET (1 .. n) : F[0][s] = base
    BY <1>5 DEF Recurrence, base1
  <1>7. ASSUME NEW k \in 1 .. n, NEW s \in SUBSET (1 .. n)
        PROVE  F[k][s] = IF c[k] \in s THEN step[<<F[k - 1][s \ {c[k]}], c[k]>>]
                         ELSE F[k - 1][s]
    <2>1. k - 1 \in 0 .. n
      OBVIOUS
    <2>2. F[k - 1] \in W
      BY <2>1
    <2>3. F[k] = next(F[k - 1], c[k])
      <3> HIDE DEF next
      <3>1. F[k] = step1[<<F[k - 1], k>>]
        BY <1>5 DEF Recurrence
      <3> QED
        BY <1>4, <2>2, <3>1
    <2> QED
      BY <2>3
  \* From stage k on a set of the first k in the order has its final value.
  <1>8. \A k \in 0 .. n : \A s \in SUBSET (1 .. n) :
          (\A i \in s : c[i] <= k) => F[n][s] = F[k][s]
    <2> DEFINE Same(k) == \A s \in SUBSET (1 .. n) :
                 (\A i \in s : c[i] <= k) => F[n][s] = F[k][s]
               S == {m \in Nat : m <= n => Same(n - m)}
    <2>1. 0 \in S
      OBVIOUS
    <2>2. ASSUME NEW m \in Nat, m \in S
          PROVE  m + 1 \in S
      <3> SUFFICES ASSUME m + 1 <= n
                   PROVE  Same(n - (m + 1))
        <4> HIDE DEF Same
        <4> QED
          OBVIOUS
      <3> SUFFICES ASSUME NEW s \in SUBSET (1 .. n), \A i \in s : c[i] <= n - (m + 1)
                   PROVE  F[n][s] = F[n - (m + 1)][s]
        OBVIOUS
      <3> DEFINE k == n - m
      <3>1. k \in 1 .. n /\ k - 1 = n - (m + 1)
        OBVIOUS
      <3>2. \A i \in s : c[i] \in 1 .. n /\ c[i] <= k
        BY <1>0, <3>1
      <3>3. F[n][s] = F[k][s]
        BY <2>2, <3>2
      <3>4. c[k] \notin s
        <4>1. c[k] \in 1 .. n /\ c[c[k]] = k
          BY <1>0, <3>1
        <4> QED
          BY <3>1, <4>1
      <3> HIDE DEF k
      <3>5. F[k][s] = F[k - 1][s]
        BY <1>7, <3>1, <3>4
      <3> QED
        BY <3>1, <3>3, <3>5
    <2> HIDE DEF S
    <2>3. Nat \subseteq S
      BY <2>1, <2>2, NatSetInduction
    <2>4. ASSUME NEW k \in 0 .. n
          PROVE  Same(k)
      <3> HIDE DEF Same
      <3>1. n - k \in S /\ n - k <= n /\ n - (n - k) = k
        BY <2>3
      <3> QED
        BY <3>1 DEF S
    <2> QED
      BY <2>4
  <1> DEFINE g == F[n]
  <1>9. g \in [SUBSET (1 .. n) -> V]
    <2>1. n \in 0 .. n
      OBVIOUS
    <2> QED
      BY <2>1 DEF W
  <1>10. g[{}] = base
    BY <1>6, <1>8
  <1>11. ASSUME NEW s \in SUBSET (1 .. n), s # {}
         PROVE  g[s] = step[<<g[s \ {pick[s]}], pick[s]>>]
    <2> DEFINE x == pick[s]
               k == c[x]
    <2>1. x \in s /\ x \in 1 .. n /\ k \in 1 .. n /\ c[k] = x
      BY <1>0, <1>11
    <2>2. \A i \in s : c[i] <= k
      BY <1>0, <1>11
    <2>3. ASSUME NEW i \in s \ {x}
          PROVE  c[i] <= k - 1
      <3>1. i \in 1 .. n /\ c[i] \in 1 .. n /\ c[c[i]] = i
        BY <1>0
      <3>2. c[i] # k
        BY <2>1, <3>1
      <3> QED
        BY <2>1, <2>2, <3>1, <3>2
    <2> HIDE DEF x, k
    <2>4. g[s] = F[k][s]
      BY <1>8, <2>1, <2>2, SMTT(30)
    <2>5. F[k][s] = step[<<F[k - 1][s \ {x}], x>>]
      BY <1>7, <2>1
    <2>6. k - 1 \in 0 .. n /\ s \ {x} \in SUBSET (1 .. n)
      BY <2>1
    <2>7. F[k - 1][s \ {x}] = g[s \ {x}]
      BY <1>8, <2>3, <2>6
    <2> QED
      BY <2>4, <2>5, <2>7 DEF x
  <1> HIDE DEF g
  <1> QED
    BY <1>9, <1>10, <1>11 DEF SetRecurrence

\* Sets of positions have a last one and a first one.
LEMMA LastAndFirst ==
  ASSUME NEW n \in Nat, NEW s \in SUBSET (1 .. n), s # {}
  PROVE  /\ Max(s) \in s /\ \A i \in s : i <= Max(s)
         /\ Min(s) \in s /\ \A i \in s : Min(s) <= i
  <1>1. \E x \in s : \A y \in s : x >= y
    <2>1. s \in SUBSET (0 .. n)
      OBVIOUS
    <2> QED
      BY <2>1, GreatestNumber
  <1>2. \E x \in s : \A y \in s : x <= y
    <2>1. s \in SUBSET Nat
      OBVIOUS
    <2> QED
      BY <2>1, LeastNumber
  <1>3. Max(s) \in s /\ \A y \in s : Max(s) >= y
    BY <1>1 DEF Max
  <1>4. Min(s) \in s /\ \A y \in s : Min(s) <= y
    BY <1>2 DEF Min
  <1>5. \A y \in s : Max(s) >= y <=> y <= Max(s)
    BY <1>3
  <1> QED
    BY <1>3, <1>4, <1>5

\* Of the first k positions the last is k, and of those from k on k is the first.
LEMMA Prefix ==
  ASSUME NEW k \in Nat \ {0}
  PROVE  1 .. k # {} /\ Max(1 .. k) = k /\ (1 .. k) \ {k} = 1 .. k - 1
  <1>1. 1 .. k \in SUBSET (1 .. k) /\ k \in 1 .. k
    OBVIOUS
  <1>2. Max(1 .. k) \in 1 .. k /\ k <= Max(1 .. k)
    BY <1>1, LastAndFirst
  <1> QED
    BY <1>2

LEMMA Suffix ==
  ASSUME NEW n \in Nat, NEW k \in 1 .. n
  PROVE  k .. n # {} /\ Min(k .. n) = k /\ (k .. n) \ {k} = k + 1 .. n
  <1>1. k .. n \in SUBSET (1 .. n) /\ k \in k .. n
    OBVIOUS
  <1>2. Min(k .. n) \in k .. n /\ Min(k .. n) <= k
    BY <1>1, LastAndFirst
  <1> QED
    BY <1>2

\* FoldLeft takes away the last position.
LeftRecurrence(g, n, base, step) ==
  /\ g[{}] = base
  /\ \A s \in SUBSET (1 .. n) :
       s # {} => g[s] = step[<<g[s \ {Max(s)}], Max(s)>>]

LEMMA LeftRecursion ==
  ASSUME NEW n \in Nat, NEW V, NEW base \in V, NEW step \in [V \X (1 .. n) -> V]
  PROVE  \E g \in [SUBSET (1 .. n) -> V] : LeftRecurrence(g, n, base, step)
  <1> DEFINE c == [i \in 1 .. n |-> i]
             pick == [s \in SUBSET (1 .. n) |-> Max(s)]
  <1>1. c \in [1 .. n -> 1 .. n] /\ \A i \in 1 .. n : c[c[i]] = i
    OBVIOUS
  <1>2. \A s \in SUBSET (1 .. n) : pick[s] = Max(s)
    OBVIOUS
  <1>3. ASSUME NEW s \in SUBSET (1 .. n), s # {}
        PROVE  pick[s] \in s /\ \A i \in s : c[i] <= c[pick[s]]
    <2>1. Max(s) \in s /\ \A i \in s : i <= Max(s)
      BY <1>3, LastAndFirst
    <2>2. \A i \in s : c[i] = i
      OBVIOUS
    <2> HIDE DEF c
    <2> QED
      BY <2>1, <2>2
  <1> HIDE DEF c, pick
  <1>4. PICK g \in [SUBSET (1 .. n) -> V] : SetRecurrence(g, n, base, step, pick)
    <2>1. PicksLast(pick, c, n)
      BY <1>1, <1>3 DEF PicksLast
    <2> QED
      BY <2>1, SetRecursion
  <1> QED
    BY <1>2, <1>4 DEF SetRecurrence, LeftRecurrence

\* FoldRight takes away the first one.
RightRecurrence(g, n, base, step) ==
  /\ g[{}] = base
  /\ \A s \in SUBSET (1 .. n) :
       s # {} => g[s] = step[<<g[s \ {Min(s)}], Min(s)>>]

LEMMA RightRecursion ==
  ASSUME NEW n \in Nat, NEW V, NEW base \in V, NEW step \in [V \X (1 .. n) -> V]
  PROVE  \E g \in [SUBSET (1 .. n) -> V] : RightRecurrence(g, n, base, step)
  <1> DEFINE c == [i \in 1 .. n |-> n + 1 - i]
             pick == [s \in SUBSET (1 .. n) |-> Min(s)]
  <1>1. c \in [1 .. n -> 1 .. n] /\ \A i \in 1 .. n : c[c[i]] = i
    OBVIOUS
  <1>2. \A s \in SUBSET (1 .. n) : pick[s] = Min(s)
    OBVIOUS
  <1>3. ASSUME NEW s \in SUBSET (1 .. n), s # {}
        PROVE  pick[s] \in s /\ \A i \in s : c[i] <= c[pick[s]]
    <2>1. Min(s) \in s /\ \A i \in s : Min(s) <= i
      BY <1>3, LastAndFirst
    <2>2. \A i \in s : c[i] = n + 1 - i /\ i \in Int
      OBVIOUS
    <2> HIDE DEF c, pick
    <2> QED
      BY <1>2, <2>1, <2>2
  <1> HIDE DEF c, pick
  <1>4. PICK g \in [SUBSET (1 .. n) -> V] : SetRecurrence(g, n, base, step, pick)
    <2>1. PicksLast(pick, c, n)
      BY <1>1, <1>3 DEF PicksLast
    <2> QED
      BY <2>1, SetRecursion
  <1> QED
    BY <1>2, <1>4 DEF SetRecurrence, RightRecurrence

----------------------------------------------------------------------------
(* Concatenated and flattened sequences *)

\* Sequences are equal that have the same elements in the same places.
LEMMA SameSequence ==
  ASSUME NEW S, NEW r \in Seq(S), NEW s \in Seq(S), Len(r) = Len(s),
         \A i \in 1 .. Len(r) : r[i] = s[i]
  PROVE  r = s
  <1>1. r = [i \in 1 .. Len(r) |-> r[i]] /\ s = [i \in 1 .. Len(s) |-> s[i]]
    OBVIOUS
  <1> QED
    BY <1>1

\* Concatenation.
LEMMA ConcatElements ==
  ASSUME NEW S, NEW r \in Seq(S), NEW s \in Seq(S)
  PROVE  /\ r \o s \in Seq(S) /\ Len(r \o s) = Len(r) + Len(s)
         /\ \A i \in 1 .. Len(r) : (r \o s)[i] = r[i]
         /\ \A i \in Len(r) + 1 .. Len(r) + Len(s) : (r \o s)[i] = s[i - Len(r)]
  OBVIOUS

LEMMA ToSetOfConcat ==
  ASSUME NEW S, NEW r \in Seq(S), NEW s \in Seq(S)
  PROVE  r \o s \in Seq(S) /\ ToSet(r \o s) = ToSet(r) \cup ToSet(s)
  <1>1. /\ DOMAIN (r \o s) = 1 .. Len(r) + Len(s)
        /\ Len(r) \in Nat /\ Len(s) \in Nat
        /\ DOMAIN r = 1 .. Len(r) /\ DOMAIN s = 1 .. Len(s)
    OBVIOUS
  <1>2. \A i \in 1 .. Len(r) : (r \o s)[i] = r[i] /\ i \in 1 .. Len(r) + Len(s)
    OBVIOUS
  <1>3. \A i \in 1 .. Len(s) :
           (r \o s)[Len(r) + i] = s[i] /\ Len(r) + i \in 1 .. Len(r) + Len(s)
    OBVIOUS
  <1>4. \A i \in 1 .. Len(r) + Len(s) :
           i \in 1 .. Len(r) \/ (i - Len(r) \in 1 .. Len(s) /\ Len(r) + (i - Len(r)) = i)
    BY <1>1
  <1> DEFINE q == r \o s
  <1>5. q \in Seq(S)
    OBVIOUS
  <1> HIDE DEF q
  <1>6. ASSUME NEW x \in ToSet(q)
        PROVE  x \in ToSet(r) \cup ToSet(s)
    <2>1. PICK i \in 1 .. Len(r) + Len(s) : x = q[i]
      BY <1>1 DEF ToSet, q
    <2>2. CASE i \in 1 .. Len(r)
      BY <1>1, <1>2, <2>1, <2>2 DEF ToSet, q
    <2>3. CASE i - Len(r) \in 1 .. Len(s) /\ Len(r) + (i - Len(r)) = i
      <3>1. x = s[i - Len(r)]
        BY <1>3, <2>1, <2>3 DEF q
      <3> QED
        BY <1>1, <2>3, <3>1 DEF ToSet
    <2> QED
      BY <1>4, <2>2, <2>3
  <1>7. ToSet(r) \cup ToSet(s) \subseteq ToSet(q)
    BY <1>1, <1>2, <1>3 DEF ToSet, q
  <1> QED
    BY <1>5, <1>6, <1>7 DEF q

\* A sequence that has each of its elements once.
IsOnce(s) == \A i, j \in DOMAIN s : s[i] = s[j] => i = j

LEMMA ConcatOnce ==
  ASSUME NEW S, NEW r \in Seq(S), NEW s \in Seq(S), IsOnce(r), IsOnce(s),
         ToSet(r) \cap ToSet(s) = {}
  PROVE  IsOnce(r \o s)
  <1> DEFINE q == r \o s
  <1>1. /\ DOMAIN q = 1 .. Len(r) + Len(s)
        /\ Len(r) \in Nat /\ Len(s) \in Nat
        /\ DOMAIN r = 1 .. Len(r) /\ DOMAIN s = 1 .. Len(s)
    OBVIOUS
  <1>2. \A i \in 1 .. Len(r) + Len(s) :
           \/ i \in 1 .. Len(r) /\ q[i] = r[i]
           \/ i - Len(r) \in 1 .. Len(s) /\ q[i] = s[i - Len(r)] /\ i > Len(r)
    OBVIOUS
  <1> HIDE DEF q
  <1>3. \A i \in 1 .. Len(r), j \in 1 .. Len(s) : r[i] # s[j]
    BY <1>1 DEF ToSet
  <1>4. ASSUME NEW i \in 1 .. Len(r) + Len(s), NEW j \in 1 .. Len(r) + Len(s), q[i] = q[j]
        PROVE  i = j
    <2>1. CASE i \in 1 .. Len(r) /\ q[i] = r[i] /\ j \in 1 .. Len(r) /\ q[j] = r[j]
      BY <1>1, <1>4, <2>1 DEF IsOnce
    <2>2. CASE /\ i - Len(r) \in 1 .. Len(s) /\ q[i] = s[i - Len(r)]
               /\ j - Len(r) \in 1 .. Len(s) /\ q[j] = s[j - Len(r)]
      <3>1. i - Len(r) = j - Len(r)
        BY <1>1, <1>4, <2>2 DEF IsOnce
      <3> QED
        BY <1>1, <3>1
    <2> QED
      BY <1>2, <1>3, <1>4, <2>1, <2>2
  <1> QED
    BY <1>1, <1>4 DEF IsOnce, q

\* f has what the first sequences of ss have.
FlattenRecurrence(f, ss) ==
  f[0] = <<>> /\ \A k \in Nat : k + 1 <= Len(ss) => f[k + 1] = f[k] \o ss[k + 1]

LEMMA FlattenRecursion ==
  ASSUME NEW S, NEW ss \in Seq(Seq(S))
  PROVE  \E f \in [0 .. Len(ss) -> Seq(S)] :
           FlattenRecurrence(f, ss) /\ FlattenSeq(ss) = f[Len(ss)]
  <1> DEFINE n == Len(ss)
             step == [p \in Seq(S) \X (1 .. n) |-> p[1] \o ss[p[2]]]
             flatten[i \in 1 .. n] == IF i = 1 THEN ss[i] ELSE flatten[i - 1] \o ss[i]
  <1>1. n \in Nat /\ <<>> \in Seq(S) /\ \A k \in 1 .. n : ss[k] \in Seq(S)
    OBVIOUS
  <1>2. FlattenSeq(ss) = IF n = 0 THEN ss ELSE flatten[n]
    BY DEF FlattenSeq
  <1>3. step \in [Seq(S) \X (1 .. n) -> Seq(S)]
    <2> HIDE DEF n
    <2>1. ASSUME NEW v \in Seq(S), NEW k \in 1 .. n
          PROVE  v \o ss[k] \in Seq(S)
      BY <1>1
    <2> QED
      BY <2>1
  <1>4. \A v \in Seq(S), k \in 1 .. n : step[<<v, k>>] = v \o ss[k]
    OBVIOUS
  <1> HIDE DEF step
  <1>5. PICK f \in [0 .. n -> Seq(S)] : Recurrence(f, n, <<>>, step)
    <2> HIDE DEF n
    <2> QED
      BY <1>1, <1>3, PrimitiveRecursion
  <1>6. ASSUME NEW k \in 1 .. n
        PROVE  f[k] = f[k - 1] \o ss[k]
    <2>1. f[k - 1] \in Seq(S)
      <3>1. k - 1 \in 0 .. n
        BY <1>1
      <3> HIDE DEF n
      <3> QED
        BY <3>1
    <2> QED
      BY <1>4, <1>5, <2>1 DEF Recurrence
  <1>7. f[0] = <<>>
    BY <1>5 DEF Recurrence
  <1>8. FlattenRecurrence(f, ss)
    <2>1. ASSUME NEW k \in Nat, k + 1 <= n
          PROVE  f[k + 1] = f[k] \o ss[k + 1]
      <3> DEFINE m == k + 1
      <3>1. m \in 1 .. n /\ m - 1 = k
        BY <1>1, <2>1
      <3> HIDE DEF m
      <3>2. f[m] = f[m - 1] \o ss[m]
        BY <1>6, <3>1
      <3> QED
        BY <3>1, <3>2 DEF m
    <2> QED
      BY <1>7, <2>1 DEF FlattenRecurrence
  <1>9. CASE n = 0
    <2>1. ss = <<>>
      BY <1>9
    <2> QED
      BY <1>2, <1>7, <1>8, <1>9, <2>1
  <1>10. CASE n # 0
    <2> DEFINE g == [k \in 1 .. n |-> f[k]]
    <2>1. \A k \in 1 .. n : g[k] = f[k]
      OBVIOUS
    <2>2. ASSUME NEW k \in 1 .. n
          PROVE  f[k] = IF k = 1 THEN ss[k] ELSE g[k - 1] \o ss[k]
      <3>1. CASE k = 1
        <4>1. <<>> \o ss[k] = ss[k] /\ k - 1 = 0
          BY <1>1, <3>1
        <4> QED
          BY <1>6, <1>7, <3>1, <4>1
      <3>2. CASE k # 1
        <4>1. k - 1 \in 1 .. n
          BY <1>1, <3>2
        <4> QED
          BY <1>6, <2>1, <3>2, <4>1
      <3> QED
        BY <3>1, <3>2
    <2>3. g = [k \in 1 .. n |-> IF k = 1 THEN ss[k] ELSE g[k - 1] \o ss[k]]
      BY <2>2
    <2>4. flatten = [k \in 1 .. n |-> IF k = 1 THEN ss[k] ELSE flatten[k - 1] \o ss[k]]
      BY <2>3
    <2> HIDE DEF flatten, n
    <2> DEFINE first(k) == IF k = 1 THEN ss[k] ELSE flatten[k - 1] \o ss[k]
    <2>9. \A k \in 1 .. n : flatten[k] = first(k)
      BY <2>4
    <2> DEFINE K == {k \in Nat : k \in 1 .. n => flatten[k] = f[k]}
    <2>5. 0 \in K
      OBVIOUS
    <2>6. ASSUME NEW k \in Nat, k \in K
          PROVE  k + 1 \in K
      <3> SUFFICES ASSUME k + 1 \in 1 .. n PROVE flatten[k + 1] = f[k + 1]
        OBVIOUS
      <3>1. flatten[k + 1] = IF k + 1 = 1 THEN ss[k + 1] ELSE flatten[k + 1 - 1] \o ss[k + 1]
        BY <2>9
      <3>2. f[k + 1] = IF k + 1 = 1 THEN ss[k + 1] ELSE g[k + 1 - 1] \o ss[k + 1]
        BY <2>2
      <3>3. k + 1 - 1 = k /\ (k = 0 \/ (k \in 1 .. n /\ g[k] = f[k]))
        BY <1>1, <2>1
      <3> HIDE DEF g
      <3> QED
        BY <2>6, <3>1, <3>2, <3>3
    <2> HIDE DEF K
    <2>7. Nat \subseteq K
      BY <2>5, <2>6, NatSetInduction
    <2>8. flatten[n] = f[n]
      BY <1>1, <1>10, <2>7 DEF K
    <2> QED
      BY <1>2, <1>8, <1>10, <2>8 DEF n
  <1> QED
    BY <1>9, <1>10

\* A flattened sequence has the elements of all the sequences in it.
LEMMA FlattenElements ==
  ASSUME NEW S, NEW ss \in Seq(Seq(S))
  PROVE  /\ FlattenSeq(ss) \in Seq(S)
         /\ ToSet(FlattenSeq(ss)) = UNION {ToSet(ss[i]) : i \in DOMAIN ss}
  <1> DEFINE n == Len(ss)
  <1>1. n \in Nat /\ DOMAIN ss = 1 .. n /\ \A k \in 1 .. n : ss[k] \in Seq(S)
    OBVIOUS
  <1>2. PICK f \in [0 .. n -> Seq(S)] : FlattenRecurrence(f, ss) /\ FlattenSeq(ss) = f[n]
    BY FlattenRecursion
  <1> HIDE DEF n
  <1> DEFINE K == {k \in Nat : k <= n => ToSet(f[k]) = UNION {ToSet(ss[i]) : i \in 1 .. k}}
  <1>3. 0 \in K
    BY <1>2 DEF FlattenRecurrence, ToSet
  <1>4. ASSUME NEW k \in Nat, k \in K
        PROVE  k + 1 \in K
    <2> SUFFICES ASSUME k + 1 <= n
                 PROVE  ToSet(f[k + 1]) = UNION {ToSet(ss[i]) : i \in 1 .. k + 1}
      OBVIOUS
    <2>1. k \in 0 .. n /\ k + 1 \in 1 .. n /\ k + 1 - 1 = k
      BY <1>1
    <2>2. f[k + 1] = f[k] \o ss[k + 1]
      BY <1>2, <2>1 DEF FlattenRecurrence, n
    <2>3. f[k] \in Seq(S) /\ ss[k + 1] \in Seq(S)
      BY <1>1, <2>1
    <2>4. ToSet(f[k] \o ss[k + 1]) = ToSet(f[k]) \cup ToSet(ss[k + 1])
      BY <2>3, ToSetOfConcat
    <2>5. 1 .. k + 1 = (1 .. k) \cup {k + 1}
      OBVIOUS
    <2>6. ToSet(f[k]) = UNION {ToSet(ss[i]) : i \in 1 .. k}
      BY <1>4, <2>1
    <2> QED
      BY <2>2, <2>4, <2>5, <2>6
  <1> HIDE DEF K
  <1>5. Nat \subseteq K
    BY <1>3, <1>4, NatSetInduction
  <1>6. n \in K /\ f[n] \in Seq(S)
    BY <1>1, <1>5
  <1> QED
    BY <1>1, <1>2, <1>6 DEF K

\* Nothing is in two of the sequences, or in one of them twice.
AllOnce(ss) ==
  /\ \A i \in DOMAIN ss : IsOnce(ss[i])
  /\ \A i, j \in DOMAIN ss : i # j => ToSet(ss[i]) \cap ToSet(ss[j]) = {}

LEMMA FlattenOnce ==
  ASSUME NEW S, NEW ss \in Seq(Seq(S)), AllOnce(ss)
  PROVE  IsOnce(FlattenSeq(ss))
  <1> DEFINE n == Len(ss)
  <1>1. n \in Nat /\ DOMAIN ss = 1 .. n /\ \A k \in 1 .. n : ss[k] \in Seq(S)
    OBVIOUS
  <1>2. PICK f \in [0 .. n -> Seq(S)] : FlattenRecurrence(f, ss) /\ FlattenSeq(ss) = f[n]
    BY FlattenRecursion
  <1> HIDE DEF n
  <1> DEFINE K == {k \in Nat : k <= n =>
                     IsOnce(f[k]) /\ \A i \in k + 1 .. n : ToSet(f[k]) \cap ToSet(ss[i]) = {}}
  <1>3. 0 \in K
    BY <1>2 DEF FlattenRecurrence, ToSet, IsOnce
  <1>4. ASSUME NEW k \in Nat, k \in K
        PROVE  k + 1 \in K
    <2> SUFFICES ASSUME k + 1 <= n
                 PROVE  /\ IsOnce(f[k + 1])
                        /\ \A i \in k + 2 .. n : ToSet(f[k + 1]) \cap ToSet(ss[i]) = {}
      BY <1>1
    <2>1. k \in 0 .. n /\ k + 1 \in 1 .. n /\ k + 1 - 1 = k /\ k + 1 \in k + 1 .. n
      BY <1>1
    <2>2. f[k + 1] = f[k] \o ss[k + 1]
      BY <1>2, <2>1 DEF FlattenRecurrence, n
    <2>3. f[k] \in Seq(S) /\ ss[k + 1] \in Seq(S)
      BY <1>1, <2>1
    <2>4. ToSet(f[k] \o ss[k + 1]) = ToSet(f[k]) \cup ToSet(ss[k + 1])
      BY <2>3, ToSetOfConcat
    <2>5. IsOnce(f[k]) /\ \A i \in k + 1 .. n : ToSet(f[k]) \cap ToSet(ss[i]) = {}
      BY <1>4, <2>1
    <2>6. IsOnce(ss[k + 1]) /\ \A i \in k + 2 .. n : ToSet(ss[k + 1]) \cap ToSet(ss[i]) = {}
      <3>1. k + 1 \in DOMAIN ss /\ \A i \in k + 2 .. n : i \in DOMAIN ss /\ i # k + 1
        BY <1>1, <2>1
      <3> QED
        BY <3>1 DEF AllOnce
    <2>7. IsOnce(f[k + 1])
      BY <2>1, <2>2, <2>3, <2>5, <2>6, ConcatOnce
    <2>8. ASSUME NEW i \in k + 2 .. n
          PROVE  ToSet(f[k + 1]) \cap ToSet(ss[i]) = {}
      <3>1. i \in k + 1 .. n
        BY <1>1
      <3> QED
        BY <2>2, <2>4, <2>5, <2>6, <3>1
    <2> QED
      BY <2>7, <2>8
  <1> HIDE DEF K
  <1>5. Nat \subseteq K
    BY <1>3, <1>4, NatSetInduction
  <1>6. n \in K
    BY <1>1, <1>5
  <1> QED
    BY <1>1, <1>2, <1>6 DEF K

----------------------------------------------------------------------------
(* Selected elements *)

\* f has what is selected of the first elements of s.
SelectRecurrence(f, s, T) ==
  /\ f[0] = <<>>
  /\ \A k \in 1 .. Len(s) :
       f[k] = IF s[k] \in T THEN Append(f[k - 1], s[k]) ELSE f[k - 1]

LEMMA SelectInRecursion ==
  ASSUME NEW S, NEW s \in Seq(S), NEW T
  PROVE  \E f \in [0 .. Len(s) -> Seq(S)] :
           SelectRecurrence(f, s, T) /\ SelectIn(s, T) = f[Len(s)]
  <1> DEFINE n == Len(s)
             step == [p \in Seq(S) \X (1 .. n) |->
                        IF s[p[2]] \in T THEN Append(p[1], s[p[2]]) ELSE p[1]]
             iter[x \in SUBSET DOMAIN s] ==
               IF x = {} THEN <<>>
               ELSE IF s[Max(x)] \in T THEN Append(iter[x \ {Max(x)}], s[Max(x)])
                    ELSE iter[x \ {Max(x)}]
  <1>1. SelectIn(s, T) = iter[DOMAIN s]
    BY DEF SelectIn, FoldLeft, MapThenFoldSet
  <1>2. n \in Nat /\ DOMAIN s = 1 .. n /\ <<>> \in Seq(S)
    OBVIOUS
  <1>3. step \in [Seq(S) \X (1 .. n) -> Seq(S)]
    OBVIOUS
  <1>4. \A v \in Seq(S), k \in 1 .. n :
           step[<<v, k>>] = IF s[k] \in T THEN Append(v, s[k]) ELSE v
    OBVIOUS
  <1> HIDE DEF step
  <1>5. PICK g \in [SUBSET (1 .. n) -> Seq(S)] : LeftRecurrence(g, n, <<>>, step)
    <2> HIDE DEF n
    <2> QED
      BY <1>2, <1>3, LeftRecursion
  <1>6. ASSUME NEW x \in SUBSET (1 .. n), x # {}
        PROVE  g[x] = IF s[Max(x)] \in T THEN Append(g[x \ {Max(x)}], s[Max(x)])
                      ELSE g[x \ {Max(x)}]
    <2>1. Max(x) \in 1 .. n
      BY <1>2, <1>6, LastAndFirst
    <2>2. g[x \ {Max(x)}] \in Seq(S)
      OBVIOUS
    <2> QED
      BY <1>4, <1>5, <1>6, <2>1, <2>2 DEF LeftRecurrence
  <1>7. g = [x \in SUBSET DOMAIN s |->
               IF x = {} THEN <<>>
               ELSE IF s[Max(x)] \in T THEN Append(g[x \ {Max(x)}], s[Max(x)])
                    ELSE g[x \ {Max(x)}]]
    BY <1>2, <1>5, <1>6 DEF LeftRecurrence
  <1>8. iter = [x \in SUBSET DOMAIN s |->
               IF x = {} THEN <<>>
               ELSE IF s[Max(x)] \in T THEN Append(iter[x \ {Max(x)}], s[Max(x)])
                    ELSE iter[x \ {Max(x)}]]
    BY <1>7
  <1>9. /\ iter[{}] = <<>>
        /\ \A x \in SUBSET (1 .. n) : x # {} =>
             iter[x] = IF s[Max(x)] \in T THEN Append(iter[x \ {Max(x)}], s[Max(x)])
                       ELSE iter[x \ {Max(x)}]
    <2> HIDE DEF iter, n
    <2> QED
      BY <1>2, <1>8
  <1> DEFINE f == [k \in 0 .. n |-> iter[1 .. k]]
  <1> HIDE DEF iter
  <1>10. f[0] = <<>>
    <2>1. 0 \in 0 .. n /\ 1 .. 0 = {}
      BY <1>2
    <2> QED
      BY <1>9, <2>1
  <1>11. ASSUME NEW k \in 1 .. n
         PROVE  f[k] = IF s[k] \in T THEN Append(f[k - 1], s[k]) ELSE f[k - 1]
    <2>1. k \in Nat \ {0} /\ k - 1 \in 0 .. n /\ k \in 0 .. n /\ 1 .. k \in SUBSET (1 .. n)
      BY <1>2
    <2>2. 1 .. k # {} /\ Max(1 .. k) = k /\ (1 .. k) \ {k} = 1 .. k - 1
      BY <2>1, Prefix
    <2> QED
      BY <1>9, <2>1, <2>2
  <1>12. f[n] = iter[DOMAIN s]
    <2>1. n \in 0 .. n
      BY <1>2
    <2> QED
      BY <1>2, <2>1
  <1>13. DOMAIN f = 0 .. n
    OBVIOUS
  <1> HIDE DEF f
  <1>14. \A k \in 0 .. n : f[k] \in Seq(S)
    <2> DEFINE K == {k \in Nat : k <= n => f[k] \in Seq(S)}
    <2>1. 0 \in K
      BY <1>2, <1>10
    <2>2. ASSUME NEW k \in Nat, k \in K
          PROVE  k + 1 \in K
      <3> SUFFICES ASSUME k + 1 <= n PROVE f[k + 1] \in Seq(S)
        OBVIOUS
      <3>1. k + 1 \in 1 .. n /\ k + 1 - 1 = k /\ f[k] \in Seq(S)
        BY <1>2, <2>2
      <3>2. s[k + 1] \in S
        BY <3>1
      <3>3. f[k + 1] = IF s[k + 1] \in T THEN Append(f[k], s[k + 1]) ELSE f[k]
        BY <1>11, <3>1
      <3> QED
        BY <3>1, <3>2, <3>3
    <2> HIDE DEF K
    <2>3. Nat \subseteq K
      BY <2>1, <2>2, NatSetInduction
    <2> QED
      BY <1>2, <2>3 DEF K
  <1>15. f \in [0 .. n -> Seq(S)]
    <2>1. f = [k \in 0 .. n |-> f[k]]
      BY DEF f
    <2> QED
      BY <1>14, <2>1
  <1> QED
    BY <1>1, <1>10, <1>11, <1>12, <1>15 DEF SelectRecurrence

\* The positions of s that are selected, in their order.
Embedding(e, r, s, T, k) ==
  /\ e \in [1 .. Len(r) -> 1 .. k]
  /\ \A j \in 1 .. Len(r) : r[j] = s[e[j]] /\ s[e[j]] \in T
  /\ \A i, j \in 1 .. Len(r) : i < j => e[i] < e[j]
  /\ \A i \in 1 .. k : s[i] \in T => \E j \in 1 .. Len(r) : e[j] = i

LEMMA SelectInIsEmbedded ==
  ASSUME NEW S, NEW s \in Seq(S), NEW T
  PROVE  /\ SelectIn(s, T) \in Seq(S)
         /\ \E e : Embedding(e, SelectIn(s, T), s, T, Len(s))
  <1> DEFINE n == Len(s)
  <1>1. n \in Nat
    OBVIOUS
  <1>0. PICK f \in [0 .. n -> Seq(S)] : SelectRecurrence(f, s, T) /\ SelectIn(s, T) = f[n]
    BY SelectInRecursion
  <1>2. /\ f[0] = <<>>
        /\ \A k \in 1 .. n :
             f[k] = IF s[k] \in T THEN Append(f[k - 1], s[k]) ELSE f[k - 1]
        /\ SelectIn(s, T) = f[n]
    BY <1>0 DEF SelectRecurrence
  <1> DEFINE K == {k \in Nat : k <= n => \E e : Embedding(e, f[k], s, T, k)}
  <1>3. 0 \in K
    <2>1. Embedding(<<>>, <<>>, s, T, 0)
      BY DEF Embedding
    <2> QED
      BY <1>2, <2>1
  <1>4. ASSUME NEW k \in Nat, k \in K
        PROVE  k + 1 \in K
    <2> SUFFICES ASSUME k + 1 <= n
                 PROVE  \E e : Embedding(e, f[k + 1], s, T, k + 1)
      OBVIOUS
    <2>1. k + 1 \in 1 .. n /\ k + 1 - 1 = k /\ k \in 0 .. n
      BY <1>1
    <2>2. PICK e : Embedding(e, f[k], s, T, k)
      BY <1>1, <1>4
    <2> DEFINE r == f[k]
               m == Len(r)
               q == f[k + 1]
               d == [j \in 1 .. m + 1 |-> IF j = m + 1 THEN k + 1 ELSE e[j]]
    <2>3. r \in Seq(S) /\ m \in Nat
      BY <2>1
    <2>4. q = IF s[k + 1] \in T THEN Append(r, s[k + 1]) ELSE r
      BY <1>2, <2>1
    <2> HIDE DEF r, n
    <2>5. CASE s[k + 1] \notin T
      <3>1. Embedding(e, r, s, T, k + 1)
        BY <2>2, <2>5 DEF Embedding, r
      <3> QED
        BY <2>4, <2>5, <3>1
    <2>6. CASE s[k + 1] \in T
      <3>1. /\ Len(q) = m + 1 /\ q[m + 1] = s[k + 1]
            /\ \A j \in 1 .. m : q[j] = r[j]
        BY <2>3, <2>4, <2>6
      <3>2. /\ e \in [1 .. m -> 1 .. k]
            /\ \A j \in 1 .. m : r[j] = s[e[j]] /\ s[e[j]] \in T
            /\ \A i, j \in 1 .. m : i < j => e[i] < e[j]
            /\ \A i \in 1 .. k : s[i] \in T => \E j \in 1 .. m : e[j] = i
        BY <2>2 DEF Embedding, r
      <3> HIDE DEF m, q
      <3>3. d \in [1 .. m + 1 -> 1 .. k + 1]
        BY <2>3, <3>2
      <3>4. d[m + 1] = k + 1 /\ \A j \in 1 .. m : d[j] = e[j] /\ j \in 1 .. m + 1
        BY <2>3
      <3>5. \A j \in 1 .. m + 1 : j = m + 1 \/ j \in 1 .. m
        BY <2>3
      <3> HIDE DEF d
      <3>6. ASSUME NEW j \in 1 .. m + 1
            PROVE  q[j] = s[d[j]] /\ s[d[j]] \in T
        BY <2>6, <3>1, <3>2, <3>4, <3>5
      <3>7. ASSUME NEW i \in 1 .. m + 1, NEW j \in 1 .. m + 1, i < j
            PROVE  d[i] < d[j]
        <4>1. i \in 1 .. m
          BY <2>3, <3>7
        <4>2. d[i] = e[i] /\ e[i] \in 1 .. k
          BY <3>2, <3>4, <4>1
        <4>3. CASE j \in 1 .. m
          BY <3>2, <3>4, <3>7, <4>1, <4>2, <4>3
        <4>4. CASE j = m + 1
          BY <3>4, <4>2, <4>4
        <4> QED
          BY <3>5, <4>3, <4>4
      <3>8. ASSUME NEW i \in 1 .. k + 1, s[i] \in T
            PROVE  \E j \in 1 .. m + 1 : d[j] = i
        <4>1. CASE i = k + 1
          BY <2>3, <3>4, <4>1
        <4>2. CASE i \in 1 .. k
          BY <3>2, <3>4, <3>8, <4>2
        <4> QED
          BY <4>1, <4>2
      <3>9. Embedding(d, q, s, T, k + 1)
        BY <3>1, <3>3, <3>6, <3>7, <3>8 DEF Embedding
      <3> QED
        BY <3>9 DEF q
    <2> QED
      BY <2>5, <2>6
  <1> HIDE DEF K
  <1>5. Nat \subseteq K
    BY <1>3, <1>4, NatSetInduction
  <1>6. n <= n /\ n \in 0 .. n
    BY <1>1
  <1>7. \E e : Embedding(e, f[n], s, T, n)
    BY <1>1, <1>5, <1>6 DEF K
  <1>8. f[n] \in Seq(S)
    BY <1>6
  <1> QED
    BY <1>2, <1>7, <1>8

----------------------------------------------------------------------------
(* Logs *)

\* The longest suffix of s that fits is a suffix of s.
LEMMA NewestIsSuffix ==
  ASSUME NEW S, NEW s \in Seq(S), NEW room \in Nat,
         \A i \in 1 .. Len(s) : s[i].blocks \in Nat
  PROVE  \E m \in 1 .. Len(s) + 1 : Newest(s, room) = SubSeq(s, m, Len(s))
  <1> DEFINE n == Len(s)
             total[k \in 0 .. n] == IF k = 0 THEN 0 ELSE total[k - 1] + s[n - k + 1].blocks
             K == {k \in 0 .. n : total[k] <= room}
             kept == Max(K)
  <1>1. Newest(s, room) = SubSeq(s, n - kept + 1, n)
    BY DEF Newest
  <1>2. n \in Nat
    OBVIOUS
  <1>3. total[0] = 0
    <2> DEFINE step == [p \in Nat \X (1 .. n) |-> p[1] + s[n - p[2] + 1].blocks]
    <2>1. \A k \in 1 .. n : s[n - k + 1].blocks \in Nat
      BY <1>2
    <2>2. step \in [Nat \X (1 .. n) -> Nat]
      BY <2>1
    <2>3. \A v \in Nat, k \in 1 .. n : step[<<v, k>>] = v + s[n - k + 1].blocks
      OBVIOUS
    <2> HIDE DEF step, n
    <2>4. 0 \in Nat
      OBVIOUS
    <2>5. PICK f \in [0 .. n -> Nat] : Recurrence(f, n, 0, step)
      BY <1>2, <2>2, <2>4, PrimitiveRecursion
    <2>6. ASSUME NEW k \in 1 .. n
          PROVE  f[k] = f[k - 1] + s[n - k + 1].blocks
      <3>1. f[k] = step[<<f[k - 1], k>>]
        BY <2>5 DEF Recurrence
      <3>2. k - 1 \in 0 .. n
        BY <1>2
      <3>3. f[k - 1] \in Nat
        BY <3>2
      <3> QED
        BY <2>3, <3>1, <3>3
    <2>7. f = [k \in 0 .. n |-> IF k = 0 THEN 0 ELSE f[k - 1] + s[n - k + 1].blocks]
      BY <2>5, <2>6 DEF Recurrence
    <2>8. total = [k \in 0 .. n |-> IF k = 0 THEN 0 ELSE total[k - 1] + s[n - k + 1].blocks]
      BY <2>7
    <2> HIDE DEF total
    <2> QED
      BY <1>2, <2>8
  <1> HIDE DEF total, n
  <1>4. 0 \in K
    BY <1>2, <1>3
  <1>5. \E x \in K : \A y \in K : x >= y
    <2>1. K \in SUBSET (0 .. n)
      OBVIOUS
    <2> QED
      BY <1>2, <1>4, <2>1, GreatestNumber
  <1>6. kept \in K
    <2> HIDE DEF K
    <2> QED
      BY <1>5 DEF Max
  <1>7. kept \in 0 .. n
    BY <1>6
  <1> HIDE DEF kept
  <1>8. n - kept + 1 \in 1 .. n + 1
    BY <1>2, <1>7
  <1> QED
    BY <1>1, <1>8 DEF n

\* Elements of a sequence.
LEMMA ElementType ==
  ASSUME NEW S, NEW s \in Seq(S), NEW i \in 1 .. Len(s)
  PROVE  s[i] \in S
  OBVIOUS

\* A function on the first positions.
LEMMA FunctionIsSequence ==
  ASSUME NEW S, NEW n \in Nat, NEW f, f = [i \in 1 .. n |-> f[i]],
         \A i \in 1 .. n : f[i] \in S
  PROVE  f \in Seq(S) /\ Len(f) = n /\ DOMAIN f = 1 .. n
  <1>1. f \in [1 .. n -> S]
    OBVIOUS
  <1> QED
    BY <1>1

\* The positions of a rotation, as the walk round the log comes to them.
LEMMA RoundPosition ==
  ASSUME NEW n \in Nat, NEW k \in 1 .. n, NEW i \in 1 .. n
  PROVE  ((k + i - 2) % n) + 1 = IF k + i - 1 <= n THEN k + i - 1 ELSE k + i - 1 - n
  <1> DEFINE x == k + i - 2
  <1>1. n \in Nat \ {0} /\ x \in Nat /\ x < n + n
    OBVIOUS
  <1>2. CASE x < n
    <2>1. x % n = x
      BY <1>1, <1>2, ModSmall
    <2> QED
      BY <1>2, <2>1
  <1>3. CASE x >= n
    <2> DEFINE y == x - n
    <2>1. y \in Nat /\ y < n /\ x = y + n
      BY <1>1, <1>3
    <2> HIDE DEF y
    <2>2. (y + n) % n = y % n
      BY <1>1, <2>1, ModStep
    <2>3. y % n = y
      BY <1>1, <2>1, ModSmall
    <2> QED
      BY <1>3, <2>1, <2>2, <2>3
  <1> QED
    BY <1>1, <1>2, <1>3

\* The messages whose texts these are, each by its first chunk.
MessagesOf(texts) == [i \in DOMAIN texts |-> texts[i][1][1]]

\* No two are the same.
AllDiffer(s) == \A i, j \in 1 .. Len(s) : i < j => s[i] # s[j]

\* The position in the log of the i-th entry of the walk that begins with the k-th.
PlaceRound(n, k, i) == IF k + i - 1 <= n THEN k + i - 1 ELSE k + i - 1 - n

\* The messages of a rotation are those of the log, from the k-th round.
LEMMA RotationElements ==
  ASSUME NEW M, NEW Z, Z \subseteq Nat \ {0}, NEW s \in Seq([msg : M, blocks : Z]),
         NEW k \in 1 .. Len(s) \cup {1}
  PROVE  LET messages == MessagesOf(Rotation(s, k)) IN
         /\ DOMAIN messages = 1 .. Len(s)
         /\ \A i \in 1 .. Len(s) : /\ PlaceRound(Len(s), k, i) \in 1 .. Len(s)
                                  /\ messages[i] = s[PlaceRound(Len(s), k, i)].msg
  <1> DEFINE messages == MessagesOf(Rotation(s, k))
             n == Len(s)
             pos(i) == PlaceRound(n, k, i)
  <1>1. n \in Nat
    OBVIOUS
  <1>3. DOMAIN Rotation(s, k) = 1 .. n
    BY DEF Rotation
  <1>4. ASSUME NEW i \in 1 .. n
        PROVE  messages[i] = s[pos(i)].msg /\ pos(i) \in 1 .. n
    <2>0. k \in 1 .. n
      BY <1>1
    <2>1. Rotation(s, k)[i] = Text(s[pos(i)])
      <3>1. ((k + i - 2) % n) + 1 = pos(i)
        <4> HIDE DEF n
        <4> QED
          BY <1>1, <2>0, RoundPosition DEF PlaceRound
      <3> QED
        BY <3>1 DEF Rotation
    <2>2. pos(i) \in 1 .. n
      BY <1>1, <2>0 DEF PlaceRound
    <2> DEFINE e == s[pos(i)]
    <2>3. e \in [msg : M, blocks : Z]
      <3> HIDE DEF pos
      <3> QED
        BY <2>2, ElementType
    <2> HIDE DEF e
    <2>4. e.blocks \in Nat \ {0}
      BY <2>3
    <2>5. Text(e)[1] = <<e.msg, 0>>
      BY <2>4 DEF Text
    <2>6. messages[i] = Text(e)[1][1]
      BY <1>3, <2>1 DEF e, MessagesOf
    <2> QED
      BY <2>2, <2>5, <2>6 DEF e
  <1>5. DOMAIN messages = 1 .. n
    BY <1>3 DEF MessagesOf
  <1> HIDE DEF messages
  <1> QED
    BY <1>4, <1>5 DEF messages, n, pos

\* A rotation shows each message of the log once.
LEMMA RotationIsOnce ==
  ASSUME NEW M, NEW Z, Z \subseteq Nat \ {0}, NEW s \in Seq([msg : M, blocks : Z]),
         NEW k \in 1 .. Len(s) \cup {1}
  PROVE  LET messages == MessagesOf(Rotation(s, k)) IN
         /\ messages \in Seq(M) /\ Len(messages) = Len(s)
         /\ ToSet(messages) = {e.msg : e \in ToSet(s)}
         /\ (\A i, j \in 1 .. Len(s) : i < j => s[i].msg # s[j].msg) => AllDiffer(messages)
  <1> DEFINE messages == MessagesOf(Rotation(s, k))
             n == Len(s)
             pos(i) == PlaceRound(n, k, i)
  <1>1. n \in Nat /\ DOMAIN s = 1 .. n
    OBVIOUS
  <1>2. ASSUME NEW i \in 1 .. n
        PROVE  s[i].msg \in M
    <2>1. s[i] \in [msg : M, blocks : Z]
      <3> HIDE DEF pos
      <3> QED
        BY <1>1, ElementType
    <2> QED
      BY <2>1
  <1>4. /\ DOMAIN messages = 1 .. n
        /\ \A i \in 1 .. n : messages[i] = s[pos(i)].msg /\ pos(i) \in 1 .. n
    BY RotationElements
  <1>5. messages \in Seq(M) /\ Len(messages) = n /\ DOMAIN messages = 1 .. n
    <2>1. messages = [i \in 1 .. n |-> messages[i]]
      BY <1>4 DEF MessagesOf
    <2>2. \A i \in 1 .. n : messages[i] \in M
      BY <1>2, <1>4
    <2> HIDE DEF n, messages, pos
    <2> QED
      BY <1>1, <2>1, <2>2, FunctionIsSequence
  <1>6. ASSUME NEW j \in 1 .. n
        PROVE  \E i \in 1 .. n : pos(i) = j
    <2>1. k \in 1 .. n
      BY <1>1
    <2> DEFINE i == IF j >= k THEN j - k + 1 ELSE j - k + 1 + n
    <2>2. i \in 1 .. n /\ pos(i) = j
      BY <1>1, <2>1 DEF PlaceRound
    <2> QED
      BY <2>2
  <1>7. ASSUME NEW i \in 1 .. n, NEW j \in 1 .. n, i < j
        PROVE  pos(i) # pos(j)
    BY <1>1, <1>7 DEF PlaceRound
  <1> HIDE DEF n, pos, messages
  <1>8. ToSet(messages) = {e.msg : e \in ToSet(s)}
    <2>1. ToSet(messages) = {messages[i] : i \in 1 .. n}
      BY <1>5 DEF ToSet
    <2>2. {e.msg : e \in ToSet(s)} = {s[j].msg : j \in 1 .. n}
      BY <1>1 DEF ToSet
    <2>3. \A i \in 1 .. n : messages[i] \in {s[j].msg : j \in 1 .. n}
      BY <1>4
    <2>4. ASSUME NEW j \in 1 .. n
          PROVE  s[j].msg \in {messages[i] : i \in 1 .. n}
      <3>1. PICK i \in 1 .. n : pos(i) = j
        BY <1>6
      <3>2. messages[i] = s[j].msg
        BY <1>4, <3>1
      <3> QED
        BY <3>2
    <2> QED
      BY <2>1, <2>2, <2>3, <2>4
  <1>9. ASSUME \A i, j \in 1 .. n : i < j => s[i].msg # s[j].msg,
               NEW i \in 1 .. n, NEW j \in 1 .. n, i < j
        PROVE  messages[i] # messages[j]
    <2>1. /\ pos(i) \in 1 .. n /\ pos(j) \in 1 .. n /\ pos(i) # pos(j)
          /\ messages[i] = s[pos(i)].msg /\ messages[j] = s[pos(j)].msg
      BY <1>4, <1>7, <1>9
    <2>2. pos(i) < pos(j) \/ pos(j) < pos(i)
      BY <1>1, <2>1
    <2> QED
      BY <1>9, <2>1, <2>2
  <1> QED
    BY <1>5, <1>8, <1>9 DEF n, AllDiffer, messages
=============================================================================
