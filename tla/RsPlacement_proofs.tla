-------------------------- MODULE RsPlacement_proofs -------------------------
(***************************************************************************)
(* Proofs about initialize_equiox_stripe_placement: where the blocks of an *)
(* RS stripe are, for every configuration.                                 *)
(*                                                                         *)
(* The data of a stripe is cut into groups of r or r-1 blocks, one group   *)
(* a column of its row of OA_1, in columns that follow one another.  Two   *)
(* facts carry the rest: no two blocks of a stripe have one slot, and the  *)
(* columns of an aligned run of stripes, the overlaps deducted, are no     *)
(* more than the racks its data would take together.                       *)
(***************************************************************************)
EXTENDS RsStripes, PlacementLemmas

-----------------------------------------------------------------------------
(***************************************************************************)
(* How many racks the data of 2^l stripes takes, and how many rounds there *)
(* are.                                                                    *)
(***************************************************************************)

IsRs(c) == c \in Configs /\ c.code = "RS"

(* The racks of 2^l stripes' data: the least number whose r-fold holds it. *)
Width(c, l) == RsRacks(c, l) - 1

(* The sizes of an RS configuration. *)
LEMMA RsSizes ==
    ASSUME NEW c, IsRs(c)
    PROVE  /\ c.k \in Nat \ {0} /\ c.r \in Nat \ {0} /\ c.k >= c.r
           /\ LevelBound \in Nat
BY CodeAssumption DEF IsRs

(* That number, from above and from below. *)
LEMMA Widths ==
    ASSUME NEW c, IsRs(c), NEW l \in 0..LevelBound
    PROVE  /\ Width(c, l) \in Nat \ {0} /\ RsRacks(c, l) = Width(c, l) + 1
           /\ 2^l * c.k <= c.r * Width(c, l)
           /\ c.r * (Width(c, l) - 1) < 2^l * c.k
<1> DEFINE n == 2^l * c.k
           q == RsRacks(c, l)
           u == (n + c.r + c.r - 1) % c.r
           r == c.r
<1>1. c.k \in Nat \ {0} /\ r \in Nat \ {0} /\ 2^l \in Nat \ {0}
  BY RsSizes, PowersAssumption
<1>2. n \in Nat \ {0}
  <2> DEFINE p == 2^l
             k == c.k
  <2>1. p \in Nat \ {0} /\ k \in Nat \ {0}
    BY <1>1
  <2> HIDE DEF p, k
  <2>2. p * k \in Nat \ {0}
    BY <2>1, SMT
  <2> QED BY <2>2 DEF p, k
<1>3. q = (n + r + r - 1) \div r
  BY DEF RsRacks, CeilDiv
<1> HIDE DEF n, r
<1>4. n + r + r - 1 \in Nat
  BY <1>1, <1>2
<1>5. q \in Nat /\ u \in 0..(r - 1) /\ n + r + r - 1 = (r * q) + u
  BY <1>1, <1>3, <1>4, DivMod, Zenon DEF r
<1> HIDE DEF q, u
<1>6. r * (q - 1) = r * q - r /\ r * (q - 1 - 1) = r * q - r - r
  BY <1>1, <1>5, SMT
<1>7. n <= r * (q - 1) /\ r * (q - 1 - 1) < n
  BY <1>1, <1>2, <1>4, <1>5, <1>6, SMT
<1>8. q - 1 > 0
  <2> SUFFICES ASSUME q - 1 <= 0 PROVE FALSE
    BY <1>5
  <2>1. r * (q - 1) <= 0
    BY <1>1, <1>5, SMT
  <2> QED BY <1>2, <1>7, <2>1, <1>5, <1>1, SMT
<1>9. Width(c, l) = q - 1
  BY DEF Width, q
<1> QED BY <1>5, <1>7, <1>8, <1>9 DEF n, r, q

(* Two neighbours of one level share no rack, or one. *)
LEMMA Arrays ==
    ASSUME NEW c, IsRs(c), NEW l \in 1..LevelBound
    PROVE  /\ NumArry(c, l) = 1 + 2 * Width(c, l - 1) - Width(c, l)
           /\ NumArry(c, l) \in {1, 2}
<1> DEFINE v == Width(c, l - 1)
           w == Width(c, l)
           r == c.r
           n == 2^(l - 1) * c.k
           m == 2^l * c.k
<1>1. l - 1 \in 0..LevelBound /\ l \in 0..LevelBound /\ (l - 1) + 1 = l
  BY RsSizes
<1>2. /\ v \in Nat \ {0} /\ RsRacks(c, l - 1) = v + 1 /\ n <= r * v /\ r * (v - 1) < n
      /\ w \in Nat \ {0} /\ RsRacks(c, l) = w + 1 /\ m <= r * w /\ r * (w - 1) < m
  BY <1>1, Widths
<1>3. m = 2 * n /\ n \in Nat /\ r \in Nat \ {0}
  <2> DEFINE p == 2^(l - 1)
             k == c.k
  <2>1. 2^l = 2 * p /\ p \in Nat /\ k \in Nat
    <3>1. 2^((l - 1) + 1) = 2 * p /\ p \in Nat
      BY <1>1, PowersAssumption
    <3> QED BY <1>1, <3>1, RsSizes
  <2>2. m = (2 * p) * k /\ n = p * k
    BY <2>1
  <2> HIDE DEF p, k, m, n
  <2> QED BY <2>1, <2>2, RsSizes, SMT DEF r
<1>4. NumArry(c, l) = 1 + 2 * v - w
  BY <1>1, <1>2 DEF NumArry
<1> HIDE DEF v, w, r, n, m
<1>5. w <= 2 * v
  <2> SUFFICES ASSUME 2 * v <= w - 1 PROVE FALSE
    BY <1>2
  <2>1. r * (2 * v) <= r * (w - 1)
    BY <1>2, <1>3, SMT
  <2>2. r * (2 * v) = 2 * (r * v)
    BY <1>2, <1>3, SMT
  <2> HIDE DEF n
  <2> QED BY <1>2, <1>3, <2>1, <2>2, SMT
<1>6. 2 * v - 1 <= w
  <2> SUFFICES ASSUME w <= 2 * v - 2 PROVE FALSE
    BY <1>2
  <2>1. r * w <= r * (2 * v - 2)
    BY <1>2, <1>3, SMT
  <2>2. r * (2 * v - 2) = 2 * (r * (v - 1))
    BY <1>2, <1>3, SMT
  <2> QED BY <1>2, <1>3, <2>1, <2>2, SMT
<1> QED BY <1>2, <1>4, <1>5, <1>6 DEF v, w

(* A power of two is a multiple of the smaller ones. *)
LEMMA PowerMultiple ==
    ASSUME NEW a \in 0..LevelBound, NEW b \in 0..LevelBound, a <= b
    PROVE  \E x \in Nat \ {0} : 2^b = x * 2^a
<1> DEFINE S == {d \in 0..(LevelBound - a) : \E x \in Nat \ {0} : 2^(a + d) = x * 2^a}
<1>0. LevelBound \in Nat
  BY CodeAssumption
<1>1. 0 \in S
  <2>1. a + 0 = a /\ 2^a = 1 * 2^a
    BY <1>0, PowersAssumption
  <2> QED BY <1>0, <2>1
<1>2. ASSUME NEW d \in 1..(LevelBound - a), d - 1 \in S PROVE d \in S
  <2>1. PICK x \in Nat \ {0} : 2^(a + (d - 1)) = x * 2^a
    BY <1>2
  <2>2. a + (d - 1) \in 0..LevelBound /\ (a + (d - 1)) + 1 = a + d
    BY <1>0
  <2>3. 2^(a + d) = 2 * 2^(a + (d - 1))
    <3>1. 2^((a + (d - 1)) + 1) = 2 * 2^(a + (d - 1))
      BY <2>2, PowersAssumption
    <3> QED BY <2>2, <3>1
  <2>4. 2^(a + d) = (2 * x) * 2^a /\ 2 * x \in Nat \ {0}
    <3> DEFINE p == 2^a
               t == 2^(a + d)
               u == 2^(a + (d - 1))
    <3>1. p \in Nat /\ t = 2 * u /\ u = x * p
      BY <2>1, <2>3, PowersAssumption
    <3> HIDE DEF p, t, u
    <3>2. t = (2 * x) * p /\ 2 * x \in Nat \ {0}
      BY <3>1, SMT
    <3> QED BY <3>2 DEF p, t
  <2>5. d \in 0..(LevelBound - a)
    BY <1>0
  <2> QED BY <2>4, <2>5
<1>3. b - a \in 0..(LevelBound - a) /\ LevelBound - a \in Nat /\ a + (b - a) = b
  BY <1>0
<1>4. b - a \in S
  <2> HIDE DEF S
  <2> QED BY <1>1, <1>2, <1>3, UpTo
<1>5. \E x \in Nat \ {0} : 2^(a + (b - a)) = x * 2^a
  BY <1>4
<1> QED BY <1>3, <1>5

(* The rounds are within the bound, and the racks of the last suffice.     *)
LEMMA Rounds ==
    ASSUME NEW c
    PROVE  /\ RsRounds(c) \in 0..LevelBound
           /\ BatchSize(c) = 2^RsRounds(c) /\ BatchSize(c) \in Nat \ {0}
           /\ RsRounds(c) > 0 => RsRacks(c, RsRounds(c)) <= ClusterNum
<1> DEFINE last == {n \in 0..LevelBound :
                      RsRacks(c, n) <= ClusterNum /\ RsRacks(c, n + 1) > ClusterNum}
<1>1. LevelBound \in Nat
  BY CodeAssumption
<1>2. RsRounds(c) = IF last = {} THEN 0 ELSE Min(last)
  BY DEF RsRounds
<1>3. last # {} => Min(last) \in last
  <2> SUFFICES ASSUME last # {} PROVE Min(last) \in last
    OBVIOUS
  <2>1. last \in SUBSET Nat
    BY <1>1
  <2> HIDE DEF last
  <2>2. \E x \in last : \A y \in last : x <= y
    BY <2>1, Least
  <2> QED BY <2>2 DEF Min
<1>4. RsRounds(c) \in 0..LevelBound
      /\ (RsRounds(c) > 0 => RsRacks(c, RsRounds(c)) <= ClusterNum)
  BY <1>1, <1>2, <1>3
<1> QED BY <1>4, PowersAssumption DEF BatchSize

-----------------------------------------------------------------------------
(***************************************************************************)
(* Columns.  Overlaps deducts, position by position, what the stripes of   *)
(* the runs before take one by one and not together.                       *)
(***************************************************************************)

(* Twos: the greatest power of two that divides. *)
LEMMA TwosGreatest ==
    ASSUME NEW m \in Nat
    PROVE  /\ Twos(m) \in 0..LevelBound /\ m % 2^Twos(m) = 0
           /\ \A e \in 0..LevelBound : m % 2^e = 0 => e <= Twos(m)
<1> DEFINE T == {e \in 0..LevelBound : m % 2^e = 0}
<1>1. LevelBound \in Nat
  BY CodeAssumption
<1>2. 0 \in T
  <2>1. m % 1 = 0
    OBVIOUS
  <2>2. m % 2^0 = 0
    BY <2>1, PowersAssumption
  <2> QED BY <1>1, <2>2
<1>3. T \in SUBSET (0..LevelBound)
  OBVIOUS
<1>4. Twos(m) = Max(T)
  BY DEF Twos
<1>5. Max(T) \in T /\ \A y \in T : y <= Max(T)
  <2> HIDE DEF T
  <2>1. \E x \in T : \A y \in T : x >= y
    BY <1>1, <1>2, <1>3, Greatest
  <2>2. Max(T) \in T /\ \A y \in T : Max(T) >= y
    BY <2>1 DEF Max
  <2> QED BY <1>1, <1>3, <2>2
<1> QED BY <1>4, <1>5

(* In a batch it is a round. *)
LEMMA TwosInBatch ==
    ASSUME NEW c, IsRs(c), NEW m \in 1..(BatchSize(c) - 1)
    PROVE  Twos(m) + 1 \in 1..RsRounds(c)
<1> DEFINE e == Twos(m)
           N == RsRounds(c)
           B == 2^N
           p == 2^e
<1>1. N \in 0..LevelBound /\ B \in Nat \ {0} /\ m \in 1..(B - 1) /\ m \in Nat
      /\ LevelBound \in Nat
  BY Rounds, RsSizes
<1>2. e \in 0..LevelBound /\ m % p = 0 /\ p \in Nat \ {0}
  BY <1>1, TwosGreatest, PowersAssumption
<1> SUFFICES ASSUME e >= N PROVE FALSE
  BY <1>1, <1>2
<1>3. PICK x \in Nat \ {0} : p = x * B
  BY <1>1, <1>2, PowerMultiple
<1> HIDE DEF e, N, B, p
<1>4. p >= B
  BY <1>1, <1>3, SMT
<1>5. m = p * (m \div p) /\ m \div p \in Nat
  <2>1. m = (p * (m \div p)) + (m % p) /\ m \div p \in Nat
    BY <1>1, <1>2, DivMod
  <2> QED BY <1>2, <2>1
<1> DEFINE q == m \div p
<1> HIDE DEF q
<1>6. m = p * q /\ q \in Nat
  BY <1>5 DEF q
<1>7. q # 0
  BY <1>1, <1>2, <1>6, SMT
<1>8. p * q >= p
  BY <1>2, <1>6, <1>7, SMT
<1> QED BY <1>1, <1>2, <1>4, <1>6, <1>8

(* A multiple of 2^(l+1) and 2^l more has l twos. *)
LEMMA TwosOfHalf ==
    ASSUME NEW l \in Nat, l + 1 \in 0..LevelBound, NEW f \in Nat, f % 2^(l + 1) = 0
    PROVE  Twos(f + 2^l) = l
<1> DEFINE p == 2^l
           m == f + p
           y == f \div (2 * p)
<1>1. p \in Nat \ {0} /\ 2^(l + 1) = 2 * p /\ LevelBound \in Nat /\ l \in 0..LevelBound
  BY CodeAssumption, PowersAssumption
<1>2. f = (2 * p) * y /\ y \in Nat
  <2> DEFINE d == 2 * p
  <2>1. d \in Nat \ {0} /\ f % d = 0
    BY <1>1
  <2> HIDE DEF d
  <2>2. f = (d * (f \div d)) + (f % d) /\ f \div d \in Nat
    BY <2>1, DivMod
  <2>3. f = d * (f \div d)
    BY <2>1, <2>2
  <2> QED BY <2>2, <2>3 DEF d
<1> HIDE DEF p, y
<1>3. m = p * (2 * y + 1) /\ m \in Nat
  BY <1>1, <1>2, SMT
<1>4. m % p = 0
  <2>1. m = p * (2 * y + 1) + 0 /\ 2 * y + 1 \in Nat /\ 0 \in 0..(p - 1)
    BY <1>1, <1>2, <1>3, SMT
  <2> HIDE DEF m
  <2> QED BY <1>1, <1>3, <2>1, DivUnique
<1>5. \A e \in 0..LevelBound : m % 2^e = 0 => e <= l
  <2> SUFFICES ASSUME NEW e \in 0..LevelBound, m % 2^e = 0, e >= l + 1 PROVE FALSE
    BY <1>1
  <2> DEFINE g == 2^e
             z == m \div g
  <2>1. PICK x \in Nat \ {0} : 2^e = x * 2^(l + 1)
    BY PowerMultiple
  <2>2. g = x * (2 * p) /\ g \in Nat \ {0} /\ m % g = 0
    BY <1>1, <2>1, PowersAssumption
  <2> HIDE DEF g
  <2>3. m = g * z /\ z \in Nat
    <3> HIDE DEF m
    <3>1. m = (g * (m \div g)) + (m % g) /\ m \div g \in Nat
      BY <1>3, <2>2, DivMod
    <3> QED BY <2>2, <3>1
  <2> HIDE DEF z, m
  <2>4. m = p * (2 * (x * z)) /\ x * z \in Nat
    BY <1>1, <2>2, <2>3, SMT
  <2> DEFINE w == x * z
  <2> HIDE DEF w
  <2>5. m = p * (2 * w) /\ w \in Nat
    BY <2>4 DEF w
  <2>6. 2 * w # 2 * y + 1 /\ 2 * w \in Int /\ 2 * y + 1 \in Int
    BY <1>2, <2>5
  <2>7. ~(2 * w < 2 * y + 1)
    <3> SUFFICES ASSUME 2 * w < 2 * y + 1 PROVE FALSE
      OBVIOUS
    <3>1. p * (2 * w) + p <= p * (2 * y + 1)
      BY <1>1, <2>6, LessMul
    <3> QED BY <1>1, <1>3, <2>5, <3>1
  <2>8. ~(2 * y + 1 < 2 * w)
    <3> SUFFICES ASSUME 2 * y + 1 < 2 * w PROVE FALSE
      OBVIOUS
    <3>1. p * (2 * y + 1) + p <= p * (2 * w)
      BY <1>1, <2>6, LessMul
    <3> QED BY <1>1, <1>3, <2>5, <3>1
  <2> QED BY <2>6, <2>7, <2>8
<1>6. m % 2^l = 0
  BY <1>4 DEF p
<1> HIDE DEF m
<1>7. Twos(m) \in 0..LevelBound /\ m % 2^Twos(m) = 0 /\ l <= Twos(m)
  BY <1>1, <1>3, <1>6, TwosGreatest
<1>8. Twos(m) <= l
  BY <1>5, <1>7
<1>9. Twos(m) = l
  BY <1>1, <1>7, <1>8
<1> QED BY <1>9 DEF m, p

(* The columns lost to overlaps, position by position. *)
LEMMA OverlapsByPosition ==
    ASSUME NEW c, IsRs(c)
    PROVE  /\ Overlaps(c)[0] = 0
           /\ \A m \in 1..(BatchSize(c) - 1) :
                 Overlaps(c)[m] = Overlaps(c)[m - 1] + NumArry(c, Twos(m) + 1)
           /\ \A m \in 0..(BatchSize(c) - 1) : Overlaps(c)[m] \in Nat
<1> DEFINE M == BatchSize(c) - 1
           Term(m) == NumArry(c, Twos(m) + 1)
           SumStep(f, m) == IF m = 0 THEN 0 ELSE f[m - 1] + Term(m)
           sum[m \in 0..M] == IF m = 0 THEN 0 ELSE sum[m - 1] + Term(m)
           Good(n) == {f \in [0..n -> Nat] : \A m \in 0..n : f[m] = SumStep(f, m)}
           S == {n \in 0..M : Good(n) # {}}
<1>1. M \in Nat
  BY Rounds
<1>2. \A m \in 1..M : Term(m) \in Nat
  <2> TAKE m \in 1..M
  <2>1. Twos(m) + 1 \in 1..LevelBound
    BY TwosInBatch, Rounds, RsSizes
  <2> QED BY <2>1, Arrays
<1> HIDE DEF M, Term
<1>3. 0 \in S
  <2>1. [m \in 0..0 |-> 0] \in Good(0)
    OBVIOUS
  <2> HIDE DEF Good
  <2> QED BY <1>1, <2>1
<1>4. ASSUME NEW n \in 1..M, n - 1 \in S PROVE n \in S
  <2>1. PICK f \in [0..(n - 1) -> Nat] : \A m \in 0..(n - 1) : f[m] = SumStep(f, m)
    BY <1>4
  <2> DEFINE g == [m \in 0..n |-> IF m = n THEN f[n - 1] + Term(n) ELSE f[m]]
  <2>2. n - 1 \in 0..(n - 1) /\ f[n - 1] \in Nat
    BY <1>1
  <2>3. g \in [0..n -> Nat]
    BY <1>1, <1>2, <2>2
  <2>4. \A m \in 0..n : g[m] = SumStep(g, m)
    <3> TAKE m \in 0..n
    <3>1. CASE m = n
      <4>1. g[n] = f[n - 1] + Term(n) /\ g[n - 1] = f[n - 1] /\ n # 0
        BY <1>1
      <4> QED BY <3>1, <4>1
    <3>2. CASE m \in 1..(n - 1)
      <4>1. g[m] = f[m] /\ g[m - 1] = f[m - 1] /\ m # 0 /\ m \in 0..(n - 1)
        BY <1>1, <3>2
      <4>2. f[m] = f[m - 1] + Term(m)
        BY <2>1, <4>1
      <4> QED BY <4>1, <4>2
    <3>3. CASE m = 0
      <4>1. g[m] = f[m] /\ m \in 0..(n - 1)
        BY <1>1, <3>3
      <4> QED BY <2>1, <3>3, <4>1
    <3> QED BY <1>1, <3>1, <3>2, <3>3
  <2>5. g \in Good(n)
    BY <2>3, <2>4
  <2>6. n \in 0..M
    BY <1>1
  <2> HIDE DEF Good
  <2> QED BY <2>5, <2>6
<1>5. M \in S
  <2> HIDE DEF S
  <2>1. 0..M \subseteq S
    BY <1>1, <1>3, <1>4, UpTo
  <2> QED BY <1>1, <2>1
<1>6. PICK f \in [0..M -> Nat] : \A m \in 0..M : f[m] = SumStep(f, m)
  BY <1>5
<1>7. f = [m \in 0..M |-> IF m = 0 THEN 0 ELSE f[m - 1] + Term(m)]
  BY <1>6
<1>8. sum = [m \in 0..M |-> IF m = 0 THEN 0 ELSE sum[m - 1] + Term(m)]
  BY <1>7
<1>9. Overlaps(c) = sum
  BY DEF Overlaps, sum, M, Term
<1> HIDE DEF sum
<1>10. sum[0] = 0 /\ \A m \in 1..M : sum[m] = sum[m - 1] + Term(m)
  BY <1>1, <1>8
<1>11. \A m \in 0..M : sum[m] \in Nat
  <2> DEFINE U == {m \in 0..M : sum[m] \in Nat}
  <2>1. 0 \in U
    BY <1>1, <1>10
  <2>2. ASSUME NEW m \in 1..M, m - 1 \in U PROVE m \in U
    BY <1>1, <1>2, <1>10, <2>2
  <2> HIDE DEF U
  <2>3. 0..M \subseteq U
    BY <1>1, <2>1, <2>2, UpTo
  <2> QED BY <2>3 DEF U
<1> QED BY <1>9, <1>10, <1>11 DEF M, Term

(* Over an aligned run of positions the overlaps are what the run's stripes *)
(* take one by one less what they take together.                           *)
LEMMA OverlapsOfRun ==
    ASSUME NEW c, IsRs(c), NEW l \in 0..RsRounds(c), NEW f \in Nat, f % 2^l = 0,
           f + 2^l <= BatchSize(c)
    PROVE  Overlaps(c)[f + 2^l - 1] - Overlaps(c)[f]
             = 2^l * RsRacks(c, 0) - RsRacks(c, l)
<1> DEFINE N == RsRounds(c)
           B == BatchSize(c)
           O == Overlaps(c)
           R(n) == RsRacks(c, n)
           Run(n) == \A g \in Nat : g % 2^n = 0 /\ g + 2^n <= B =>
                        O[g + 2^n - 1] - O[g] = 2^n * R(0) - R(n)
           S == {n \in 0..N : Run(n)}
<1>1. N \in 0..LevelBound /\ B \in Nat \ {0} /\ LevelBound \in Nat
  BY Rounds, RsSizes
<1>2. \A n \in 0..N : R(n) \in Nat /\ 2^n \in Nat \ {0}
  <2> TAKE n \in 0..N
  <2>1. n \in 0..LevelBound
    BY <1>1
  <2> QED BY <2>1, Widths, PowersAssumption
<1>3. /\ \A m \in 1..(B - 1) : O[m] = O[m - 1] + NumArry(c, Twos(m) + 1)
      /\ \A m \in 0..(B - 1) : O[m] \in Nat
  BY OverlapsByPosition
<1> HIDE DEF B, O, R
<1>4. 0 \in S
  <2> SUFFICES ASSUME NEW g \in Nat, g + 2^0 <= B
               PROVE  O[g + 2^0 - 1] - O[g] = 2^0 * R(0) - R(0)
    BY <1>1
  <2>1. 2^0 = 1
    BY PowersAssumption
  <2>2. g + 1 - 1 = g /\ g \in 0..(B - 1)
    BY <1>1, <2>1
  <2>3. R(0) \in Nat /\ O[g] \in Nat
    BY <1>1, <1>2, <1>3, <2>2
  <2>4. O[g + 2^0 - 1] = O[g]
    BY <2>1, <2>2
  <2> QED BY <2>1, <2>3, <2>4
<1>5. ASSUME NEW n \in 1..N, n - 1 \in S PROVE n \in S
  <2> DEFINE p == 2^(n - 1)
  <2>1. /\ n - 1 \in 0..N /\ n - 1 \in 0..LevelBound /\ (n - 1) + 1 = n
        /\ n \in 0..LevelBound /\ n \in 1..LevelBound /\ n \in 0..N
    BY <1>1
  <2>2. 2^n = 2 * p /\ p \in Nat \ {0}
    <3>1. 2^((n - 1) + 1) = 2 * p /\ p \in Nat \ {0}
      BY <2>1, PowersAssumption
    <3> QED BY <2>1, <3>1
  <2>3. Run(n - 1)
    BY <1>5
  <2> SUFFICES ASSUME NEW g \in Nat, g % 2^n = 0, g + 2^n <= B
               PROVE  O[g + 2^n - 1] - O[g] = 2^n * R(0) - R(n)
    BY <2>1
  <2>4. g % p = 0 /\ (g + p) % p = 0
    <3> DEFINE d == 2^n
               y == g \div d
    <3>1. d \in Nat \ {0} /\ d = 2 * p /\ g % d = 0
      BY <2>2
    <3> HIDE DEF d
    <3>2. g = (d * (g \div d)) + (g % d) /\ g \div d \in Nat
      BY <3>1, DivMod
    <3>3. g = d * y /\ y \in Nat
      BY <3>1, <3>2
    <3> HIDE DEF y, p
    <3>4. g = p * (2 * y) + 0 /\ g + p = p * (2 * y + 1) + 0 /\ 0 \in 0..(p - 1)
          /\ 2 * y \in Nat /\ 2 * y + 1 \in Nat /\ g + p \in Nat
      BY <2>2, <3>1, <3>3, SMT
    <3>5. p \in Nat \ {0}
      BY <2>2
    <3>6. g % p = 0
      BY <3>4, <3>5, DivUnique, Zenon
    <3>7. (g + p) % p = 0
      <4> DEFINE x == g + p
                 v == 2 * y + 1
      <4>1. x \in Nat /\ v \in Nat /\ x = p * v + 0 /\ 0 \in 0..(p - 1)
        BY <3>4
      <4> HIDE DEF x, v
      <4>2. x % p = 0
        BY <3>5, <4>1, DivUnique, Zenon
      <4> QED BY <4>2 DEF x
    <3> QED BY <3>6, <3>7
  <2>5. g + p <= B /\ (g + p) + p <= B /\ g + p \in Nat
    BY <1>1, <2>2
  <2>6. /\ O[g + p - 1] - O[g] = p * R(0) - R(n - 1)
        /\ O[(g + p) + p - 1] - O[g + p] = p * R(0) - R(n - 1)
    <3> HIDE DEF R
    <3> QED BY <2>3, <2>4, <2>5
  <2>7. O[g + p] = O[g + p - 1] + NumArry(c, n)
    <3>1. Twos(g + p) = n - 1
      BY <2>1, TwosOfHalf
    <3>2. g + p \in 1..(B - 1)
      BY <1>1, <2>2, <2>5
    <3> QED BY <1>3, <2>1, <3>1, <3>2
  <2>8. NumArry(c, n) = 2 * R(n - 1) - R(n)
    BY DEF NumArry, R
  <2>9. (g + p) + p - 1 = g + 2^n - 1
    BY <2>2
  <2>10. /\ O[g] \in Nat /\ O[g + p - 1] \in Nat /\ O[g + p] \in Nat
         /\ O[(g + p) + p - 1] \in Nat
    <3>1. /\ g \in 0..(B - 1) /\ g + p - 1 \in 0..(B - 1) /\ g + p \in 0..(B - 1)
          /\ (g + p) + p - 1 \in 0..(B - 1)
      BY <1>1, <2>2, <2>5
    <3> QED BY <1>3, <3>1
  <2>11. R(n) \in Nat /\ R(n - 1) \in Nat /\ R(0) \in Nat
    BY <1>1, <1>2, <2>1
  <2>12. 2^n * R(0) = 2 * (p * R(0)) /\ p * R(0) \in Int
    <3> HIDE DEF p
    <3> QED BY <2>2, <2>11, SMT
  <2> DEFINE t == p * R(0)
             u == 2^n * R(0)
  <2> HIDE DEF t, u
  <2>13. u = 2 * t /\ t \in Int
    BY <2>12 DEF t, u
  <2>14. O[g + 2^n - 1] - O[g] = u - R(n)
    <3> DEFINE a == O[g]
               b == O[g + p - 1]
               d == O[g + p]
               e == O[(g + p) + p - 1]
               na == NumArry(c, n)
               r1 == R(n - 1)
               r2 == R(n)
    <3>1. /\ b - a = t - r1 /\ e - d = t - r1 /\ d = b + na /\ na = 2 * r1 - r2
          /\ a \in Nat /\ b \in Nat /\ d \in Nat /\ e \in Nat /\ r1 \in Nat /\ r2 \in Nat
      BY <2>6, <2>7, <2>8, <2>10, <2>11 DEF t
    <3> HIDE DEF a, b, d, e, na, r1, r2
    <3>2. e - a = u - r2
      BY <2>13, <3>1
    <3> QED BY <2>9, <3>2 DEF a, e, r2
  <2> QED BY <2>14 DEF u
<1>6. l \in S
  <2> HIDE DEF S
  <2>1. 0..N \subseteq S
    BY <1>1, <1>4, <1>5, UpTo
  <2> QED BY <2>1
<1> QED BY <1>6 DEF B, O, R

(* The first column of the data of the stripe at a position of its batch. *)
Start(c, p) ==
    IF SharesTwoRacks(c) THEN (p - 1) * (RsRacks(c, 0) - 2) + 2
    ELSE (p - 1) * (RsRacks(c, 0) - 1) + p - Overlaps(c)[p - 1]

(* FirstColumn is that column. *)
LEMMA StartOfStripe == \A c, sid : FirstColumn(c, sid) = Start(c, Position(c, sid))
BY DEF FirstColumn, Start

(* The next stripe starts where this one's racks end, or one column before. *)
LEMMA StartGrows ==
    ASSUME NEW c, IsRs(c), NEW p \in 1..(BatchSize(c) - 1)
    PROVE  /\ Start(c, p) \in Int /\ Start(c, p + 1) \in Int
           /\ SharesTwoRacks(c) => Start(c, p + 1) = Start(c, p) + Width(c, 0) - 1
           /\ ~SharesTwoRacks(c) =>
                Start(c, p + 1) = Start(c, p) + Width(c, 0) + 1 - NumArry(c, Twos(p) + 1)
           /\ Start(c, p) <= Start(c, p + 1)
<1> DEFINE w == Width(c, 0)
           R == RsRacks(c, 0)
           B == BatchSize(c)
           O == Overlaps(c)
           na == NumArry(c, Twos(p) + 1)
<1>1. w \in Nat \ {0} /\ R = w + 1 /\ B \in Nat \ {0} /\ p \in 1..(B - 1)
  BY Widths, Rounds, RsSizes
<1>2. na \in {1, 2}
  BY TwosInBatch, Arrays, Rounds, RsSizes
<1>3. O[p] = O[p - 1] + na /\ O[p - 1] \in Nat /\ O[p] \in Nat
  <2>1. p - 1 \in 0..(B - 1) /\ p \in 0..(B - 1)
    BY <1>1
  <2> QED BY <2>1, OverlapsByPosition
<1>4. (p + 1) - 1 = p
  BY <1>1
<1>5. CASE SharesTwoRacks(c)
  <2>1. Start(c, p) = (p - 1) * (R - 2) + 2 /\ Start(c, p + 1) = p * (R - 2) + 2
    BY <1>4, <1>5 DEF Start
  <2> HIDE DEF w, R, B
  <2>2. p * (R - 2) = (p - 1) * (R - 2) + (w - 1) /\ (p - 1) * (R - 2) \in Int
    BY <1>1, SMT
  <2> DEFINE t == (p - 1) * (R - 2)
  <2> HIDE DEF t
  <2>3. Start(c, p) = t + 2 /\ Start(c, p + 1) = t + (w - 1) + 2 /\ t \in Int
    BY <2>1, <2>2 DEF t
  <2>4. /\ Start(c, p) \in Int /\ Start(c, p + 1) \in Int
        /\ Start(c, p + 1) = Start(c, p) + w - 1 /\ Start(c, p) <= Start(c, p + 1)
    BY <1>1, <2>3
  <2> QED BY <1>5, <2>4 DEF w
<1>6. CASE ~SharesTwoRacks(c)
  <2>1. /\ Start(c, p) = (p - 1) * (R - 1) + p - O[p - 1]
        /\ Start(c, p + 1) = p * (R - 1) + (p + 1) - O[p]
    BY <1>4, <1>6 DEF Start
  <2> HIDE DEF w, R, B, O, na
  <2>2. p * (R - 1) = (p - 1) * (R - 1) + w /\ (p - 1) * (R - 1) \in Int
    BY <1>1, SMT
  <2> DEFINE t == (p - 1) * (R - 1)
  <2> HIDE DEF t
  <2>3. /\ Start(c, p) = t + p - O[p - 1] /\ Start(c, p + 1) = t + w + (p + 1) - O[p]
        /\ t \in Int /\ p \in Nat
    BY <1>1, <2>1, <2>2 DEF t
  <2>4. /\ Start(c, p) \in Int /\ Start(c, p + 1) \in Int
        /\ Start(c, p + 1) = Start(c, p) + w + 1 - na /\ Start(c, p) <= Start(c, p + 1)
    BY <1>1, <1>2, <1>3, <2>3
  <2> QED BY <1>6, <2>4 DEF w, na
<1> QED BY <1>5, <1>6

(* It is a number. *)
LEMMA StartIsInt ==
    ASSUME NEW c, IsRs(c), NEW p \in 1..BatchSize(c)
    PROVE  Start(c, p) \in Int
<1>1. BatchSize(c) \in Nat \ {0}
  BY Rounds
<1>2. RsRacks(c, 0) \in Int
  BY Widths, RsSizes
<1>3. CASE SharesTwoRacks(c)
  BY <1>1, <1>2, <1>3 DEF Start
<1>4. CASE ~SharesTwoRacks(c)
  <2>1. p - 1 \in 0..(BatchSize(c) - 1)
    BY <1>1
  <2>2. Overlaps(c)[p - 1] \in Nat
    BY <2>1, OverlapsByPosition
  <2> QED BY <1>1, <1>2, <1>4, <2>2 DEF Start
<1> QED BY <1>3, <1>4

(* So later positions start no earlier. *)
LEMMA StartsInOrder ==
    ASSUME NEW c, IsRs(c), NEW p \in 1..BatchSize(c), NEW q \in 1..BatchSize(c), p <= q
    PROVE  Start(c, p) <= Start(c, q)
<1> DEFINE B == BatchSize(c)
           T == {d \in 0..(B - p) : Start(c, p) <= Start(c, p + d)}
<1>1. B \in Nat \ {0}
  BY Rounds
<1>2. 0 \in T
  BY <1>1, StartIsInt
<1>3. ASSUME NEW d \in 1..(B - p), d - 1 \in T PROVE d \in T
  <2>1. /\ p + (d - 1) \in 1..(B - 1) /\ (p + (d - 1)) + 1 = p + d
        /\ p + d \in 1..B /\ d \in 0..(B - p)
    BY <1>1
  <2>2. Start(c, p + (d - 1)) <= Start(c, (p + (d - 1)) + 1)
    BY <2>1, StartGrows
  <2>3. /\ Start(c, p) \in Int /\ Start(c, p + d) \in Int /\ Start(c, p + (d - 1)) \in Int
    <3>1. p + (d - 1) \in 1..B
      BY <1>1
    <3> QED BY <2>1, <3>1, StartIsInt
  <2>4. Start(c, p) <= Start(c, p + (d - 1))
    BY <1>3
  <2>5. Start(c, p) <= Start(c, p + d)
    BY <2>1, <2>2, <2>3, <2>4
  <2> QED BY <2>1, <2>5
<1>4. B - p \in Nat /\ q - p \in 0..(B - p) /\ p + (q - p) = q
  BY <1>1
<1>5. q - p \in T
  <2> HIDE DEF T
  <2>1. 0..(B - p) \subseteq T
    BY <1>2, <1>3, <1>4, UpTo
  <2> QED BY <1>4, <2>1
<1> QED BY <1>4, <1>5

(* The columns of an aligned run of 2^l stripes, from the first of its     *)
(* first to the last its last could have, are no more than the racks the   *)
(* run's data takes together.                                              *)
LEMMA Span ==
    ASSUME NEW c, IsRs(c), NEW l \in 0..RsRounds(c), NEW f \in Nat, f % 2^l = 0,
           f + 2^l <= BatchSize(c)
    PROVE  Start(c, f + 2^l) - Start(c, f + 1) + Width(c, 0) <= Width(c, l)
<1> DEFINE p == 2^l
           w == Width(c, 0)
           v == Width(c, l)
           B == BatchSize(c)
           r == c.r
<1>1. /\ w \in Nat \ {0} /\ RsRacks(c, 0) = w + 1 /\ v \in Nat \ {0} /\ RsRacks(c, l) = v + 1
      /\ p \in Nat \ {0} /\ r \in Nat \ {0} /\ B \in Nat \ {0} /\ f + p <= B
  <2>1. l \in 0..LevelBound /\ 0 \in 0..LevelBound
    BY Rounds, RsSizes
  <2> QED BY <2>1, Widths, PowersAssumption, RsSizes, Rounds
<1>2. (f + 1) - 1 = f
  OBVIOUS
<1>3. CASE SharesTwoRacks(c)
  <2>1. /\ Start(c, f + p) = (f + p - 1) * (w - 1) + 2 /\ Start(c, f + 1) = f * (w - 1) + 2
    <3>1. RsRacks(c, 0) - 2 = w - 1
      BY <1>1
    <3> HIDE DEF w
    <3>2. \A q : Start(c, q) = (q - 1) * (w - 1) + 2
      BY <1>3, <3>1, Zenon DEF Start
    <3> HIDE DEF p
    <3>3. (f + p) - 1 = f + p - 1
      BY <1>1
    <3>4. Start(c, f + p) = ((f + p) - 1) * (w - 1) + 2
      BY <3>2, Zenon
    <3>5. Start(c, f + 1) = ((f + 1) - 1) * (w - 1) + 2
      BY <3>2, Zenon
    <3> QED BY <1>2, <3>3, <3>4, <3>5, Zenon
  <2>2. p * (w - 1) < v
    <3> DEFINE k == c.k
    <3>1. r * (w - 1) < k /\ p * k <= r * v /\ k \in Nat
      <4>1. r * (w - 1) < k /\ k \in Nat
        <5>1. 0 \in 0..LevelBound /\ 2^0 = 1 /\ k \in Nat /\ 1 * k = k
          BY PowersAssumption, RsSizes
        <5>2. r * (w - 1) < 2^0 * k
          BY <5>1, Widths
        <5>3. 2^0 * k = k
          BY <5>1
        <5> QED BY <5>1, <5>2, <5>3
      <4>2. l \in 0..LevelBound
        BY Rounds, RsSizes
      <4> QED BY <4>1, <4>2, Widths, RsSizes
    <3> HIDE DEF k, r, p, w, v
    <3>2. p * (r * (w - 1)) < p * k /\ p * k \in Int
      BY <1>1, <3>1, SMT
    <3>3. p * (r * (w - 1)) = r * (p * (w - 1))
      BY <1>1, SMT
    <3>4. r * (p * (w - 1)) < r * v
      BY <1>1, <3>1, <3>2, <3>3, SMT
    <3> DEFINE x == p * (w - 1)
    <3>5. x \in Int
      BY <1>1, SMT
    <3> HIDE DEF x
    <3> SUFFICES ASSUME x >= v PROVE FALSE
      BY <1>1, <3>5 DEF x
    <3>6. r * x >= r * v
      BY <1>1, <3>5, SMT
    <3> QED BY <1>1, <3>4, <3>5, <3>6, SMT DEF x
  <2> HIDE DEF p, w, v, B, r
  <2>3. (f + p - 1) * (w - 1) = f * (w - 1) + p * (w - 1) - (w - 1)
    BY <1>1, SMT
  <2> DEFINE x == f * (w - 1)
             y == p * (w - 1)
             z == (f + p - 1) * (w - 1)
  <2>4. x \in Int /\ y \in Int
    BY <1>1, SMT
  <2> HIDE DEF x, y, z
  <2>5. Start(c, f + p) = z + 2 /\ Start(c, f + 1) = x + 2 /\ y < v /\ z = x + y - (w - 1)
    BY <2>1, <2>2, <2>3 DEF x, y, z
  <2>6. Start(c, f + p) - Start(c, f + 1) + w <= v
    BY <1>1, <2>4, <2>5
  <2> QED BY <2>6 DEF p, w, v
<1>4. CASE ~SharesTwoRacks(c)
  <2> DEFINE O == Overlaps(c)
  <2>1. /\ Start(c, f + p) = (f + p - 1) * w + (f + p) - O[f + p - 1]
        /\ Start(c, f + 1) = f * w + (f + 1) - O[f]
    <3>1. RsRacks(c, 0) - 1 = w
      BY <1>1
    <3> HIDE DEF w
    <3>2. \A q : Start(c, q) = (q - 1) * w + q - O[q - 1]
      BY <1>4, <3>1, Zenon DEF Start
    <3> HIDE DEF p
    <3>3. (f + p) - 1 = f + p - 1
      BY <1>1
    <3>4. Start(c, f + p) = ((f + p) - 1) * w + (f + p) - O[(f + p) - 1]
      BY <3>2, Zenon
    <3>5. Start(c, f + 1) = ((f + 1) - 1) * w + (f + 1) - O[(f + 1) - 1]
      BY <3>2, Zenon
    <3> QED BY <1>2, <3>3, <3>4, <3>5, Zenon
  <2>2. O[f + p - 1] - O[f] = p * (w + 1) - (v + 1)
    BY <1>1, OverlapsOfRun
  <2>3. O[f + p - 1] \in Nat /\ O[f] \in Nat
    <3>1. f + p - 1 \in 0..(B - 1) /\ f \in 0..(B - 1)
      BY <1>1
    <3> QED BY <3>1, OverlapsByPosition
  <2> DEFINE o1 == O[f + p - 1]
             o2 == O[f]
  <2> HIDE DEF p, w, v, B, r, o1, o2
  <2>4. /\ Start(c, f + p) = (f + p - 1) * w + (f + p) - o1
        /\ Start(c, f + 1) = f * w + (f + 1) - o2
        /\ o1 - o2 = p * (w + 1) - (v + 1) /\ o1 \in Nat /\ o2 \in Nat
    BY <2>1, <2>2, <2>3 DEF o1, o2
  <2>5. (f + p - 1) * w = f * w + p * w - w /\ p * (w + 1) = p * w + p
    BY <1>1, SMT
  <2> DEFINE x == f * w
             y == p * w
             z == (f + p - 1) * w
             u == p * (w + 1)
  <2>6. x \in Int /\ y \in Int
    BY <1>1, SMT
  <2> HIDE DEF x, y, z, u
  <2>7. /\ Start(c, f + p) = z + (f + p) - o1 /\ Start(c, f + 1) = x + (f + 1) - o2
        /\ o1 - o2 = u - (v + 1) /\ z = x + y - w /\ u = y + p
    BY <2>4, <2>5 DEF x, y, z, u
  <2>8. Start(c, f + p) - Start(c, f + 1) + w <= v
    BY <1>1, <2>4, <2>6, <2>7
  <2> QED BY <2>8 DEF p, w, v
<1> QED BY <1>3, <1>4

-----------------------------------------------------------------------------
(***************************************************************************)
(* The groups of a stripe's data.                                          *)
(***************************************************************************)

(* Block i is at at, among A groups: r-u of r-1 and then the others of r,  *)
(* or L of r and then the others of r-1.                                   *)
SmallFirstAt(r, A, u, i, at) ==
    /\ at.group \in 0..(A - 1) /\ at.pos \in 0..(r - 1)
    /\ at.group < r - u => at.pos < r - 1 /\ i = (r - 1) * at.group + at.pos
    /\ ~(at.group < r - u) => i = (r - u) * (r - 1) + r * (at.group - (r - u)) + at.pos

LargeFirstAt(r, A, L, i, at) ==
    /\ at.group \in 0..(A - 1) /\ at.pos \in 0..(r - 1)
    /\ at.group < L => i = r * at.group + at.pos
    /\ ~(at.group < L) => at.pos < r - 1 /\ i = L * r + (r - 1) * (at.group - L) + at.pos

(* r-t groups of r-1 and then groups of r hold r(A-1)+t blocks in A groups. *)
LEMMA SmallFirst ==
    ASSUME NEW r \in Nat \ {0}, NEW A \in Nat \ {0}, NEW t \in 1..r,
           NEW i \in Nat, i < r * (A - 1) + t
    PROVE  SmallFirstAt(r, A, t, i, InGroups(i, r - t, r - 1, r))
<1> SUFFICES ASSUME NEW at, at = InGroups(i, r - t, r - 1, r)
    PROVE  /\ at.group \in 0..(A - 1) /\ at.pos \in 0..(r - 1)
           /\ at.group < r - t => at.pos < r - 1 /\ i = (r - 1) * at.group + at.pos
           /\ ~(at.group < r - t) =>
                 i = (r - t) * (r - 1) + r * (at.group - (r - t)) + at.pos
  BY DEF SmallFirstAt
<1> DEFINE s == r - t
           d == r - 1
           n == s * d
<1>1. s \in Nat /\ d \in Nat /\ n \in Nat /\ t \in Nat /\ s <= d
  <2>1. s \in Nat /\ d \in Nat /\ t \in Nat /\ s <= d
    OBVIOUS
  <2> HIDE DEF s, d
  <2> QED BY <2>1, SMT
<1>2. CASE i < n
  <2>1. at = [group |-> i \div d, pos |-> i % d]
    BY <1>2 DEF InGroups
  <2>2. d > 0
    <3> SUFFICES ASSUME d = 0 PROVE FALSE
      BY <1>1
    <3>1. n = 0
      BY <1>1
    <3> QED BY <1>2, <3>1
  <2>3. n = d * s
    BY <1>1, SMT
  <2> HIDE DEF s, d, n
  <2>4. i \div d \in Nat /\ i % d \in 0..(d - 1) /\ i = (d * (i \div d)) + (i % d)
    <3>1. d \in Nat \ {0}
      BY <1>1, <2>2
    <3> QED BY <3>1, DivMod
  <2>5. i \div d < s
    BY <1>1, <1>2, <2>2, <2>3, DivBound
  <2>6. i \div d < A
    <3> DEFINE q == i \div d
    <3>1. q \in Nat /\ d * q <= i /\ q < s
      <4> DEFINE u == i % d
                 m == d * q
      <4>1. u \in Nat /\ i = m + u /\ m \in Int
        BY <1>1, <2>4
      <4> HIDE DEF u, m, q
      <4>2. m <= i
        BY <4>1
      <4> QED BY <2>4, <2>5, <4>2 DEF q, m
    <3> HIDE DEF q
    <3> SUFFICES ASSUME q >= A PROVE FALSE
      BY <3>1 DEF q
    <3>2. A < s
      BY <1>1, <3>1
    <3>3. d * A <= d * q
      BY <1>1, <3>1, SMT
    <3>4. r * (A - 1) = r * A - r /\ d * A = r * A - A /\ r * A \in Int
      <4>1. d = r - 1
        BY DEF d
      <4> QED BY <1>1, <4>1, SMT
    <3> DEFINE x == r * A
               y == r * (A - 1)
               z == d * A
               m == d * q
    <3>5. y = x - r /\ z = x - A /\ z <= m /\ m <= i /\ x \in Int /\ i < y + t /\ A < r - t
          /\ m \in Int
      BY <1>1, <3>1, <3>2, <3>3, <3>4 DEF s
    <3> HIDE DEF x, y, z, m
    <3> QED BY <1>1, <3>5
  <2>7. at.group = i \div d /\ at.pos = i % d
    BY <2>1
  <2> DEFINE q == i \div d
             u == i % d
  <2>8. at.group = q /\ at.pos = u /\ q \in Nat /\ u \in 0..(d - 1) /\ i = d * q + u
        /\ q < s /\ q < A
    BY <2>4, <2>5, <2>6, <2>7
  <2> HIDE DEF q, u
  <2>9. u \in 0..(r - 1) /\ u < r - 1
    BY <1>1, <2>8 DEF d
  <2> QED BY <1>1, <2>8, <2>9 DEF s, d
<1>3. CASE ~(i < n)
  <2> DEFINE j == i - n
  <2>1. at = [group |-> s + j \div r, pos |-> j % r]
    BY <1>3 DEF InGroups
  <2>2. j \in Nat
    BY <1>1, <1>3
  <2>3. r * (A - 1) + t = n + r * (A - s) /\ r * (A - s) \in Int
    <3>1. n = s * r - s
      <4>1. d = r - 1
        BY DEF d
      <4> HIDE DEF s, d
      <4> QED BY <1>1, <4>1, SMT
    <3>2. r * (A - 1) = r * A - r /\ r * (A - s) = r * A - s * r /\ r * A \in Int /\ s * r \in Int
      <4> HIDE DEF s, d, n
      <4> QED BY <1>1, SMT
    <3>3. t = r - s
      BY <1>1
    <3> DEFINE x == r * A
               y == s * r
               z == r * (A - 1)
               v == r * (A - s)
    <3>4. z = x - r /\ v = x - y /\ x \in Int /\ y \in Int /\ n = y - s
      BY <3>1, <3>2
    <3> HIDE DEF x, y, z, v, n, s
    <3>5. z + t = n + v /\ v \in Int
      BY <1>1, <3>3, <3>4
    <3> QED BY <3>5 DEF z, v
  <2> HIDE DEF n, s, d
  <2>4. j < r * (A - s)
    <3> DEFINE v == r * (A - s)
               z == r * (A - 1) + t
    <3>1. i < z /\ z = n + v /\ v \in Int
      BY <2>3
    <3> HIDE DEF v, z
    <3>2. j < v
      BY <1>1, <3>1
    <3> QED BY <3>2 DEF v
  <2> HIDE DEF j
  <2>5. A - s \in Nat
    <3> SUFFICES ASSUME A - s < 0 PROVE FALSE
      BY <1>1
    <3>1. r * (A - s) < 0
      BY <1>1, SMT
    <3> QED BY <2>2, <2>3, <2>4, <3>1
  <2>6. j \div r < A - s
    BY <2>2, <2>4, <2>5, DivBound
  <2>7. j \div r \in Nat /\ j % r \in 0..(r - 1) /\ j = (r * (j \div r)) + (j % r)
    BY <2>2, DivMod
  <2> DEFINE q == j \div r
             u == j % r
  <2>8. at.group = s + q /\ at.pos = u /\ q \in Nat /\ u \in 0..(r - 1) /\ j = (r * q) + u
        /\ q < A - s
    BY <2>1, <2>6, <2>7
  <2> HIDE DEF q, u
  <2>9. at.group \in 0..(A - 1) /\ ~(at.group < s) /\ at.group - s = q
    BY <1>1, <2>5, <2>8
  <2>10. i = n + (r * q) + u
    <3> DEFINE m == r * q
    <3>1. m \in Int
      BY <2>8
    <3>2. j = m + u
      BY <2>8
    <3> HIDE DEF m
    <3>3. i = n + m + u
      BY <1>1, <2>8, <3>1, <3>2 DEF j
    <3> QED BY <3>3 DEF m
  <2> QED BY <2>8, <2>9, <2>10 DEF s, d, n
<1> QED BY <1>2, <1>3

(* GroupCount of r and then r-t groups of r-1 hold them as well, in A groups   *)
(* again; fewer than r-t groups leave none of r.                           *)
LEMMA LargeFirst ==
    ASSUME NEW r \in Nat \ {0}, NEW A \in Nat \ {0}, NEW t \in 1..r,
           NEW i \in Nat, i < r * (A - 1) + t
    PROVE  LargeFirstAt(r, A, A - (r - t), i, InGroups(i, A - (r - t), r, r - 1))
<1> SUFFICES ASSUME NEW L, L = A - (r - t), NEW at, at = InGroups(i, L, r, r - 1)
    PROVE  /\ at.group \in 0..(A - 1) /\ at.pos \in 0..(r - 1)
           /\ at.group < L => i = r * at.group + at.pos
           /\ ~(at.group < L) => at.pos < r - 1
                                 /\ i = L * r + (r - 1) * (at.group - L) + at.pos
  BY DEF LargeFirstAt
<1> DEFINE s == r - t
           d == r - 1
           n == L * r
<1>1. /\ s \in Nat /\ d \in Nat /\ t \in Nat /\ s <= d /\ L \in Int /\ L = A - s /\ L <= A
      /\ n \in Int
  <2>1. s \in Nat /\ d \in Nat /\ t \in Nat /\ s <= d /\ L \in Int /\ L = A - s /\ L <= A
    OBVIOUS
  <2> HIDE DEF s, d
  <2> QED BY <2>1, SMT
<1>2. CASE i < n
  <2>1. at.group = i \div r /\ at.pos = i % r
    BY <1>2 DEF InGroups
  <2>2. L > 0
    <3> SUFFICES ASSUME L <= 0 PROVE FALSE
      BY <1>1
    <3>1. n <= 0
      <4> HIDE DEF s
      <4> QED BY <1>1, SMT
    <3> HIDE DEF n
    <3> QED BY <1>1, <1>2, <3>1
  <2>3. n = r * L
    BY <1>1, SMT
  <2>4. i \div r \in Nat /\ i % r \in 0..(r - 1) /\ i = (r * (i \div r)) + (i % r)
    BY DivMod
  <2>5. i \div r < L
    <3>1. L \in Nat /\ i < r * L
      BY <1>1, <1>2, <2>2, <2>3
    <3> QED BY <3>1, DivBound
  <2> DEFINE q == i \div r
             u == i % r
  <2>6. at.group = q /\ at.pos = u /\ q \in Nat /\ u \in 0..(r - 1) /\ i = r * q + u /\ q < L
    BY <2>1, <2>4, <2>5
  <2> HIDE DEF q, u
  <2>7. q < A
    BY <1>1, <2>6
  <2> QED BY <2>6, <2>7
<1>3. CASE ~(i < n)
  <2> DEFINE j == i - n
  <2>1. at.group = L + j \div d /\ at.pos = j % d
    BY <1>3 DEF InGroups
  <2>2. j \in Nat
    <3> HIDE DEF n
    <3> QED BY <1>1, <1>3
  <2>3. r * (A - 1) + t = n + d * s /\ d * s \in Int
    <3>1. d * s = s * r - s
      <4>1. d = r - 1
        BY DEF d
      <4> HIDE DEF s, d
      <4> QED BY <1>1, <4>1, SMT
    <3>2. r * (A - 1) = r * A - r /\ n = r * A - s * r /\ r * A \in Int /\ s * r \in Int
      <4>1. n = (A - s) * r
        BY <1>1
      <4> HIDE DEF s, d, n
      <4> QED BY <1>1, <4>1, SMT
    <3>3. t = r - s
      BY <1>1
    <3> DEFINE x == r * A
               y == s * r
               z == r * (A - 1)
               v == d * s
    <3>4. z = x - r /\ n = x - y /\ x \in Int /\ y \in Int /\ v = y - s
      BY <3>1, <3>2
    <3> HIDE DEF x, y, z, v, n, s
    <3>5. z + t = n + v /\ v \in Int
      BY <1>1, <3>3, <3>4
    <3> QED BY <3>5 DEF z, v
  <2> HIDE DEF n, s
  <2>4. j < d * s
    <3> DEFINE v == d * s
               z == r * (A - 1) + t
    <3>1. i < z /\ z = n + v /\ v \in Int
      BY <2>3
    <3> HIDE DEF v, z
    <3>2. j < v
      BY <1>1, <3>1
    <3> QED BY <3>2 DEF v
  <2>5. j >= n - 2 * n
    <3> QED BY <1>1
  <2> HIDE DEF j, d
  <2>6. d \in Nat \ {0}
    <3> SUFFICES ASSUME d = 0 PROVE FALSE
      BY <1>1
    <3> QED BY <1>1, <2>2, <2>4
  <2>7. j \div d \in Nat /\ j % d \in 0..(d - 1) /\ j = (d * (j \div d)) + (j % d)
    BY <2>2, <2>6, DivMod
  <2>8. j \div d < s
    BY <1>1, <2>2, <2>4, <2>6, DivBound
  <2> DEFINE q == j \div d
             u == j % d
  <2>9. at.group = L + q /\ at.pos = u /\ q \in Nat /\ u \in 0..(d - 1) /\ j = d * q + u /\ q < s
    BY <2>1, <2>7, <2>8
  <2> HIDE DEF q, u
  <2>10. L + q >= 0
    <3> SUFFICES ASSUME q < 0 - L PROVE FALSE
      BY <1>1, <2>9
    <3> DEFINE m == 0 - L
    <3>1. m \in Nat /\ q < m /\ n = 0 - m * r
      <4>1. m \in Nat /\ q < m
        BY <1>1, <2>9
      <4>2. L * r = 0 - m * r
        BY <1>1, SMT
      <4> QED BY <4>1, <4>2 DEF n
    <3> HIDE DEF m
    <3>2. d * q + d <= d * m
      BY <2>6, <2>9, <3>1, LessMul
    <3>3. d * m <= m * r
      <4>1. d <= r
        BY DEF d
      <4> QED BY <1>1, <3>1, <4>1, SMT
    <3> DEFINE x == m * r
               y == d * m
               z == d * q
    <3>4. /\ x \in Int /\ y \in Int /\ z \in Int /\ n = 0 - x /\ z + d <= y /\ y <= x
          /\ j = z + u /\ j >= n - 2 * n
      BY <1>1, <2>5, <2>6, <2>9, <3>1, <3>2, <3>3
    <3> HIDE DEF x, y, z
    <3> QED BY <1>1, <2>6, <2>9, <3>4
  <2>11. at.group \in 0..(A - 1) /\ ~(at.group < L) /\ at.group - L = q
    BY <1>1, <2>9, <2>10
  <2>12. i = n + (d * q) + u
    <3> DEFINE m == d * q
    <3>1. m \in Int /\ j = m + u
      BY <1>1, <2>9
    <3> HIDE DEF m
    <3>2. i = n + m + u
      BY <1>1, <2>6, <2>9, <3>1 DEF j
    <3> QED BY <3>2 DEF m
  <2>13. u \in 0..(r - 1) /\ u < r - 1
    BY <1>1, <2>9 DEF d
  <2> QED BY <2>9, <2>11, <2>12, <2>13 DEF d, n
<1> QED BY <1>2, <1>3

(* The blocks in r-t groups of r-1 and the other groups of r. *)
LEMMA Amount ==
    ASSUME NEW r \in Nat \ {0}, NEW A \in Nat \ {0}, NEW t \in 1..r
    PROVE  /\ r * (A - 1) + t = (r - t) * (r - 1) + r * (A - (r - t))
           /\ r * (A - 1) + t = (A - (r - t)) * r + (r - 1) * (r - t)
           /\ r * (A - 1) + t \in Nat
<1> DEFINE s == r - t
           x == r * A
           y == s * r
<1>1. s \in Nat /\ t = r - s /\ r \in Nat /\ A \in Nat
  OBVIOUS
<1> HIDE DEF s
<1>2. /\ x \in Int /\ y \in Int
      /\ s * (r - 1) = y - s /\ (r - 1) * s = y - s
      /\ r * (A - 1) = x - r /\ r * (A - s) = x - y /\ (A - s) * r = x - y
  BY <1>1, SMT
<1>3. r * (A - 1) >= 0
  BY SMT
<1> DEFINE a == s * (r - 1)
           b == (r - 1) * s
           e == r * (A - 1)
           g == r * (A - s)
           h == (A - s) * r
<1> HIDE DEF a, b, e, g, h, x, y
<1>4. /\ x \in Int /\ y \in Int /\ a = y - s /\ b = y - s /\ e = x - r
      /\ g = x - y /\ h = x - y /\ e >= 0
  BY <1>2, <1>3 DEF a, b, e, g, h
<1>5. e + t = a + g /\ e + t = h + b /\ e + t \in Nat
  BY <1>1, <1>4
<1> QED BY <1>5 DEF a, b, e, g, h, s

(* No group of either arrangement is empty. *)
LEMMA SmallFirstAll ==
    ASSUME NEW r \in Nat \ {0}, NEW A \in Nat \ {0}, NEW t \in 1..r, NEW g \in 0..(A - 1)
    PROVE  \E i \in Nat : i < r * (A - 1) + t /\ InGroups(i, r - t, r - 1, r).group = g
<1> DEFINE s == r - t
           d == r - 1
           n == s * d
           all == r * (A - 1) + t
<1>1. s \in Nat /\ d \in Nat /\ s <= d /\ d < r /\ t >= 1 /\ t \in Nat /\ g \in Nat /\ g < A
  OBVIOUS
<1>2. all = n + r * (A - s) /\ all \in Nat
  BY Amount
<1>3. CASE g < s
  <2>1. d \in Nat \ {0}
    BY <1>1, <1>3
  <2>2. g * d \in Nat /\ g * d < n
    <3> HIDE DEF s, d
    <3>1. d * g + d <= d * s
      BY <1>1, <1>3, <2>1, LessMul
    <3>2. d * g = g * d /\ d * s = s * d /\ g * d \in Nat /\ s * d \in Int
      BY <1>1, SMT
    <3> DEFINE x == g * d
               y == s * d
    <3> HIDE DEF x, y
    <3>3. x + d <= y /\ x \in Nat /\ y \in Int
      BY <3>1, <3>2 DEF x, y
    <3>4. x < y
      BY <2>1, <3>3
    <3> QED BY <3>2, <3>4 DEF x, y
  <2>3. InGroups(g * d, s, d, r).group = (g * d) \div d
    <3> HIDE DEF s, d
    <3> QED BY <2>2 DEF InGroups
  <2>4. (g * d) \div d = g
    <3> HIDE DEF d
    <3>1. g * d = d * g + 0 /\ 0 \in 0..(d - 1) /\ g * d \in Nat
      BY <1>1, <2>1, SMT
    <3> DEFINE x == g * d
    <3>2. x = d * g + 0 /\ 0 \in 0..(d - 1) /\ x \in Nat
      BY <3>1
    <3> HIDE DEF x
    <3>3. x \div d = g
      BY <1>1, <2>1, <3>2, DivUnique
    <3> QED BY <3>3 DEF x
  <2>5. g * d < all
    <3>1. g * d <= r * (A - 1)
      <4> HIDE DEF d
      <4>1. g * d <= (A - 1) * d
        BY <1>1, SMT
      <4>2. (A - 1) * d <= (A - 1) * r
        BY <1>1, SMT
      <4>3. (A - 1) * r = r * (A - 1)
        BY SMT
      <4>4. g * d \in Int /\ (A - 1) * d \in Int /\ (A - 1) * r \in Int
        BY <1>1
      <4> QED BY <4>1, <4>2, <4>3, <4>4
    <3>2. g * d \in Int /\ r * (A - 1) \in Int
      BY <1>1
    <3> DEFINE x == g * d
               y == r * (A - 1)
    <3> HIDE DEF x, y
    <3>3. x <= y /\ x \in Int /\ y \in Int
      BY <3>1, <3>2 DEF x, y
    <3>4. x < y + t
      BY <1>1, <3>3
    <3> QED BY <3>4 DEF x, y
  <2> QED BY <2>2, <2>3, <2>4, <2>5
<1>4. CASE ~(g < s)
  <2> DEFINE q == g - s
             m == r * q
  <2>1. q \in Nat /\ q < A - s /\ s + q = g /\ A - s \in Nat
    BY <1>1, <1>4
  <2>2. n \in Nat
    <3> HIDE DEF s, d
    <3> QED BY <1>1, SMT
  <2> HIDE DEF q, s, d, n
  <2>3. m + r <= r * (A - s) /\ m \in Nat /\ r * (A - s) \in Int
    BY <1>1, <2>1, LessMul, SMT
  <2>4. m \div r = q
    <3>1. m = r * q
      OBVIOUS
    <3> HIDE DEF m
    <3>2. m = r * q + 0 /\ 0 \in 0..(r - 1)
      BY <2>3, <3>1
    <3> QED BY <2>1, <2>3, <3>2, DivUnique
  <2>5. (n + m) - n = m /\ ~(n + m < n) /\ n + m \in Nat
    <3> HIDE DEF m
    <3> QED BY <2>2, <2>3
  <2>6. InGroups(n + m, s, d, r).group = s + (m \div r)
    <3> HIDE DEF m
    <3>1. InGroups(n + m, s, d, r) = [group |-> s + ((n + m) - n) \div r, pos |-> ((n + m) - n) % r]
      BY <2>5 DEF InGroups, n
    <3> QED BY <2>5, <3>1
  <2>7. n + m < all
    <3> DEFINE v == r * (A - s)
    <3> HIDE DEF m, v, all
    <3>1. all = n + v /\ m + r <= v /\ v \in Int
      BY <1>2, <2>3 DEF v
    <3> QED BY <2>2, <2>3, <3>1
  <2>8. InGroups(n + m, s, d, r).group = g
    BY <2>1, <2>4, <2>6
  <2> HIDE DEF m, all
  <2>9. n + m \in Nat /\ n + m < all /\ InGroups(n + m, s, d, r).group = g
    BY <2>5, <2>7, <2>8
  <2> QED BY <2>9 DEF s, d, all
<1> QED BY <1>3, <1>4

(* The same of groups of r first. *)
LEMMA LargeFirstAll ==
    ASSUME NEW r \in Nat \ {0}, NEW A \in Nat \ {0}, NEW t \in 1..r, NEW g \in 0..(A - 1)
    PROVE  \E i \in Nat : i < r * (A - 1) + t
                           /\ InGroups(i, A - (r - t), r, r - 1).group = g
<1> SUFFICES ASSUME NEW L, L = A - (r - t)
    PROVE  \E i \in Nat : i < r * (A - 1) + t /\ InGroups(i, L, r, r - 1).group = g
  OBVIOUS
<1> DEFINE s == r - t
           d == r - 1
           n == L * r
           all == r * (A - 1) + t
<1>1. /\ s \in Nat /\ d \in Nat /\ s <= d /\ d < r /\ t >= 1 /\ t \in Nat /\ g \in Nat
      /\ g < A /\ L \in Int /\ L = A - s /\ r = d + 1
  OBVIOUS
<1>2. all = n + d * s /\ all \in Nat
  BY Amount
<1>3. CASE g < L
  <2> DEFINE m == r * g
  <2>1. m \in Nat /\ m + r <= r * L /\ n = r * L /\ n \in Int
    <3>1. r * g + r <= r * L
      BY <1>1, <1>3, LessMul
    <3>2. r * g \in Nat /\ L * r = r * L /\ L * r \in Int
      BY <1>1, SMT
    <3> QED BY <3>1, <3>2
  <2>2. m \div r = g
    <3>1. m = r * g
      OBVIOUS
    <3> HIDE DEF m
    <3>2. m = r * g + 0 /\ 0 \in 0..(r - 1)
      BY <2>1, <3>1
    <3> QED BY <1>1, <2>1, <3>2, DivUnique
  <2>3. m < n
    <3> HIDE DEF m, n
    <3>1. r * L \in Int
      BY <2>1
    <3> QED BY <2>1, <3>1
  <2>4. InGroups(m, L, r, d).group = g
    <3> HIDE DEF m, d
    <3> QED BY <2>2, <2>3 DEF InGroups
  <2>5. m < all
    <3>1. r * g <= r * (A - 1)
      BY <1>1, SMT
    <3> DEFINE y == r * (A - 1)
    <3>2. m <= y /\ y \in Int
      BY <1>1, <3>1
    <3> HIDE DEF m, y
    <3>3. m < y + t
      BY <1>1, <2>1, <3>2
    <3> QED BY <3>3 DEF y
  <2> HIDE DEF m, d, all
  <2>6. m \in Nat /\ m < all /\ InGroups(m, L, r, d).group = g
    BY <2>1, <2>4, <2>5
  <2> QED BY <2>6 DEF d, all
<1>4. CASE ~(g < L)
  <2> DEFINE q == g - L
             m == d * q
  <2>1. q \in Nat /\ q < s /\ L + q = g /\ d \in Nat \ {0}
    BY <1>1, <1>4
  <2>2. n \in Int
    BY <1>1
  <2> HIDE DEF q, s, d, n
  <2>3. m + d <= d * s /\ m \in Nat /\ d * s \in Int
    BY <1>1, <2>1, LessMul, SMT
  <2>4. m \div d = q
    <3>1. m = d * q
      OBVIOUS
    <3> HIDE DEF m
    <3>2. m = d * q + 0 /\ 0 \in 0..(d - 1)
      BY <2>1, <2>3, <3>1
    <3> QED BY <2>1, <2>3, <3>2, DivUnique
  <2>5. CASE n + m >= 0
    <3>1. (n + m) - n = m /\ ~(n + m < n) /\ n + m \in Nat
      <4> HIDE DEF m
      <4> QED BY <2>2, <2>3, <2>5
    <3>2. InGroups(n + m, L, r, d).group = L + (m \div d)
      <4> HIDE DEF m
      <4>1. InGroups(n + m, L, r, d) = [group |-> L + ((n + m) - n) \div d, pos |-> ((n + m) - n) % d]
        BY <3>1 DEF InGroups, n
      <4> QED BY <3>1, <4>1
    <3>3. n + m < all
      <4> DEFINE v == d * s
      <4> HIDE DEF m, v, all
      <4>1. all = n + v /\ m + d <= v /\ v \in Int
        BY <1>2, <2>3 DEF v
      <4> QED BY <2>1, <2>2, <2>3, <4>1
    <3>4. InGroups(n + m, L, r, d).group = g
      BY <2>1, <2>4, <3>2
    <3> HIDE DEF m, all
    <3>5. n + m \in Nat /\ n + m < all /\ InGroups(n + m, L, r, d).group = g
      BY <3>1, <3>3, <3>4
    <3> QED BY <3>5 DEF d, all
  <2>6. CASE ~(n + m >= 0)
    <3> DEFINE e == 0 - L
    <3>1. e \in Nat /\ e < d /\ g = 0
      <4>1. L < 0
        <5> SUFFICES ASSUME L >= 0 PROVE FALSE
          BY <1>1
        <5>1. n >= 0
          BY <1>1, SMT DEF n
        <5> HIDE DEF m
        <5> QED BY <2>2, <2>3, <2>6, <5>1
      <4>2. e \in Nat /\ e < d
        BY <1>1, <4>1
      <4>3. g = 0
        <5> SUFFICES ASSUME g >= 1 PROVE FALSE
          BY <1>1
        <5> HIDE DEF e
        <5>1. q = g + e /\ n = 0 - e * r
          <6>1. q = g + e
            BY <1>1 DEF q, e
          <6>2. L = 0 - e
            BY <1>1 DEF e
          <6>3. L * r = 0 - e * r
            BY <4>2, <6>2, SMT
          <6> QED BY <6>1, <6>3 DEF n
        <5>2. d * q = d * g + d * e /\ e * r = d * e + e /\ d * g >= d
          <6>1. d * q = d * g + d * e
            BY <1>1, <4>2, <5>1, SMT
          <6>2. e * r = d * e + e
            BY <1>1, <4>2, SMT
          <6>3. d * g >= d
            BY <1>1, SMT
          <6> QED BY <6>1, <6>2, <6>3
        <5> DEFINE x == d * g
                   y == d * e
                   z == e * r
        <5>3. x \in Int /\ y \in Int
          BY <1>1, <4>2, SMT
        <5> HIDE DEF x, y, z
        <5>4. m = x + y /\ z = y + e /\ x >= d /\ n = 0 - z
          BY <5>1, <5>2 DEF x, y, z
        <5> HIDE DEF m
        <5> QED BY <1>1, <2>1, <2>6, <4>2, <5>3, <5>4
      <4> QED BY <4>2, <4>3
    <3> DEFINE j == e * r
    <3>2. n = 0 - j /\ j \in Nat
      <4>1. L = 0 - e
        BY <1>1
      <4> HIDE DEF e
      <4>2. L * r = 0 - e * r /\ e * r \in Nat
        BY <3>1, <4>1, SMT
      <4> QED BY <4>2 DEF n
    <3>3. j \div d = e
      <4> HIDE DEF e
      <4>1. e * r = d * e + e
        BY <1>1, <3>1, SMT
      <4>2. j = d * e + e
        BY <4>1
      <4> HIDE DEF j
      <4>3. e \in 0..(d - 1)
        BY <1>1, <3>1
      <4> QED BY <2>1, <3>1, <3>2, <4>2, <4>3, DivUnique
    <3>4. InGroups(0, L, r, d).group = L + (j \div d)
      <4> HIDE DEF j
      <4>1. ~(0 < n) /\ 0 - n = j
        BY <3>2
      <4>2. InGroups(0, L, r, d) = [group |-> L + (0 - n) \div d, pos |-> (0 - n) % d]
        BY <4>1 DEF InGroups, n
      <4> QED BY <4>1, <4>2
    <3>5. InGroups(0, L, r, d).group = g
      BY <1>1, <3>1, <3>3, <3>4
    <3>6. 0 < all
      <4> SUFFICES r * (A - 1) >= 0
        BY <1>1
      <4> QED BY SMT
    <3> QED BY <3>5, <3>6 DEF d
  <2> QED BY <2>5, <2>6
<1> QED BY <1>3, <1>4

-----------------------------------------------------------------------------
(***************************************************************************)
(* Slots.                                                                  *)
(***************************************************************************)

(* The data blocks of the group that r does not fill up. *)
Rest(c) == c.k - c.r * (Width(c, 0) - 1)

(* It has at least one; where parities are split, there are two groups and  *)
(* r leaves room for the blocks beside them.                               *)
LEMMA RsShape ==
    ASSUME NEW c, IsRs(c)
    PROVE  /\ Width(c, 0) \in Nat \ {0} /\ RsRacks(c, 0) = Width(c, 0) + 1
           /\ Rest(c) \in 1..c.r /\ c.k = c.r * (Width(c, 0) - 1) + Rest(c)
           /\ SmallGroups(c) = c.r - Rest(c)
           /\ SplitsParities(c) => /\ SharesTwoRacks(c) /\ c.r > 2
                                   /\ Rest(c) + 2 <= c.r /\ Width(c, 0) >= 2
<1> DEFINE w == Width(c, 0)
           r == c.r
           k == c.k
           t == Rest(c)
           x == r * (w - 1)
<1>1. r \in Nat \ {0} /\ k \in Nat \ {0} /\ k >= r /\ LevelBound \in Nat
  BY RsSizes
<1>2. w \in Nat \ {0} /\ RsRacks(c, 0) = w + 1 /\ k <= r * w /\ r * (w - 1) < k
  <2>1. /\ w \in Nat \ {0} /\ RsRacks(c, 0) = w + 1 /\ 2^0 * k <= r * w
        /\ r * (w - 1) < 2^0 * k
    <3>1. 0 \in 0..LevelBound
      BY <1>1
    <3> QED BY <3>1, Widths
  <2>2. 2^0 = 1 /\ 1 * k = k
    BY <1>1, PowersAssumption
  <2> HIDE DEF w, k, r
  <2>3. 2^0 * k = k
    BY <2>2
  <2> QED BY <2>1, <2>3
<1>3. x \in Nat /\ r * w = x + r
  <2> HIDE DEF w, r
  <2> QED BY <1>1, <1>2, SMT
<1>4. t \in 1..r /\ k = x + t
  <2>1. t = k - x
    BY DEF Rest
  <2> HIDE DEF x, t, w, r, k
  <2>2. x < k /\ k <= x + r
    BY <1>2, <1>3 DEF x
  <2> QED BY <1>1, <1>3, <2>1, <2>2
<1>5. SmallGroups(c) = r - t
  <2>1. (k + r - 1) % r = t - 1
    <3> DEFINE n == k + r - 1
    <3>1. n = r * w + (t - 1) /\ n \in Nat /\ t - 1 \in 0..(r - 1)
      <4> HIDE DEF x, t, w, r, k
      <4>1. r * w \in Nat
        BY <1>1, <1>3
      <4> DEFINE y == r * w
      <4> HIDE DEF y
      <4>2. y = x + r /\ y \in Nat
        BY <1>3, <4>1 DEF y
      <4>3. n = y + (t - 1) /\ n \in Nat /\ t - 1 \in 0..(r - 1)
        BY <1>1, <1>3, <1>4, <4>2
      <4> QED BY <4>3 DEF y
    <3> HIDE DEF n, t, w, r, k
    <3>2. n % r = t - 1
      BY <1>1, <1>2, <3>1, DivUnique
    <3> QED BY <3>2 DEF n
  <2>2. SmallGroups(c) = r - ((k + r - 1) % r) - 1
    BY DEF SmallGroups
  <2>3. SmallGroups(c) = r - (t - 1) - 1
    BY <2>1, <2>2
  <2> HIDE DEF t, r
  <2> QED BY <1>1, <1>4, <2>3
<1>6. ASSUME SplitsParities(c)
      PROVE  SharesTwoRacks(c) /\ r > 2 /\ t + 2 <= r /\ w >= 2
  <2> DEFINE v == Width(c, 1)
  <2>1. SharesTwoRacks(c) /\ r > 2 /\ RsRounds(c) > 0 /\ NumArry(c, 1) = 2
    BY <1>6 DEF SplitsParities, SharesTwoRacks
  <2>2. 1 \in 1..LevelBound /\ 1 \in 0..LevelBound /\ 0 \in 0..LevelBound /\ 1 - 1 = 0
    BY <1>1, <2>1, Rounds
  <2>3. NumArry(c, 1) = 1 + 2 * w - v
    <3>1. NumArry(c, 1) = 1 + 2 * Width(c, 1 - 1) - v
      BY <2>2, Arrays
    <3> QED BY <2>2, <3>1
  <2>4. v \in Nat /\ 2 * k <= r * v
    <3>1. 2^1 = 2
      <4>1. 2^(0 + 1) = 2 * 2^0 /\ 2^0 = 1
        BY <2>2, PowersAssumption
      <4> QED BY <4>1
    <3>2. v \in Nat /\ 2^1 * k <= r * v
      BY <2>2, Widths
    <3> HIDE DEF v, k, r
    <3> QED BY <3>1, <3>2
  <2> HIDE DEF v, w, r, k, t, x
  <2>5. v = 2 * w - 1
    BY <1>2, <2>1, <2>3, <2>4
  <2>6. r * v = 2 * (r * w) - r
    BY <1>1, <1>2, <2>5, SMT
  <2> DEFINE y == r * w
             z == r * v
  <2>7. y \in Int /\ y = x + r /\ z = 2 * y - r /\ 2 * k <= z
    BY <1>1, <1>3, <2>4, <2>6
  <2> HIDE DEF y, z
  <2>8. 2 * t <= r
    BY <1>1, <1>3, <1>4, <2>7
  <2>9. w >= 2
    <3> SUFFICES ASSUME w = 1 PROVE FALSE
      BY <1>2
    <3>1. x = 0
      BY <1>1 DEF x
    <3> QED BY <1>1, <1>4, <2>8, <3>1
  <2>10. t + 2 <= r
    BY <1>1, <1>4, <2>1, <2>8
  <2> QED BY <2>1, <2>9, <2>10 DEF r
<1> QED BY <1>2, <1>4, <1>5, <1>6 DEF w, r, k, t, x

(* The Max of std::max(0, x). *)
LEMMA LargerOfTwo == \A x \in Nat : Max({0, x}) = x
<1> TAKE x \in Nat
<1>1. x \in {0, x} /\ \A y \in {0, x} : x >= y
  OBVIOUS
<1>2. Max({0, x}) \in {0, x} /\ \A y \in {0, x} : Max({0, x}) >= y
  BY <1>1 DEF Max
<1> QED BY <1>1, <1>2

(* The blocks that the placement puts in groups, their group, and how many *)
(* groups there are.                                                       *)
Grouped(c, i) == i < c.k /\ (SplitsParities(c) => i >= c.r - 2)
GroupCount(c) == IF SplitsParities(c) THEN Width(c, 0) - 1 ELSE Width(c, 0)
Odd(c, sid) == Position(c, sid) % 2 = 1
At(c, sid, i) ==
    IF SplitsParities(c) THEN InGroups(i - (c.r - 2), SmallGroups(c) - 2, c.r - 1, c.r)
    ELSE IF Odd(c, sid) THEN InGroups(i, SmallGroups(c), c.r - 1, c.r)
    ELSE InGroups(i, Width(c, 0) - SmallGroups(c), c.r, c.r - 1)

(* The slot of a grouped block is the column of its group. *)
LEMMA SlotOfGroup ==
    ASSUME NEW c, IsRs(c), NEW sid \in Nat, NEW i \in Nat, Grouped(c, i)
    PROVE  Slot(c, sid, i)
             = [col  |-> (FirstColumn(c, sid) + At(c, sid, i).group) % 17,
                ncol |-> IF ~SplitsParities(c) /\ Odd(c, sid)
                               /\ At(c, sid, i).group < SmallGroups(c)
                         THEN At(c, sid, i).pos + 1 ELSE At(c, sid, i).pos]
<1> DEFINE w == Width(c, 0)
           r == c.r
           k == c.k
           t == Rest(c)
           s == SmallGroups(c)
<1>1. r \in Nat \ {0} /\ k \in Nat \ {0} /\ i < k
  BY RsSizes DEF Grouped
<1>2. /\ w \in Nat \ {0} /\ t \in 1..r /\ k = r * (w - 1) + t /\ s = r - t
      /\ SplitsParities(c) => t + 2 <= r /\ r > 2
  BY RsShape
<1>3. CASE SplitsParities(c)
  <2>1. ~(i < r - 3) /\ i # r - 3
    BY <1>1, <1>3 DEF Grouped
  <2>2. Max({0, s - 2}) = s - 2
    <3>1. s - 2 \in Nat
      BY <1>1, <1>2, <1>3
    <3> HIDE DEF s
    <3> QED BY <3>1, LargerOfTwo
  <2>3. Slot(c, sid, i) = TwoRacksSlot(c, sid, i)
    BY <1>3 DEF Slot
  <2>4. At(c, sid, i) = InGroups(i - (r - 2), s - 2, r - 1, r)
    BY <1>3 DEF At
  <2> QED BY <1>1, <1>3, <2>1, <2>2, <2>3, <2>4 DEF TwoRacksSlot
<1>4. CASE ~SplitsParities(c)
  <2>1. Slot(c, sid, i) = OneRackSlot(c, sid, i)
    BY <1>4 DEF Slot
  <2>2. CeilDiv(k - s * (r - 1), r) = w - s
    <3>1. k = s * (r - 1) + r * (w - s)
      <4> HIDE DEF w, t, k, r
      <4>1. r * (w - 1) + t = (r - t) * (r - 1) + r * (w - (r - t))
        BY <1>1, <1>2, Amount
      <4> HIDE DEF s
      <4> QED BY <1>2, <4>1
    <3> DEFINE a == s * (r - 1)
               b == r * (w - s)
               y == w - s
    <3>2. s \in Nat /\ s \in Int /\ y \in Int
      BY <1>1, <1>2
    <3> HIDE DEF s, w, r, k
    <3>3. a \in Int /\ b \in Int
      BY <1>1, <1>2, <3>2, SMT
    <3>4. k - a = b
      <4> HIDE DEF a, b
      <4>1. k = a + b
        BY <3>1 DEF a, b
      <4> QED BY <3>3, <4>1
    <3> HIDE DEF y
    <3>5. (r * y + r - 1) \div r = y
      BY <1>1, <3>2, SMT
    <3>6. b = r * y
      BY DEF y
    <3> HIDE DEF a, b
    <3>7. CeilDiv(k - a, r) = y
      BY <3>4, <3>5, <3>6 DEF CeilDiv
    <3> QED BY <3>7 DEF a, y
  <2>3. At(c, sid, i) = IF Odd(c, sid) THEN InGroups(i, s, r - 1, r)
                        ELSE InGroups(i, w - s, r, r - 1)
    BY <1>4 DEF At
  <2>4. ~(i >= k)
    BY <1>1
  <2> QED BY <1>4, <2>1, <2>2, <2>3, <2>4 DEF OneRackSlot, Odd
<1> QED BY <1>3, <1>4

(* The grouped blocks of a split stripe are those of a stripe with one     *)
(* group of data less.                                                     *)
LEMMA SplitAmount ==
    ASSUME NEW c, IsRs(c), SplitsParities(c)
    PROVE  /\ Width(c, 0) - 1 \in Nat \ {0} /\ Rest(c) + 2 \in 1..c.r
           /\ SmallGroups(c) - 2 = c.r - (Rest(c) + 2)
           /\ c.k - (c.r - 2) = c.r * ((Width(c, 0) - 1) - 1) + (Rest(c) + 2)
<1> DEFINE w == Width(c, 0)
           r == c.r
           k == c.k
           t == Rest(c)
           s == SmallGroups(c)
<1>1. r \in Nat \ {0} /\ k \in Nat \ {0}
  BY RsSizes
<1>2. /\ w \in Nat \ {0} /\ t \in 1..r /\ k = r * (w - 1) + t /\ s = r - t
      /\ t + 2 <= r /\ r > 2 /\ w >= 2
  BY RsShape
<1> HIDE DEF w, r, k, t, s
<1>3. r * (w - 1) = r * ((w - 1) - 1) + r
  BY <1>1, <1>2, SMT
<1>4. k - (r - 2) = r * ((w - 1) - 1) + (t + 2)
  <2> DEFINE x == r * (w - 1)
             y == r * ((w - 1) - 1)
  <2>1. y \in Int
    BY <1>1, <1>2, SMT
  <2> HIDE DEF x, y
  <2>2. x = y + r /\ k = x + t
    BY <1>2, <1>3 DEF x, y
  <2>3. k - (r - 2) = y + (t + 2)
    BY <1>1, <1>2, <2>1, <2>2
  <2> QED BY <2>3 DEF y
<1>5. w - 1 \in Nat \ {0} /\ t + 2 \in 1..r /\ s - 2 = r - (t + 2)
  BY <1>1, <1>2
<1> QED BY <1>4, <1>5 DEF w, r, k, t, s

(* InGroups gives the one or the other arrangement. *)
LEMMA InGroupsAt ==
    \A r \in Nat \ {0}, A \in Nat \ {0} : \A u \in 1..r : \A i \in Nat :
       i < r * (A - 1) + u =>
          /\ SmallFirstAt(r, A, u, i, InGroups(i, r - u, r - 1, r))
          /\ LargeFirstAt(r, A, A - (r - u), i, InGroups(i, A - (r - u), r, r - 1))
BY SmallFirst, LargeFirst

(* The grouped blocks have the groups, and the node columns of a group are *)
(* apart.                                                                  *)
LEMMA GroupedSlots ==
    ASSUME NEW c, IsRs(c), NEW sid \in Nat, NEW i \in Nat, Grouped(c, i)
    PROVE  /\ At(c, sid, i).group \in 0..(GroupCount(c) - 1)
           /\ Slot(c, sid, i).ncol \in 0..(c.r - 1)
           /\ \A j \in Nat :
                 Grouped(c, j) /\ At(c, sid, i).group = At(c, sid, j).group
                   /\ Slot(c, sid, i).ncol = Slot(c, sid, j).ncol => i = j
<1> DEFINE w == Width(c, 0)
           r == c.r
           k == c.k
           t == Rest(c)
           s == SmallGroups(c)
<1>1. r \in Nat \ {0} /\ k \in Nat \ {0}
  BY RsSizes
<1>2. /\ w \in Nat \ {0} /\ t \in 1..r /\ k = r * (w - 1) + t /\ s = r - t
      /\ SplitsParities(c) => t + 2 <= r /\ r > 2
  BY RsShape
<1>3. CASE SplitsParities(c)
  <2> DEFINE A == w - 1
             u == t + 2
  <2>1. A \in Nat \ {0} /\ u \in 1..r /\ s - 2 = r - u /\ k - (r - 2) = r * (A - 1) + u
    BY <1>3, SplitAmount
  <2>2. ASSUME NEW j \in Nat, Grouped(c, j)
        PROVE  LET at == At(c, sid, j)
                   x == j - (r - 2)
               IN  /\ at.group \in 0..(A - 1) /\ at.pos \in 0..(r - 1)
                   /\ at.group < r - u => x = (r - 1) * at.group + at.pos
                   /\ ~(at.group < r - u) =>
                        x = (r - u) * (r - 1) + r * (at.group - (r - u)) + at.pos
                   /\ Slot(c, sid, j).ncol = at.pos
    <3> DEFINE at == At(c, sid, j)
               x == j - (r - 2)
    <3>1. at = InGroups(x, s - 2, r - 1, r)
      BY <1>3 DEF At
    <3>2. j < k /\ j >= r - 2
      BY <1>3, <2>2 DEF Grouped
    <3>3. x \in Nat /\ x < r * (A - 1) + u
      <4> HIDE DEF r, k, A, u
      <4>1. x \in Nat /\ x < k - (r - 2)
        BY <1>1, <3>2
      <4> QED BY <2>1, <4>1
    <3>4. Slot(c, sid, j).ncol = at.pos
      BY <1>3, <2>2, SlotOfGroup
    <3>5. at = InGroups(x, r - u, r - 1, r)
      BY <2>1, <3>1
    <3> HIDE DEF at, x, A, u, r
    <3>6. /\ at.group \in 0..(A - 1) /\ at.pos \in 0..(r - 1)
          /\ at.group < r - u => x = (r - 1) * at.group + at.pos
          /\ ~(at.group < r - u) => x = (r - u) * (r - 1) + r * (at.group - (r - u)) + at.pos
      <4>1. SmallFirstAt(r, A, u, x, InGroups(x, r - u, r - 1, r))
        BY <1>1, <2>1, <3>3, InGroupsAt
      <4> QED BY <3>5, <4>1 DEF SmallFirstAt
    <3> QED BY <3>4, <3>6 DEF at, x
  <2>3. GroupCount(c) = A
    BY <1>3 DEF GroupCount
  <2>4. ASSUME NEW j \in Nat, Grouped(c, j), At(c, sid, i).group = At(c, sid, j).group,
               Slot(c, sid, i).ncol = Slot(c, sid, j).ncol
        PROVE  i = j
    <3> DEFINE a == At(c, sid, i)
               b == At(c, sid, j)
    <3>1. a.group = b.group /\ a.pos = b.pos
      BY <2>2, <2>4
    <3>2. i - (r - 2) = j - (r - 2)
      <4> HIDE DEF r, u, A
      <4>1. CASE a.group < r - u
        BY <2>2, <2>4, <3>1, <4>1
      <4>2. CASE ~(a.group < r - u)
        BY <2>2, <2>4, <3>1, <4>2
      <4> QED BY <4>1, <4>2
    <3> HIDE DEF r
    <3> QED BY <1>1, <3>2
  <2>5. At(c, sid, i).group \in 0..(A - 1) /\ Slot(c, sid, i).ncol \in 0..(r - 1)
    BY <2>2
  <2> QED BY <2>3, <2>4, <2>5
<1>4. CASE ~SplitsParities(c)
  <2>1. GroupCount(c) = w
    BY <1>4 DEF GroupCount
  <2>2. \A j \in Nat : Grouped(c, j) => j < r * (w - 1) + t
    BY <1>2 DEF Grouped
  <2>3. CASE Odd(c, sid)
    <3>1. ASSUME NEW j \in Nat, Grouped(c, j)
          PROVE  LET at == At(c, sid, j)
                 IN  /\ at.group \in 0..(w - 1) /\ at.pos \in 0..(r - 1)
                     /\ at.group < s => /\ j = (r - 1) * at.group + at.pos
                                        /\ at.pos < r - 1
                                        /\ Slot(c, sid, j).ncol = at.pos + 1
                     /\ ~(at.group < s) =>
                          /\ j = s * (r - 1) + r * (at.group - s) + at.pos
                          /\ Slot(c, sid, j).ncol = at.pos
      <4> DEFINE at == At(c, sid, j)
      <4>1. at = InGroups(j, s, r - 1, r)
        BY <1>4, <2>3 DEF At
      <4>2. Slot(c, sid, j).ncol = IF at.group < s THEN at.pos + 1 ELSE at.pos
        BY <1>4, <2>3, <3>1, SlotOfGroup
      <4>3. at = InGroups(j, r - t, r - 1, r) /\ j < r * (w - 1) + t
        BY <1>2, <2>2, <3>1, <4>1
      <4> HIDE DEF at, w, r, t, s
      <4>4. /\ at.group \in 0..(w - 1) /\ at.pos \in 0..(r - 1)
            /\ at.group < r - t => at.pos < r - 1 /\ j = (r - 1) * at.group + at.pos
            /\ ~(at.group < r - t) =>
                 j = (r - t) * (r - 1) + r * (at.group - (r - t)) + at.pos
        <5>1. SmallFirstAt(r, w, t, j, InGroups(j, r - t, r - 1, r))
          BY <1>1, <1>2, <4>3, InGroupsAt
        <5> QED BY <4>3, <5>1 DEF SmallFirstAt
      <4> QED BY <1>2, <4>2, <4>4 DEF at
    <3>2. ASSUME NEW j \in Nat, Grouped(c, j), At(c, sid, i).group = At(c, sid, j).group,
                 Slot(c, sid, i).ncol = Slot(c, sid, j).ncol
          PROVE  i = j
      <4> DEFINE a == At(c, sid, i)
                 b == At(c, sid, j)
      <4> HIDE DEF r, s, w
      <4>1. CASE a.group < s
        <5>1. a.pos + 1 = b.pos + 1 /\ a.pos \in Int /\ b.pos \in Int
          BY <3>1, <3>2, <4>1
        <5>2. a.pos = b.pos
          BY <5>1
        <5> QED BY <3>1, <3>2, <4>1, <5>2
      <4>2. CASE ~(a.group < s)
        BY <3>1, <3>2, <4>2
      <4> QED BY <4>1, <4>2
    <3>3. At(c, sid, i).group \in 0..(w - 1) /\ Slot(c, sid, i).ncol \in 0..(r - 1)
      <4> DEFINE a == At(c, sid, i)
      <4> HIDE DEF r, s, w
      <4>1. CASE a.group < s
        <5>1. a.pos \in 0..(r - 1) /\ a.pos < r - 1 /\ Slot(c, sid, i).ncol = a.pos + 1
          BY <3>1, <4>1
        <5>2. a.pos + 1 \in 0..(r - 1)
          BY <1>1, <5>1
        <5> QED BY <3>1, <5>1, <5>2
      <4>2. CASE ~(a.group < s)
        BY <3>1, <4>2
      <4> QED BY <4>1, <4>2
    <3> QED BY <2>1, <3>2, <3>3
  <2>4. CASE ~Odd(c, sid)
    <3> DEFINE L == w - s
    <3>1. ASSUME NEW j \in Nat, Grouped(c, j)
          PROVE  LET at == At(c, sid, j)
                 IN  /\ at.group \in 0..(w - 1) /\ at.pos \in 0..(r - 1)
                     /\ at.group < L => j = r * at.group + at.pos
                     /\ ~(at.group < L) =>
                           j = L * r + (r - 1) * (at.group - L) + at.pos
                     /\ Slot(c, sid, j).ncol = at.pos
      <4> DEFINE at == At(c, sid, j)
      <4>1. at = InGroups(j, L, r, r - 1)
        BY <1>4, <2>4 DEF At
      <4>2. Slot(c, sid, j).ncol = at.pos
        BY <1>4, <2>4, <3>1, SlotOfGroup
      <4>3. L = w - (r - t) /\ j < r * (w - 1) + t
        BY <1>2, <2>2, <3>1
      <4> HIDE DEF at, w, r, t, s, L
      <4>4. /\ at.group \in 0..(w - 1) /\ at.pos \in 0..(r - 1)
            /\ at.group < L => j = r * at.group + at.pos
            /\ ~(at.group < L) => at.pos < r - 1
                                 /\ j = L * r + (r - 1) * (at.group - L) + at.pos
        <5>1. LargeFirstAt(r, w, w - (r - t), j, InGroups(j, w - (r - t), r, r - 1))
          BY <1>1, <1>2, <3>1, <4>3, InGroupsAt
        <5> QED BY <4>1, <4>3, <5>1 DEF LargeFirstAt
      <4> QED BY <4>2, <4>4 DEF at
    <3>2. ASSUME NEW j \in Nat, Grouped(c, j), At(c, sid, i).group = At(c, sid, j).group,
                 Slot(c, sid, i).ncol = Slot(c, sid, j).ncol
          PROVE  i = j
      <4> DEFINE a == At(c, sid, i)
                 b == At(c, sid, j)
      <4> HIDE DEF r, s, w, L
      <4>1. CASE a.group < L
        BY <3>1, <3>2, <4>1
      <4>2. CASE ~(a.group < L)
        BY <3>1, <3>2, <4>2
      <4> QED BY <4>1, <4>2
    <3>3. At(c, sid, i).group \in 0..(w - 1) /\ Slot(c, sid, i).ncol \in 0..(r - 1)
      BY <3>1
    <3> QED BY <2>1, <3>2, <3>3
  <2> QED BY <2>3, <2>4
<1> QED BY <1>3, <1>4

(* Every group gets a block. *)
LEMMA GroupsReached ==
    ASSUME NEW c, IsRs(c), NEW sid \in Nat, NEW g \in 0..(GroupCount(c) - 1)
    PROVE  \E i \in Nat : Grouped(c, i) /\ At(c, sid, i).group = g
<1> DEFINE w == Width(c, 0)
           r == c.r
           k == c.k
           t == Rest(c)
           s == SmallGroups(c)
<1>1. r \in Nat \ {0} /\ k \in Nat \ {0}
  BY RsSizes
<1>2. w \in Nat \ {0} /\ t \in 1..r /\ k = r * (w - 1) + t /\ s = r - t
  BY RsShape
<1>3. CASE SplitsParities(c)
  <2> DEFINE A == w - 1
             u == t + 2
  <2>1. A \in Nat \ {0} /\ u \in 1..r /\ s - 2 = r - u /\ k - (r - 2) = r * (A - 1) + u
    BY <1>3, SplitAmount
  <2>2. g \in 0..(A - 1) /\ r - 2 \in Nat
    <3>1. GroupCount(c) = A
      BY <1>3 DEF GroupCount
    <3>2. r > 2
      BY <1>3 DEF SplitsParities
    <3> HIDE DEF A
    <3> QED BY <1>1, <3>1, <3>2
  <2> HIDE DEF A, u, r, k, s
  <2>3. PICK x \in Nat : x < r * (A - 1) + u /\ InGroups(x, r - u, r - 1, r).group = g
    <3>1. \E x \in Nat : x < r * (A - 1) + u /\ InGroups(x, r - u, r - 1, r).group = g
      <4>1. r \in Nat \ {0} /\ A \in Nat \ {0} /\ u \in 1..r /\ g \in 0..(A - 1)
        BY <1>1, <2>1, <2>2, Zenon
      <4> QED BY <4>1, SmallFirstAll, Zenon
    <3> QED BY <3>1, Zenon
  <2> DEFINE i == x + (r - 2)
  <2>4. i \in Nat /\ i < k /\ i >= r - 2 /\ i - (r - 2) = x
    BY <1>1, <2>1, <2>2, <2>3
  <2> HIDE DEF i
  <2>5. Grouped(c, i) /\ At(c, sid, i).group = g
    BY <1>3, <2>1, <2>3, <2>4 DEF Grouped, At, r, k, s
  <2> QED BY <2>4, <2>5
<1>4. CASE ~SplitsParities(c)
  <2>1. g \in 0..(w - 1)
    BY <1>4 DEF GroupCount
  <2> HIDE DEF w, r, k, s, t
  <2>2. CASE Odd(c, sid)
    <3>1. PICK i \in Nat : i < r * (w - 1) + t /\ InGroups(i, r - t, r - 1, r).group = g
      <4>1. r \in Nat \ {0} /\ w \in Nat \ {0} /\ t \in 1..r
        BY <1>1, <1>2, Zenon
      <4>2. \E i \in Nat : i < r * (w - 1) + t /\ InGroups(i, r - t, r - 1, r).group = g
        BY <2>1, <4>1, SmallFirstAll, Zenon
      <4> QED BY <4>2, Zenon
    <3>2. Grouped(c, i) /\ At(c, sid, i).group = g
      BY <1>2, <1>4, <2>2, <3>1 DEF Grouped, At, r, k, s
    <3> QED BY <3>2
  <2>3. CASE ~Odd(c, sid)
    <3> DEFINE L == w - (r - t)
    <3>1. L = w - (r - t) /\ L = w - s
      BY <1>2
    <3>2. PICK i \in Nat : i < r * (w - 1) + t /\ InGroups(i, L, r, r - 1).group = g
      <4>1. r \in Nat \ {0} /\ w \in Nat \ {0} /\ t \in 1..r
        BY <1>1, <1>2, Zenon
      <4>2. \E i \in Nat : i < r * (w - 1) + t /\ InGroups(i, w - (r - t), r, r - 1).group = g
        BY <2>1, <4>1, LargeFirstAll, Zenon
      <4> QED BY <4>2, Zenon
    <3> HIDE DEF L
    <3>3. Grouped(c, i) /\ At(c, sid, i).group = g
      BY <1>2, <1>4, <2>3, <3>1, <3>2 DEF Grouped, At, r, k, s, w
    <3> QED BY <3>3
  <2> QED BY <2>2, <2>3
<1> QED BY <1>3, <1>4

(* Parities and, where they are on two racks, the data beside them. *)
LEMMA OtherSlots ==
    ASSUME NEW c, IsRs(c), NEW sid \in Nat, NEW i \in 0..(c.k + c.r - 1), ~Grouped(c, i)
    PROVE  /\ i >= c.k \/ (i < c.r - 2 /\ SplitsParities(c))
           /\ Slot(c, sid, i).col \in (IF SplitsParities(c) THEN 0..1 ELSE {0})
           /\ Slot(c, sid, i).ncol \in 0..(c.r - 1)
           /\ \A j \in 0..(c.k + c.r - 1) :
                 ~Grouped(c, j) /\ Slot(c, sid, i) = Slot(c, sid, j) => i = j
<1> DEFINE r == c.r
           k == c.k
<1>1. r \in Nat \ {0} /\ k \in Nat \ {0} /\ k >= r
  BY RsSizes
<1>2. CASE ~SplitsParities(c)
  <2>1. ASSUME NEW j \in 0..(k + r - 1), ~Grouped(c, j)
        PROVE  Slot(c, sid, j) = [col |-> 0, ncol |-> j - k] /\ j >= k
    BY <1>1, <1>2, <2>1 DEF Grouped, Slot, OneRackSlot
  <2>2. Slot(c, sid, i) = [col |-> 0, ncol |-> i - k] /\ i >= k
    BY <2>1
  <2>3. ASSUME NEW j \in 0..(k + r - 1), ~Grouped(c, j), Slot(c, sid, i) = Slot(c, sid, j)
        PROVE  i = j
    <3>1. i - k = j - k
      BY <2>1, <2>2, <2>3
    <3> HIDE DEF k, r
    <3> QED BY <1>1, <3>1
  <2> QED BY <1>1, <1>2, <2>2, <2>3
<1>3. CASE SplitsParities(c)
  <2>1. r > 2 /\ r \in Nat
    BY <1>1, <1>3 DEF SplitsParities
  <2>2. ASSUME NEW j \in 0..(k + r - 1), ~Grouped(c, j)
        PROVE  /\ j \in Nat /\ (j >= k \/ j < r - 2)
               /\ j < r - 3 => Slot(c, sid, j) = [col |-> 0,
                                                  ncol |-> IF Odd(c, sid) THEN 2 + j ELSE 3 + j]
               /\ j = r - 3 => Slot(c, sid, j) = [col |-> 1, ncol |-> IF Odd(c, sid) THEN 0 ELSE 1]
               /\ j >= k /\ j <= k + 1 => Slot(c, sid, j) = [col |-> 0, ncol |-> j - k]
               /\ j > k + 1 => Slot(c, sid, j) = [col |-> 1, ncol |-> j - k]
    <3>1. j \in Nat /\ (j >= k \/ j < r - 2)
      BY <1>1, <1>3, <2>2 DEF Grouped
    <3>2. Slot(c, sid, j) = TwoRacksSlot(c, sid, j)
      BY <1>3 DEF Slot
    <3>3. j < r - 3 => Slot(c, sid, j) = [col |-> 0, ncol |-> IF Odd(c, sid) THEN 2 + j ELSE 3 + j]
      BY <3>2 DEF TwoRacksSlot, Odd
    <3>4. j = r - 3 => Slot(c, sid, j) = [col |-> 1, ncol |-> IF Odd(c, sid) THEN 0 ELSE 1]
      BY <2>1, <3>2 DEF TwoRacksSlot, Odd
    <3>5. j >= k /\ j <= k + 1 => Slot(c, sid, j) = [col |-> 0, ncol |-> j - k]
      <4> SUFFICES ASSUME j >= k, j <= k + 1
                   PROVE  Slot(c, sid, j) = [col |-> 0, ncol |-> j - k]
        OBVIOUS
      <4>1. ~(j < r - 3) /\ j # r - 3 /\ ~(j < k)
        BY <1>1, <3>1
      <4> QED BY <3>2, <4>1 DEF TwoRacksSlot
    <3>6. j > k + 1 => Slot(c, sid, j) = [col |-> 1, ncol |-> j - k]
      <4> SUFFICES ASSUME j > k + 1
                   PROVE  Slot(c, sid, j) = [col |-> 1, ncol |-> j - k]
        OBVIOUS
      <4>1. ~(j < r - 3) /\ j # r - 3 /\ ~(j < k) /\ ~(j <= k + 1)
        BY <1>1, <3>1
      <4>2. 2 + ((j - k - 2) % (r - 2)) = j - k
        <5> DEFINE x == j - k - 2
                   d == r - 2
        <5>1. x \in Nat /\ d \in Nat \ {0} /\ x < d
          BY <1>1, <2>1
        <5>2. x % d = x
          <6> HIDE DEF x, d
          <6>1. x = d * 0 + x /\ x \in 0..(d - 1)
            BY <5>1
          <6> QED BY <5>1, <6>1, DivUnique
        <5> QED BY <1>1, <5>2
      <4> QED BY <3>2, <4>1, <4>2 DEF TwoRacksSlot
    <3> QED BY <3>1, <3>3, <3>4, <3>5, <3>6
  <2>3. i >= k \/ i < r - 2
    BY <2>2
  <2>4. Slot(c, sid, i).col \in 0..1 /\ Slot(c, sid, i).ncol \in 0..(r - 1)
    <3>1. i < r - 3 \/ i = r - 3 \/ (i >= k /\ i <= k + 1) \/ i > k + 1
      BY <1>1, <2>3
    <3>6. i \in 0..(k + r - 1)
      OBVIOUS
    <3> HIDE DEF r, k
    <3>2. CASE i < r - 3
      BY <1>1, <2>1, <2>2, <3>2
    <3>3. CASE i = r - 3
      BY <1>1, <2>1, <2>2, <3>3
    <3>4. CASE i >= k /\ i <= k + 1
      BY <1>1, <2>1, <2>2, <3>4
    <3>5. CASE i > k + 1
      BY <1>1, <2>1, <2>2, <3>5, <3>6
    <3> QED BY <3>1, <3>2, <3>3, <3>4, <3>5
  <2>5. ASSUME NEW j \in 0..(k + r - 1), ~Grouped(c, j), Slot(c, sid, i) = Slot(c, sid, j)
        PROVE  i = j
    <3> DEFINE Where(x) == /\ x \in Nat
                           /\ \/ x < r - 3 /\ Slot(c, sid, x).col = 0
                                 /\ Slot(c, sid, x).ncol = IF Odd(c, sid) THEN 2 + x ELSE 3 + x
                              \/ x = r - 3 /\ Slot(c, sid, x).col = 1
                                 /\ Slot(c, sid, x).ncol = IF Odd(c, sid) THEN 0 ELSE 1
                              \/ x >= k /\ x <= k + 1 /\ Slot(c, sid, x).col = 0
                                 /\ Slot(c, sid, x).ncol = x - k
                              \/ x > k + 1 /\ Slot(c, sid, x).col = 1 
                                 /\ Slot(c, sid, x).ncol = x - k
    <3>1. ASSUME NEW x \in 0..(k + r - 1), ~Grouped(c, x)
          PROVE  Where(x)
      <4>1. x \in Nat /\ (x < r - 3 \/ x = r - 3 \/ (x >= k /\ x <= k + 1) \/ x > k + 1)
        BY <1>1, <2>1, <2>2, <3>1
      <4> HIDE DEF r, k
      <4>2. CASE x < r - 3
        BY <2>2, <3>1, <4>1, <4>2
      <4>3. CASE x = r - 3
        BY <2>2, <3>1, <4>1, <4>3
      <4>4. CASE x >= k /\ x <= k + 1
        BY <2>2, <3>1, <4>1, <4>4
      <4>5. CASE x > k + 1
        BY <2>2, <3>1, <4>1, <4>5
      <4> QED BY <4>1, <4>2, <4>3, <4>4, <4>5
    <3>2. Where(i) /\ Where(j)
      BY <2>5, <3>1
    <3> DEFINE p == Slot(c, sid, i)
    <3>3. Slot(c, sid, j) = p
      BY <2>5
    <3> HIDE DEF r, k, p
    <3> QED BY <1>1, <2>1, <3>2, <3>3 DEF p
  <2> QED BY <1>3, <2>3, <2>4, <2>5
<1> QED BY <1>2, <1>3

(* A position is one of the batch. *)
LEMMA PositionInBatch ==
    ASSUME NEW c, IsRs(c), NEW sid \in Nat
    PROVE  Position(c, sid) \in 1..BatchSize(c) /\ Start(c, Position(c, sid)) \in Int
<1>1. BatchSize(c) \in Nat \ {0}
  BY Rounds
<1>2. sid % BatchSize(c) \in 0..(BatchSize(c) - 1)
  BY <1>1, DivMod
<1>3. Position(c, sid) \in 1..BatchSize(c)
  BY <1>1, <1>2 DEF Position
<1> QED BY <1>3, StartIsInt

(* The data columns of all positions are behind those of the parities, and *)
(* the last is at most the last rack of a row.                             *)
LEMMA ColumnRange ==
    ASSUME NEW c, IsRs(c), FitsRacks(c), NEW sid \in Nat, NEW g \in 0..(GroupCount(c) - 1)
    PROVE  FirstColumn(c, sid) + g \in (IF SplitsParities(c) THEN 2 ELSE 1)..16
<1> DEFINE B == BatchSize(c)
           N == RsRounds(c)
           w == Width(c, 0)
           v == Width(c, N)
           p == Position(c, sid)
<1>1. B \in Nat \ {0} /\ B = 2^N /\ N \in 0..LevelBound /\ p \in 1..B
  BY Rounds, PositionInBatch
<1>2. w \in Nat \ {0} /\ RsRacks(c, 0) = w + 1 /\ v \in Nat \ {0} /\ RsRacks(c, N) = v + 1
  BY <1>1, Widths, RsSizes
<1>3. v <= 16
  <2>1. CASE N = 0
    BY <1>2, <2>1 DEF FitsRacks
  <2>2. CASE N # 0
    <3>1. RsRacks(c, N) <= 17
      BY <1>1, <2>2, Rounds, RsSizes DEF FitsRacks
    <3> QED BY <1>2, <3>1
  <2> QED BY <2>1, <2>2
<1>4. /\ Start(c, 1) \in Int /\ Start(c, p) \in Int /\ Start(c, B) \in Int
      /\ Start(c, 1) <= Start(c, p) /\ Start(c, p) <= Start(c, B)
  <2>1. 1 \in 1..B /\ B \in 1..B /\ 1 <= p /\ p <= B
    BY <1>1
  <2> HIDE DEF B, p
  <2> QED BY <2>1, <1>1, StartIsInt, StartsInOrder DEF B
<1>5. Start(c, B) - Start(c, 1) + w <= v
  <2>1. N \in 0..RsRounds(c) /\ 0 % 2^N = 0 /\ 0 + 2^N = B /\ 0 + 1 = 1
    BY <1>1
  <2>2. Start(c, 0 + 2^N) - Start(c, 0 + 1) + w <= v
    BY <2>1, Span
  <2> QED BY <2>1, <2>2
<1>6. FirstColumn(c, sid) = Start(c, p)
  BY StartOfStripe
<1>7. CASE SharesTwoRacks(c)
  <2>1. Start(c, 1) = 2 /\ Start(c, B) = (B - 1) * (w - 1) + 2
    <3>1. 1 - 1 = 0 /\ w + 1 - 2 = w - 1 /\ w - 1 \in Int
      BY <1>2
    <3>2. Start(c, 1) = 0 * (w - 1) + 2 /\ Start(c, B) = (B - 1) * (w - 1) + 2
      BY <1>2, <1>7, <3>1 DEF Start
    <3> HIDE DEF w, B
    <3>3. 0 * (w - 1) = 0
      BY <3>1
    <3> QED BY <3>2, <3>3
  <2>2. CASE SplitsParities(c)
    <3>1. g \in 0..(w - 1 - 1)
      BY <2>2 DEF GroupCount
    <3> HIDE DEF w, v, B, p
    <3> QED BY <1>2, <1>3, <1>4, <1>5, <1>6, <2>1, <2>2, <3>1
  <2>3. CASE ~SplitsParities(c)
    <3>1. g \in 0..(w - 1)
      BY <2>3 DEF GroupCount
    <3>2. PICK h \in Nat : B = 2 * h
      <4>1. N > 0 /\ N - 1 \in 0..LevelBound /\ N - 1 + 1 = N
        BY <1>1, <1>7, RsSizes DEF SharesTwoRacks
      <4>2. 2^(N - 1) \in Nat \ {0} /\ 2^(N - 1 + 1) = 2 * 2^(N - 1)
        BY <4>1, PowersAssumption
      <4>3. B = 2 * 2^(N - 1)
        BY <1>1, <4>1, <4>2
      <4> QED BY <4>2, <4>3
    <3> DEFINE x == h * (w - 1)
    <3> HIDE DEF w, v, B, p
    <3>3. (B - 1) * (w - 1) = 2 * x - (w - 1) /\ x \in Int
      BY <1>2, <3>2, SMT DEF x
    <3> HIDE DEF x
    <3>4. Start(c, B) + w - 1 = 2 * x + 2
      BY <1>2, <2>1, <3>3
    <3>5. 2 * x + 2 <= 17
      BY <1>2, <1>3, <1>4, <1>5, <2>1, <3>4
    <3>6. 2 * x + 2 <= 16
      BY <3>3, <3>5
    <3> QED BY <1>2, <1>4, <1>6, <2>1, <2>3, <3>1, <3>4, <3>6
  <2> QED BY <2>2, <2>3
<1>8. CASE ~SharesTwoRacks(c)
  <2>1. ~SplitsParities(c)
    BY <1>8 DEF SplitsParities
  <2>2. g \in 0..(w - 1)
    BY <2>1 DEF GroupCount
  <2>3. Start(c, 1) = 1
    <3>1. 1 - 1 = 0 /\ Overlaps(c)[0] = 0
      BY OverlapsByPosition
    <3>2. Start(c, 1) = 0 * (w + 1 - 1) + 1 - 0
      BY <1>2, <1>8, <3>1 DEF Start
    <3> HIDE DEF w
    <3> QED BY <1>2, <3>2
  <2> HIDE DEF w, v, B, p
  <2> QED BY <1>2, <1>3, <1>4, <1>5, <1>6, <2>1, <2>2, <2>3
<1> QED BY <1>7, <1>8

(* The column of a block in a group. *)
LEMMA ColumnOfGroup ==
    ASSUME NEW c, IsRs(c), FitsRacks(c), NEW sid \in Nat, NEW i \in Nat, Grouped(c, i)
    PROVE  /\ Slot(c, sid, i).col = FirstColumn(c, sid) + At(c, sid, i).group
           /\ Slot(c, sid, i).col \in (IF SplitsParities(c) THEN 2 ELSE 1)..16
           /\ At(c, sid, i).group \in 0..(GroupCount(c) - 1)
<1> DEFINE g == At(c, sid, i).group
           x == FirstColumn(c, sid) + g
<1>1. g \in 0..(GroupCount(c) - 1)
  BY GroupedSlots
<1>2. Slot(c, sid, i).col = x % 17
  BY SlotOfGroup
<1>3. x \in (IF SplitsParities(c) THEN 2 ELSE 1)..16
  <2> HIDE DEF g
  <2> QED BY <1>1, ColumnRange
<1>4. x % 17 = x
  <2> HIDE DEF x
  <2>1. x \in Nat /\ x \in 0..(17 - 1) /\ x = 17 * 0 + x
    BY <1>3
  <2> QED BY <2>1, DivUnique
<1> QED BY <1>1, <1>2, <1>3, <1>4

(* A column of the row and a node column below r for every block. *)
LEMMA SlotRange ==
    ASSUME NEW c, IsRs(c), NEW sid \in Nat, NEW i \in 0..(c.k + c.r - 1)
    PROVE  Slot(c, sid, i).col \in 0..16 /\ Slot(c, sid, i).ncol \in 0..(c.r - 1)
<1>1. i \in Nat /\ c.r \in Nat \ {0}
  BY RsSizes
<1>2. CASE Grouped(c, i)
  <2> DEFINE x == FirstColumn(c, sid) + At(c, sid, i).group
  <2>1. Slot(c, sid, i).col = x % 17
    BY <1>1, <1>2, SlotOfGroup
  <2>2. x \in Int
    <3>1. FirstColumn(c, sid) \in Int
      BY StartOfStripe, PositionInBatch
    <3>2. At(c, sid, i).group \in 0..(GroupCount(c) - 1)
      BY <1>1, <1>2, GroupedSlots
    <3> QED BY <3>1, <3>2
  <2>3. x % 17 \in 0..16
    <3> HIDE DEF x
    <3> QED BY <2>2
  <2> QED BY <1>1, <1>2, <2>1, <2>3, GroupedSlots
<1>3. CASE ~Grouped(c, i)
  BY <1>3, OtherSlots
<1> QED BY <1>2, <1>3

(* No two blocks of a stripe share a slot. *)
LEMMA SlotsApart ==
    ASSUME NEW c, IsRs(c), FitsRacks(c), NEW sid \in Nat,
           NEW i \in 0..(c.k + c.r - 1), NEW j \in 0..(c.k + c.r - 1),
           Slot(c, sid, i).col = Slot(c, sid, j).col,
           Slot(c, sid, i).ncol = Slot(c, sid, j).ncol
    PROVE  i = j
<1>1. i \in Nat /\ j \in Nat
  BY RsSizes
<1>2. CASE Grouped(c, i) /\ Grouped(c, j)
  <2> DEFINE a == At(c, sid, i).group
             b == At(c, sid, j).group
             x == FirstColumn(c, sid)
  <2>1. x + a = x + b /\ a \in 0..(GroupCount(c) - 1) /\ b \in 0..(GroupCount(c) - 1)
    BY <1>1, <1>2, ColumnOfGroup
  <2>2. x \in Int
    BY StartOfStripe, PositionInBatch
  <2>3. a = b
    <3> HIDE DEF a, b, x
    <3> QED BY <2>1, <2>2
  <2> QED BY <1>1, <1>2, <2>3, GroupedSlots
<1>3. CASE ~Grouped(c, i) /\ ~Grouped(c, j)
  <2>1. Slot(c, sid, i) = Slot(c, sid, j)
    <3>1. \A x \in Int : Slot(c, sid, x) = [col |-> Slot(c, sid, x).col, ncol |-> Slot(c, sid, x).ncol]
      BY DEF Slot, OneRackSlot, TwoRacksSlot
    <3> QED BY <1>1, <3>1
  <2> QED BY <1>3, <2>1, OtherSlots
<1>4. ASSUME NEW x \in 0..(c.k + c.r - 1), NEW y \in 0..(c.k + c.r - 1),
             Grouped(c, x), ~Grouped(c, y)
      PROVE  Slot(c, sid, x).col # Slot(c, sid, y).col
  <2>1. x \in Nat
    BY RsSizes
  <2>2. Slot(c, sid, x).col \in (IF SplitsParities(c) THEN 2 ELSE 1)..16
    BY <1>4, <2>1, ColumnOfGroup
  <2>3. Slot(c, sid, y).col \in (IF SplitsParities(c) THEN 0..1 ELSE {0})
    BY <1>4, OtherSlots
  <2> QED BY <2>2, <2>3
<1> QED BY <1>2, <1>3, <1>4

-----------------------------------------------------------------------------
(***************************************************************************)
(* Rows and places.                                                        *)
(***************************************************************************)

(* The numbers in a row of an array are apart. *)
LEMMA RowsApart ==
    ASSUME NEW n \in Nat, NEW row \in Seq(Nat), Len(row) = n, ToSet(row) = 1..n
    PROVE  \A i, j \in 1..n : row[i] \in 1..n /\ (row[i] = row[j] => i = j)
<1>1. \A i \in 1..n : row[i] \in ToSet(row)
  BY DEF ToSet
<1>2. \A y \in 1..n : \E i \in 1..n : row[i] = y
  BY DEF ToSet
<1>3. row = [i \in 1..n |-> row[i]]
  OBVIOUS
<1>4. row \in Surjection(1..n, 1..n)
  BY <1>1, <1>2, <1>3 DEF Surjection
<1>5. IsFiniteSet(1..n)
  BY FS_Interval
<1>6. row \in Injection(1..n, 1..n)
  BY <1>4, <1>5, FS_SurjSameCardinalityImpliesInj
<1> QED BY <1>1, <1>6 DEF Injection, IsInjective

(* A column of OA_1 is a rack, and of 17 racks another for each column.    *)
LEMMA RackRange ==
    ASSUME NEW row1 \in 0..(Len(OA1) - 1), NEW x \in 0..16
    PROVE  /\ OaRack(row1, x) \in 0..(ClusterNum - 1)
           /\ \A y \in 0..16 : ClusterNum = 17 /\ OaRack(row1, x) = OaRack(row1, y) => x = y
<1> DEFINE row == OA1[row1 + 1]
<1>1. ClusterNum \in Nat \ {0} /\ OA1 \in Seq(Seq(Nat)) /\ row1 + 1 \in 1..Len(OA1)
  BY CodeAssumption
<1>2. row \in ToSet(OA1) /\ row \in Seq(Nat)
  BY <1>1 DEF ToSet
<1>3. Len(row) = 17 /\ ToSet(row) = 1..17
  <2> HIDE DEF row
  <2> QED BY <1>2, CodeAssumption
<1>4. \A i, j \in 1..17 : row[i] \in 1..17 /\ (row[i] = row[j] => i = j)
  <2> DEFINE n == 17
  <2>1. n \in Nat /\ Len(row) = n /\ ToSet(row) = 1..n
    BY <1>3
  <2> HIDE DEF row, n
  <2>2. \A i, j \in 1..n : row[i] \in 1..n /\ (row[i] = row[j] => i = j)
    BY <1>2, <2>1, RowsApart
  <2> QED BY <2>2 DEF n
<1>5. ASSUME NEW y \in 0..16
      PROVE  y + 1 \in 1..17 /\ row[y + 1] \in 1..17 /\ OaRack(row1, y) = (row[y + 1] - 1) % ClusterNum
  <2>1. y + 1 \in 1..17
    OBVIOUS
  <2>2. row[y + 1] \in 1..17
    <3> HIDE DEF row
    <3> QED BY <1>4, <2>1
  <2>3. OaRack(row1, y) = (row[y + 1] - 1) % ClusterNum
    BY DEF OaRack
  <2> HIDE DEF row
  <2> QED BY <2>1, <2>2, <2>3
<1> HIDE DEF row
<1>6. OaRack(row1, x) \in 0..(ClusterNum - 1)
  <2> DEFINE m == row[x + 1] - 1
  <2>1. m \in Nat
    <3> DEFINE a == row[x + 1]
    <3>1. a \in 1..17
      BY <1>5
    <3> HIDE DEF a
    <3>2. a - 1 \in Nat
      BY <3>1
    <3> QED BY <3>2 DEF a
  <2> HIDE DEF m
  <2>2. m % ClusterNum \in 0..(ClusterNum - 1)
    BY <1>1, <2>1, DivMod
  <2> QED BY <1>5, <2>2 DEF m
<1>7. ASSUME NEW y \in 0..16, ClusterNum = 17, OaRack(row1, x) = OaRack(row1, y)
      PROVE  x = y
  <2>1. ASSUME NEW z \in 0..16 PROVE OaRack(row1, z) = row[z + 1] - 1
    <3> DEFINE m == row[z + 1] - 1
    <3>1. m \in 0..16
      <4> DEFINE a == row[z + 1]
      <4>1. a \in 1..17
        BY <1>5
      <4> HIDE DEF a
      <4>2. a - 1 \in 0..16
        BY <4>1
      <4> QED BY <4>2 DEF a
    <3> HIDE DEF m
    <3>2. m % 17 = m
      BY <3>1
    <3> QED BY <1>5, <1>7, <3>2 DEF m
  <2>2. row[x + 1] - 1 = row[y + 1] - 1 /\ row[x + 1] \in 1..17 /\ row[y + 1] \in 1..17
    BY <1>5, <1>7, <2>1
  <2>3. row[x + 1] = row[y + 1] /\ x + 1 \in 1..17 /\ y + 1 \in 1..17
    <3> DEFINE a == row[x + 1]
               b == row[y + 1]
    <3>1. a - 1 = b - 1 /\ a \in 1..17 /\ b \in 1..17
      BY <2>2
    <3> HIDE DEF a, b
    <3>2. a = b
      BY <3>1
    <3> QED BY <3>2 DEF a, b
  <2>4. x + 1 = y + 1
    BY <1>4, <2>3
  <2> QED BY <2>4
<1> QED BY <1>6, <1>7

(* A column of OA_2 is a node of a rack. *)
LEMMA NodeRange ==
    ASSUME NEW row2 \in 0..(Len(OA2) - 1), NEW x \in Nat
    PROVE  /\ OaNode(row2, x) \in 0..(DatanodeNumPerCluster - 1)
           /\ Len(OA2[row2 + 1]) = DatanodeNumPerCluster
           /\ \A y \in Nat :
                 x < DatanodeNumPerCluster /\ y < DatanodeNumPerCluster
                   /\ OaNode(row2, x) = OaNode(row2, y) => x = y
<1> DEFINE row == OA2[row2 + 1]
           D == DatanodeNumPerCluster
<1>1. D \in Nat \ {0} /\ OA2 \in Seq(Seq(Nat)) /\ row2 + 1 \in 1..Len(OA2)
  BY CodeAssumption
<1>2. row \in ToSet(OA2) /\ row \in Seq(Nat)
  BY <1>1 DEF ToSet
<1>3. Len(row) = D /\ ToSet(row) = 1..D
  <2> HIDE DEF row
  <2> QED BY <1>2, CodeAssumption
<1>4. \A i, j \in 1..D : row[i] \in 1..D /\ (row[i] = row[j] => i = j)
  <2> HIDE DEF row
  <2> QED BY <1>1, <1>2, <1>3, RowsApart
<1>5. ASSUME NEW y \in Nat
      PROVE  /\ (y % D) + 1 \in 1..D /\ row[(y % D) + 1] - 1 \in 0..(D - 1)
             /\ OaNode(row2, y) = row[(y % D) + 1] - 1
  <2> DEFINE m == (y % D) + 1
             z == row[m] - 1
  <2>1. OaNode(row2, y) = z % D
    BY <1>3 DEF OaNode
  <2>2. y % D \in 0..(D - 1)
    BY <1>1, DivMod
  <2> HIDE DEF row, D
  <2>3. m \in 1..D
    BY <1>1, <2>2
  <2> HIDE DEF m
  <2>4. z \in 0..(D - 1)
    BY <1>1, <1>4, <2>3
  <2> HIDE DEF z
  <2>5. z % D = z
    <3>1. z = D * 0 + z /\ z \in Nat
      BY <1>1, <2>4, SMT
    <3> QED BY <1>1, <2>4, <3>1, DivUnique
  <2> QED BY <2>1, <2>3, <2>4, <2>5 DEF m, z
<1> HIDE DEF row
<1>6. ASSUME NEW y \in Nat, x < D, y < D, OaNode(row2, x) = OaNode(row2, y)
      PROVE  x = y
  <2> DEFINE a == (x % D) + 1
             b == (y % D) + 1
  <2>1. a \in 1..D /\ b \in 1..D /\ row[a] - 1 = row[b] - 1
    BY <1>5, <1>6
  <2>2. x % D = x /\ y % D = y
    <3>0. x < D /\ y < D /\ D \in Nat \ {0}
      BY <1>1, <1>6
    <3> HIDE DEF D
    <3>1. x = D * 0 + x /\ y = D * 0 + y /\ x \in 0..(D - 1) /\ y \in 0..(D - 1)
      BY <3>0, SMT
    <3> QED BY <3>0, <3>1, DivUnique
  <2> HIDE DEF a, b, D
  <2>3. row[a] = row[b]
    <3>1. row[a] \in 1..D /\ row[b] \in 1..D
      BY <1>4, <2>1
    <3> QED BY <1>1, <2>1, <3>1
  <2>4. a = b
    BY <1>4, <2>1, <2>3
  <2> QED BY <2>2, <2>4 DEF a, b
<1>7. OaNode(row2, x) \in 0..(D - 1)
  BY <1>5
<1>8. Len(OA2[row2 + 1]) = D
  BY <1>3 DEF row
<1> QED BY <1>6, <1>7, <1>8

(* The rows of a stripe are rows of the arrays, one pair per batch. *)
LEMMA RowRange ==
    ASSUME NEW c, NEW sid \in Nat
    PROVE  /\ RackRow(c, sid) \in 0..(Len(OA1) - 1) /\ NodeRow(c, sid) \in 0..(Len(OA2) - 1)
<1> DEFINE B == BatchSize(c)
           L == Len(OA2)
           M == Len(OA1)
<1>1. B \in Nat \ {0} /\ L \in Nat \ {0} /\ M \in Nat \ {0}
  BY Rounds, CodeAssumption
<1> HIDE DEF B, L, M
<1>2. B * L \in Nat \ {0}
  BY <1>1, SMT
<1>3. sid \div (B * L) \in Nat /\ sid \div B \in Nat
  BY <1>1, <1>2, DivMod
<1>4. (sid \div (B * L)) % M \in 0..(M - 1) /\ (sid \div B) % L \in 0..(L - 1)
  BY <1>1, <1>3, DivMod
<1> QED BY <1>4 DEF RackRow, NodeRow, B, L, M

(* The stripes of a batch share their rows. *)
LEMMA RowsOfBatch ==
    ASSUME NEW c, NEW s \in Nat, NEW t \in Nat, s \div BatchSize(c) = t \div BatchSize(c)
    PROVE  RackRow(c, s) = RackRow(c, t) /\ NodeRow(c, s) = NodeRow(c, t)
<1>1. BatchSize(c) \in Nat \ {0} /\ Len(OA2) \in Nat \ {0}
  BY Rounds, CodeAssumption
<1>2. \A x \in Nat : x \div (BatchSize(c) * Len(OA2)) = (x \div BatchSize(c)) \div Len(OA2)
  BY <1>1, DivTwice
<1> QED BY <1>2 DEF RackRow, NodeRow

(* The slot of a parity does not depend on the stripe. *)
LEMMA ParitySlot ==
    ASSUME NEW c, IsRs(c), NEW s \in Nat, NEW t \in Nat, NEW i \in Nat, i >= c.k
    PROVE  Slot(c, s, i) = Slot(c, t, i)
<1>1. OneRackSlot(c, s, i) = OneRackSlot(c, t, i)
  BY DEF OneRackSlot
<1>2. TwoRacksSlot(c, s, i) = TwoRacksSlot(c, t, i)
  <2>1. ~(i < c.r - 3) /\ i # c.r - 3 /\ ~(i < c.k)
    BY RsSizes
  <2> QED BY <2>1 DEF TwoRacksSlot
<1> QED BY <1>1, <1>2 DEF Slot

(* The stripes of a batch have their parities in the same places. *)
LEMMA ParitiesOfBatch ==
    ASSUME NEW c, IsRs(c), NEW s \in Nat, NEW t \in Nat,
           s \div BatchSize(c) = t \div BatchSize(c), NEW i \in Nat, i >= c.k
    PROVE  PlaceOf(c, s, i) = PlaceOf(c, t, i)
BY RowsOfBatch, ParitySlot DEF PlaceOf

(* Places are on racks and nodes that exist; one batch's are in one row.   *)
LEMMA PlaceRange ==
    ASSUME NEW c, IsRs(c), NEW sid \in Nat, NEW i \in 0..(c.k + c.r - 1)
    PROVE  PlaceOf(c, sid, i) \in (0..(ClusterNum - 1)) \X (0..(DatanodeNumPerCluster - 1))
<1> DEFINE s == Slot(c, sid, i)
<1>1. s.col \in 0..16 /\ s.ncol \in Nat
  BY SlotRange, RsSizes
<1>2. RackRow(c, sid) \in 0..(Len(OA1) - 1) /\ NodeRow(c, sid) \in 0..(Len(OA2) - 1)
  BY RowRange
<1>3. PlaceOf(c, sid, i) = <<OaRack(RackRow(c, sid), s.col), OaNode(NodeRow(c, sid), s.ncol)>>
  BY DEF PlaceOf
<1> HIDE DEF s
<1>4. OaRack(RackRow(c, sid), s.col) \in 0..(ClusterNum - 1)
  BY <1>1, <1>2, RackRange
<1>5. OaNode(NodeRow(c, sid), s.ncol) \in 0..(DatanodeNumPerCluster - 1)
  BY <1>1, <1>2, NodeRange
<1> QED BY <1>3, <1>4, <1>5

(* Two blocks of one batch on one rack are in one column. *)
LEMMA SameRack ==
    ASSUME NEW c, IsRs(c), FitsRacks(c), NEW s \in Nat, NEW t \in Nat,
           s \div BatchSize(c) = t \div BatchSize(c),
           NEW i \in 0..(c.k + c.r - 1), NEW j \in 0..(c.k + c.r - 1),
           Rack(PlaceOf(c, s, i)) = Rack(PlaceOf(c, t, j))
    PROVE  Slot(c, s, i).col = Slot(c, t, j).col
<1>1. RackRow(c, s) = RackRow(c, t)
  BY RowsOfBatch
<1>2. RackRow(c, s) \in 0..(Len(OA1) - 1) /\ ClusterNum = 17
  BY RowRange DEF FitsRacks
<1>3. Slot(c, s, i).col \in 0..16 /\ Slot(c, t, j).col \in 0..16
  BY SlotRange
<1>4. OaRack(RackRow(c, s), Slot(c, s, i).col) = OaRack(RackRow(c, s), Slot(c, t, j).col)
  BY <1>1 DEF PlaceOf, Rack
<1> QED BY <1>2, <1>3, <1>4, RackRange

(* No two blocks of an upload are placed on one node. *)
LEMMA PlacesApart ==
    ASSUME NEW c, IsRs(c), FitsRacks(c), NEW sid \in Nat,
           NEW i \in 0..(c.k + c.r - 1), NEW j \in 0..(c.k + c.r - 1),
           PlaceOf(c, sid, i) = PlaceOf(c, sid, j)
    PROVE  i = j
<1> DEFINE a == Slot(c, sid, i)
           b == Slot(c, sid, j)
<1>1. a.col = b.col
  BY SameRack
<1>2. OaNode(NodeRow(c, sid), a.ncol) = OaNode(NodeRow(c, sid), b.ncol)
  BY DEF PlaceOf
<1>3. a.ncol \in 0..(c.r - 1) /\ b.ncol \in 0..(c.r - 1)
  BY SlotRange
<1>4. NodeRow(c, sid) \in 0..(Len(OA2) - 1) /\ c.r \in Nat \ {0}
      /\ c.r <= DatanodeNumPerCluster /\ DatanodeNumPerCluster \in Nat
  BY RowRange, RsSizes, CodeAssumption DEF FitsRacks
<1>5. a.ncol = b.ncol
  <2> HIDE DEF a, b
  <2>1. /\ a.ncol \in Nat /\ a.ncol < DatanodeNumPerCluster
        /\ b.ncol \in Nat /\ b.ncol < DatanodeNumPerCluster
    BY <1>3, <1>4
  <2> QED BY <1>2, <1>4, <2>1, NodeRange
<1> QED BY <1>1, <1>5, SlotsApart

(* Where r divides k every rack is full, at every round. *)
LEMMA WholeRacks ==
    ASSUME NEW c, IsRs(c), c.k % c.r = 0, NEW l \in 0..LevelBound
    PROVE  Width(c, l) = 2^l * Width(c, 0) /\ c.k = c.r * Width(c, 0)
<1> DEFINE w == Width(c, 0)
           v == Width(c, l)
           r == c.r
           k == c.k
           q == 2^l
<1>1. r \in Nat \ {0} /\ k \in Nat \ {0} /\ q \in Nat \ {0}
  BY RsSizes, PowersAssumption
<1>2. /\ w \in Nat \ {0} /\ v \in Nat \ {0} /\ q * k <= r * v /\ r * (v - 1) < q * k
  BY Widths, RsSizes
<1>3. k = r * w
  <2>1. Rest(c) \in 1..r /\ k = r * (w - 1) + Rest(c)
    BY RsShape
  <2> DEFINE t == Rest(c)
  <2>2. k % r = 0
    OBVIOUS
  <2>3. t = r
    <3> SUFFICES ASSUME t # r PROVE FALSE
      OBVIOUS
    <3>1. t \in 1..(r - 1)
      BY <1>1, <2>1
    <3> HIDE DEF t, w, r, k
    <3>2. t \in 0..(r - 1) /\ w - 1 \in Nat
      BY <1>1, <1>2, <3>1
    <3>3. k % r = t
      BY <1>1, <2>1, <3>2, DivUnique DEF t
    <3> QED BY <2>2, <3>1, <3>3
  <2> HIDE DEF w, r, k, t
  <2>4. r * (w - 1) + r = r * w
    BY <1>1, <1>2, SMT
  <2> QED BY <2>1, <2>3, <2>4 DEF t
<1> HIDE DEF w, v, r, k, q
<1>4. q * k = r * (q * w) /\ q * w \in Nat
  BY <1>1, <1>2, <1>3, SMT
<1> DEFINE x == q * w
<1> HIDE DEF x
<1>5. r * x <= r * v /\ r * (v - 1) < r * x /\ x \in Nat
  BY <1>2, <1>4 DEF x
<1>6. x <= v
  <2> SUFFICES ASSUME v < x PROVE FALSE
    BY <1>2, <1>5
  <2>1. r * v + r <= r * x
    BY <1>1, <1>2, <1>5, LessMul
  <2>2. r * v \in Int /\ r * x \in Int
    BY <1>1, <1>2, <1>5, SMT
  <2> DEFINE a == r * v
             b == r * x
  <2> HIDE DEF a, b
  <2>3. a + r <= b /\ b <= a /\ a \in Int /\ b \in Int
    BY <1>5, <2>1, <2>2 DEF a, b
  <2> QED BY <1>1, <2>3
<1>7. v <= x
  <2> SUFFICES ASSUME x < v PROVE FALSE
    BY <1>2, <1>5
  <2>1. r * x <= r * (v - 1)
    <3>1. CASE x = v - 1
      BY <3>1, <1>1, <1>2, SMT
    <3>2. CASE x # v - 1
      <4>1. x < v - 1 /\ x \in Int /\ v - 1 \in Int
        BY <1>2, <1>5, <3>2
      <4> DEFINE y == v - 1
      <4> HIDE DEF y
      <4>2. r * x + r <= r * y
        BY <1>1, <4>1, LessMul DEF y
      <4>3. r * x \in Int /\ r * y \in Int
        BY <1>1, <4>1, SMT DEF y
      <4> DEFINE a == r * x
                 b == r * y
      <4> HIDE DEF a, b
      <4>4. a <= b
        BY <1>1, <4>2, <4>3 DEF a, b
      <4> QED BY <4>4 DEF a, b, y
    <3> QED BY <3>1, <3>2
  <2>2. r * (v - 1) \in Int /\ r * x \in Int
    BY <1>1, <1>2, <1>5, SMT
  <2> DEFINE a == r * (v - 1)
             b == r * x
  <2> HIDE DEF a, b
  <2>3. a < b /\ b <= a /\ a \in Int /\ b \in Int
    BY <1>5, <2>1, <2>2 DEF a, b
  <2> QED BY <2>3
<1>8. v = x
  BY <1>2, <1>5, <1>6, <1>7
<1> QED BY <1>3, <1>8 DEF x, v, q, w, r, k

(* So the stripes of a batch share no column but that of the parities. *)
LEMMA ColumnsOfBatch ==
    ASSUME NEW c, IsRs(c), FitsRacks(c), c.k % c.r = 0, NEW s \in Nat, NEW t \in Nat,
           s \div BatchSize(c) = t \div BatchSize(c), NEW i \in 0..(c.k - 1), NEW j \in 0..(c.k - 1),
           Slot(c, s, i).col = Slot(c, t, j).col
    PROVE  s = t
<1> DEFINE w == Width(c, 0)
           B == BatchSize(c)
<1>1. w \in Nat \ {0} /\ B \in Nat \ {0} /\ LevelBound \in Nat
  BY RsShape, Rounds, RsSizes
<1>2. ASSUME NEW l \in 1..LevelBound PROVE NumArry(c, l) = 1
  <2>1. l - 1 \in 0..LevelBound /\ l \in 0..LevelBound /\ l - 1 + 1 = l
    BY <1>1
  <2> DEFINE p == 2^(l - 1)
  <2>2. p \in Nat /\ 2^l = 2 * p
    BY <2>1, PowersAssumption
  <2>3. Width(c, l - 1) = p * w /\ Width(c, l) = (2 * p) * w
    BY <2>1, <2>2, WholeRacks
  <2>4. NumArry(c, l) = 1 + 2 * Width(c, l - 1) - Width(c, l)
    BY Arrays
  <2> HIDE DEF p, w
  <2>5. (2 * p) * w = 2 * (p * w) /\ p * w \in Int
    BY <1>1, <2>2, SMT
  <2> DEFINE x == p * w
  <2> HIDE DEF x
  <2>6. NumArry(c, l) = 1 + 2 * x - 2 * x /\ x \in Int
    BY <2>3, <2>4, <2>5 DEF x
  <2> QED BY <2>6
<1>3. ~SharesTwoRacks(c) /\ ~SplitsParities(c) /\ GroupCount(c) = w
  <2>1. RsRounds(c) \in 0..LevelBound
    BY Rounds
  <2>2. RsRounds(c) > 0 => NumArry(c, 1) = 1
    BY <1>1, <1>2, <2>1
  <2>3. ~SharesTwoRacks(c)
    BY <2>2 DEF SharesTwoRacks
  <2> QED BY <2>3 DEF SplitsParities, GroupCount
<1>4. ASSUME NEW x \in Nat, NEW n \in 0..(c.k - 1)
      PROVE  /\ Slot(c, x, n).col \in Start(c, Position(c, x))..(Start(c, Position(c, x)) + w - 1)
             /\ Start(c, Position(c, x)) \in Int /\ Position(c, x) \in 1..B
  <2>1. Grouped(c, n) /\ n \in Nat
    BY <1>3, RsSizes DEF Grouped
  <2> DEFINE g == At(c, x, n).group
             a == Start(c, Position(c, x))
  <2>2. Slot(c, x, n).col = a + g /\ g \in 0..(w - 1)
    BY <1>3, <2>1, ColumnOfGroup, StartOfStripe
  <2>3. a \in Int /\ Position(c, x) \in 1..B
    BY PositionInBatch
  <2> HIDE DEF g, a
  <2>4. Slot(c, x, n).col \in a..(a + w - 1)
    BY <1>1, <2>2, <2>3
  <2> QED BY <2>3, <2>4 DEF a
<1>5. ASSUME NEW p \in 1..B, NEW q \in 1..B, p < q
      PROVE  Start(c, p) + w <= Start(c, q)
  <2>1. p \in 1..(B - 1) /\ p + 1 \in 1..B /\ p + 1 <= q
    BY <1>1, <1>5
  <2>2. NumArry(c, Twos(p) + 1) = 1
    <3>1. Twos(p) + 1 \in 1..RsRounds(c) /\ RsRounds(c) \in 0..LevelBound
      BY <2>1, TwosInBatch, Rounds
    <3>2. Twos(p) + 1 \in 1..LevelBound
      BY <1>1, <3>1
    <3> QED BY <1>2, <3>2
  <2>3. Start(c, p + 1) = Start(c, p) + w + 1 - NumArry(c, Twos(p) + 1) /\ Start(c, p) \in Int
    BY <1>3, <2>1, StartGrows
  <2>4. Start(c, p + 1) <= Start(c, q) /\ Start(c, q) \in Int /\ Start(c, p + 1) \in Int
    BY <2>1, StartsInOrder, StartIsInt
  <2> HIDE DEF w
  <2> QED BY <1>1, <2>2, <2>3, <2>4
<1> DEFINE p == Position(c, s)
           q == Position(c, t)
<1>6. p = q
  <2> DEFINE x == Slot(c, s, i).col
  <2>1. x \in Start(c, p)..(Start(c, p) + w - 1) /\ p \in 1..B /\ Start(c, p) \in Int
    BY <1>4
  <2>2. x \in Start(c, q)..(Start(c, q) + w - 1) /\ q \in 1..B /\ Start(c, q) \in Int
    BY <1>4
  <2> HIDE DEF x, p, q, w, B
  <2>3. ~(p < q)
    BY <1>1, <1>5, <2>1, <2>2
  <2>4. ~(q < p)
    BY <1>1, <1>5, <2>1, <2>2
  <2> QED BY <1>1, <2>1, <2>2, <2>3, <2>4
<1>7. /\ s = (B * (s \div B)) + (s % B) /\ t = (B * (t \div B)) + (t % B)
      /\ s % B \in Int /\ t % B \in Int
  <2> HIDE DEF B
  <2>1. \A x \in Nat : x % B \in 0..(B - 1) /\ x = (B * (x \div B)) + (x % B)
    BY <1>1, DivMod, Zenon
  <2> QED BY <1>1, <2>1
<1>8. s % B = t % B
  <2> DEFINE x == s % B
             y == t % B
  <2>1. x + 1 = y + 1 /\ x \in Int /\ y \in Int
    BY <1>6, <1>7 DEF Position
  <2> HIDE DEF x, y
  <2>2. x = y
    BY <2>1
  <2> QED BY <2>2 DEF x, y
<1>9. s \div B = t \div B
  OBVIOUS
<1> HIDE DEF B
<1> QED BY <1>7, <1>8, <1>9

-----------------------------------------------------------------------------
(***************************************************************************)
(* The racks of aligned runs.                                              *)
(***************************************************************************)

(* The uploads of an aligned run are consecutive positions of a batch. *)
LEMMA RunPositions ==
    ASSUME NEW c, IsRs(c), NEW l \in 0..RsRounds(c), NEW first \in Nat, first % 2^l = 0
    PROVE  LET f == first % BatchSize(c)
           IN  /\ f \in Nat /\ f % 2^l = 0 /\ f + 2^l <= BatchSize(c)
               /\ \A t \in first..(first + 2^l - 1) :
                     /\ t \div BatchSize(c) = first \div BatchSize(c)
                     /\ Position(c, t) = f + (t - first) + 1
<1> DEFINE B == BatchSize(c)
           p == 2^l
           f == first % B
           q == first \div B
           y == first \div p
<1>1. B \in Nat \ {0} /\ p \in Nat \ {0}
  <2>1. l \in 0..LevelBound
    BY Rounds, RsSizes
  <2> QED BY <2>1, Rounds, PowersAssumption
<1>2. PICK x \in Nat \ {0} : B = x * p
  <2>1. l \in 0..LevelBound /\ RsRounds(c) \in 0..LevelBound /\ l <= RsRounds(c) /\ B = 2^RsRounds(c)
    BY Rounds, RsSizes
  <2> QED BY <2>1, PowerMultiple
<1>3. f \in 0..(B - 1) /\ q \in Nat /\ first = (B * q) + f
  BY <1>1, DivMod
<1>4. y \in Nat /\ first = p * y
  <2>1. first % p = 0
    OBVIOUS
  <2> HIDE DEF p
  <2>2. y \in Nat /\ first = (p * y) + (first % p)
    BY <1>1, DivMod DEF y
  <2>3. p * y \in Nat
    BY <1>1, <2>2, SMT
  <2> DEFINE z == p * y
  <2> HIDE DEF z
  <2>4. first = z + 0 /\ z \in Nat
    BY <2>1, <2>2, <2>3 DEF z
  <2>5. first = z
    BY <2>4
  <2> QED BY <2>2, <2>5 DEF z
<1> HIDE DEF B, p, f, q, y
<1> DEFINE z == y - x * q
<1>5. f = p * z /\ z \in Int
  <2>1. B * q = p * (x * q) /\ x * q \in Nat
    BY <1>1, <1>2, <1>3, SMT
  <2>2. p * z = p * y - p * (x * q) /\ z \in Int
    BY <1>1, <1>4, <2>1, SMT
  <2> DEFINE a == p * y
             b == p * (x * q)
  <2> HIDE DEF a, b, z
  <2>3. a \in Int /\ b \in Int /\ f \in Int /\ a = b + f /\ p * z = a - b
    <3>1. a \in Int /\ b \in Int
      BY <1>1, <1>4, <2>1, SMT DEF a, b
    <3> QED BY <1>3, <1>4, <2>1, <2>2, <3>1 DEF a, b
  <2>4. p * z = f
    BY <2>3
  <2> QED BY <2>2, <2>4
<1> HIDE DEF z
<1>6. z \in Nat /\ z < x
  <2>1. z \in Nat
    <3> SUFFICES ASSUME z < 0 PROVE FALSE
      BY <1>5
    <3>1. p * z + p <= p * 0
      BY <1>1, <1>5, LessMul
    <3>2. f + p <= 0
      BY <1>1, <1>5, <3>1
    <3> QED BY <1>1, <1>3, <3>2
  <2>2. z < x
    <3> SUFFICES ASSUME x <= z PROVE FALSE
      BY <1>2, <1>5
    <3>1. p * x = B
      BY <1>1, <1>2, SMT
    <3>2. CASE x = z
      BY <1>1, <1>3, <1>5, <3>1, <3>2
    <3>3. CASE x # z
      <4>1. p * x + p <= p * z
        BY <1>1, <1>2, <1>5, <3>3, LessMul
      <4>2. B + p <= f
        BY <1>5, <3>1, <4>1
      <4> QED BY <1>1, <1>3, <4>2
    <3> QED BY <3>2, <3>3
  <2> QED BY <2>1, <2>2
<1>7. f + p <= B
  <2>1. p * z + p <= p * x
    BY <1>1, <1>2, <1>6, LessMul
  <2>2. p * x = B
    BY <1>1, <1>2, SMT
  <2> QED BY <1>5, <2>1, <2>2
<1>8. f % p = 0 /\ f \in Nat
  <2>1. f \in Nat /\ 0 \in 0..(p - 1) /\ f = p * z + 0
    BY <1>1, <1>3, <1>5
  <2> QED BY <1>1, <1>6, <2>1, DivUnique
<1>9. ASSUME NEW t \in first..(first + p - 1)
      PROVE  t \div B = q /\ Position(c, t) = f + (t - first) + 1
  <2> DEFINE e == t - first
             s == f + e
             b == B * q
  <2>1. e \in 0..(p - 1) /\ t = first + e /\ t \in Nat
    BY <1>1
  <2>2. b \in Nat
    BY <1>1, <1>3, SMT
  <2> HIDE DEF e, b
  <2>3. first = b + f
    BY <1>3 DEF b
  <2>4. t = b + s /\ s \in 0..(B - 1)
    BY <1>1, <1>3, <1>7, <2>1, <2>2, <2>3
  <2> HIDE DEF s
  <2>5. t = B * q + s
    BY <2>4 DEF b
  <2>6. t \div B = q /\ t % B = s
    <3>1. t \in Nat /\ B \in Nat \ {0} /\ q \in Nat /\ s \in 0..(B - 1) /\ t = B * q + s
      BY <1>1, <1>3, <2>1, <2>4, <2>5
    <3> QED BY <3>1, DivUnique, Zenon
  <2>7. Position(c, t) = s + 1
    BY <2>6 DEF Position, B
  <2> QED BY <2>6, <2>7 DEF s, e
<1> QED BY <1>7, <1>8, <1>9 DEF B, p, f, q

(* The columns beside which no group is: those of the parities.            *)
Outer(c) == IF SplitsParities(c) THEN 0..1 ELSE {0}

(* The columns from the first group of a run of stripes to its last.       *)
RunColumns(c, first, p) ==
    Start(c, (first % BatchSize(c)) + 1)
      ..(Start(c, (first % BatchSize(c)) + p) + GroupCount(c) - 1)

(* The racks of an aligned run: the columns from the first group of its    *)
(* first stripe to the last group of its last, and the outer ones.         *)
LEMMA RunOfRacks ==
    ASSUME NEW c, IsRs(c), NEW l \in 0..RsRounds(c), NEW first \in Nat, first % 2^l = 0,
           NEW t \in first..(first + 2^l - 1), NEW i \in 0..(c.k + c.r - 1)
    PROVE  \/ \E x \in RunColumns(c, first, 2^l) :
                 Rack(PlaceOf(c, t, i)) = OaRack(RackRow(c, first), x % 17)
           \/ \E x \in Outer(c) : Rack(PlaceOf(c, t, i)) = OaRack(RackRow(c, first), x)
<1> DEFINE f == first % BatchSize(c)
           B == BatchSize(c)
           p == 2^l
           pos == Position(c, t)
           lo == Start(c, f + 1)
           hi == Start(c, f + p) + GroupCount(c) - 1
<1>1. l \in 0..LevelBound /\ B \in Nat \ {0} /\ p \in Nat \ {0} /\ t \in Nat
  <2>1. l \in 0..LevelBound
    BY Rounds, RsSizes
  <2>2. p \in Nat \ {0}
    BY <2>1, PowersAssumption
  <2> QED BY <2>1, <2>2, Rounds
<1>2. /\ f \in Nat /\ f + p <= B /\ t \div B = first \div B
      /\ pos = f + (t - first) + 1
  BY RunPositions
<1>3. RackRow(c, t) = RackRow(c, first)
  BY <1>1, <1>2, RowsOfBatch
<1>4. Rack(PlaceOf(c, t, i)) = OaRack(RackRow(c, first), Slot(c, t, i).col)
  BY <1>3 DEF PlaceOf, Rack
<1>5. i \in Nat
  BY RsSizes
<1>6. CASE Grouped(c, i)
  <2> DEFINE g == At(c, t, i).group
             x == Start(c, pos) + g
  <2>1. Slot(c, t, i).col = x % 17
    BY <1>1, <1>5, <1>6, SlotOfGroup, StartOfStripe
  <2>2. g \in 0..(GroupCount(c) - 1) /\ GroupCount(c) \in Int
    <3>1. g \in 0..(GroupCount(c) - 1)
      BY <1>1, <1>5, <1>6, GroupedSlots
    <3>2. GroupCount(c) \in Int
      BY RsShape DEF GroupCount
    <3> QED BY <3>1, <3>2
  <2>3. Start(c, f + 1) <= Start(c, pos) /\ Start(c, pos) <= Start(c, f + p)
        /\ Start(c, f + 1) \in Int /\ Start(c, pos) \in Int /\ Start(c, f + p) \in Int
    <3>1. /\ f + 1 \in 1..B /\ pos \in 1..B /\ f + p \in 1..B
          /\ f + 1 <= pos /\ pos <= f + p
      <4>1. t - first \in 0..(p - 1)
        BY <1>1
      <4> DEFINE e == t - first
      <4> HIDE DEF f, B, p, pos, e
      <4>2. e \in 0..(p - 1) /\ pos = f + e + 1
        BY <1>2, <4>1 DEF e
      <4> QED BY <1>1, <1>2, <4>2
    <3> HIDE DEF f, p, pos
    <3> QED BY <3>1, StartsInOrder, StartIsInt
  <2>4. lo = Start(c, f + 1) /\ hi = Start(c, f + p) + GroupCount(c) - 1
    OBVIOUS
  <2> DEFINE a == Start(c, f + 1)
             b == Start(c, pos)
             d == Start(c, f + p)
  <2>5. x \in lo..hi
    <3> HIDE DEF lo, hi
    <3> HIDE DEF a, b, d, g
    <3>1. a <= b /\ b <= d /\ a \in Int /\ b \in Int /\ d \in Int
      BY <2>3 DEF a, b, d
    <3>2. x = b + g /\ lo = a /\ hi = d + GroupCount(c) - 1
      BY <2>4 DEF a, b, d
    <3> HIDE DEF x
    <3> QED BY <2>2, <3>1, <3>2
  <2> HIDE DEF x
  <2> QED BY <1>4, <2>1, <2>5 DEF RunColumns
<1>7. CASE ~Grouped(c, i)
  <2>1. Slot(c, t, i).col \in Outer(c)
    BY <1>1, <1>7, OtherSlots DEF Outer
  <2> QED BY <1>4, <2>1
<1> QED BY <1>6, <1>7

(* The columns of an aligned pair are as many as its data and parities     *)
(* need, and each has a group or is one of the parities.                   *)
LEMMA PairColumns ==
    ASSUME NEW c, IsRs(c), FitsRacks(c), RsRounds(c) > 0, NEW f \in Nat, f % 2 = 0
    PROVE  LET p == (f % BatchSize(c)) + 1
               x == Start(c, p)
               y == Start(c, p + 1)
               h == y + GroupCount(c) - 1
           IN  /\ f \div BatchSize(c) = (f + 1) \div BatchSize(c)
               /\ Position(c, f) = p /\ Position(c, f + 1) = p + 1
               /\ x \in Int /\ y \in Int /\ GroupCount(c) \in Int /\ x <= h
               /\ (IF SplitsParities(c) THEN 2 ELSE 1) <= x
               /\ h - x + 1 + (IF SplitsParities(c) THEN 2 ELSE 1) = RsRacks(c, 1)
               /\ \A z \in x..h : \E g \in 0..(GroupCount(c) - 1) : z = x + g \/ z = y + g
<1> DEFINE B == BatchSize(c)
           e == f % B
           p == e + 1
           x == Start(c, p)
           y == Start(c, p + 1)
           w == Width(c, 0)
           v == Width(c, 1)
           G == GroupCount(c)
           h == y + G - 1
           na == NumArry(c, 1)
<1>1. LevelBound \in Nat /\ RsRounds(c) \in 0..LevelBound /\ 1 \in 0..RsRounds(c)
      /\ 0 \in 0..LevelBound /\ 1 \in 1..LevelBound /\ 1 \in 0..LevelBound
  BY Rounds, RsSizes
<1>2. 2^1 = 2 /\ 2^0 = 1
  <2>1. 2^(0 + 1) = 2 * 2^0 /\ 2^0 = 1
    BY <1>1, PowersAssumption
  <2> QED BY <2>1
<1>3. /\ e \in Nat /\ e % 2 = 0 /\ e + 2 <= B
      /\ f \div B = (f + 1) \div B /\ Position(c, f) = p /\ Position(c, f + 1) = p + 1
  <2>0. f % 2^1 = 0
    BY <1>2
  <2>1. /\ e \in Nat /\ e % 2^1 = 0 /\ e + 2^1 <= B
        /\ \A t \in f..(f + 2^1 - 1) : /\ t \div B = f \div B
                                       /\ Position(c, t) = e + (t - f) + 1
    BY <1>1, <2>0, RunPositions
  <2>2. f \in f..(f + 2^1 - 1) /\ f + 1 \in f..(f + 2^1 - 1) /\ f - f = 0 /\ (f + 1) - f = 1
    BY <1>2
  <2>3. /\ Position(c, f) = e + 0 + 1 /\ Position(c, f + 1) = e + 1 + 1
        /\ f \div B = (f + 1) \div B
    <3> HIDE DEF e, B
    <3> QED BY <2>1, <2>2
  <2> HIDE DEF e, B
  <2> QED BY <1>2, <2>1, <2>3
<1>4. w \in Nat \ {0} /\ v \in Nat \ {0} /\ RsRacks(c, 1) = v + 1 /\ na = 1 + 2 * w - v
      /\ na \in {1, 2} /\ B \in Nat \ {0}
  <2>1. 1 - 1 = 0
    OBVIOUS
  <2>2. na = 1 + 2 * Width(c, 1 - 1) - v /\ na \in {1, 2}
    BY <1>1, Arrays
  <2> QED BY <1>1, <2>1, <2>2, Widths, Rounds
<1>5. Twos(p) = 0
  <2>1. 0 \in Nat /\ 0 + 1 \in 0..LevelBound /\ e % 2^(0 + 1) = 0
    BY <1>1, <1>2, <1>3
  <2>2. Twos(e + 2^0) = 0
    BY <1>3, <2>1, TwosOfHalf
  <2> QED BY <1>2, <2>2
<1>6. p \in 1..(B - 1) /\ 1 \in 1..B /\ p \in 1..B /\ 1 <= p
  BY <1>3, <1>4
<1>7. /\ x \in Int /\ y \in Int
      /\ SharesTwoRacks(c) => y = x + w - 1
      /\ ~SharesTwoRacks(c) => y = x + w + 1 - na
  <2>1. ~SharesTwoRacks(c) => y = x + w + 1 - NumArry(c, 0 + 1)
    BY <1>5, <1>6, StartGrows
  <2> QED BY <1>6, <2>1, StartGrows
<1>8. SharesTwoRacks(c) <=> na = 2
  BY DEF SharesTwoRacks
<1>9. (IF SplitsParities(c) THEN 2 ELSE 1) <= x
  <2>1. 0 \in 0..(G - 1)
    <3>1. CASE SplitsParities(c)
      <4>1. G = w - 1 /\ w >= 2
        BY <3>1, RsShape DEF GroupCount
      <4> HIDE DEF G, w
      <4> QED BY <1>4, <4>1
    <3>2. CASE ~SplitsParities(c)
      <4>1. G = w
        BY <3>2 DEF GroupCount
      <4> HIDE DEF G, w
      <4> QED BY <1>4, <4>1
    <3> QED BY <3>1, <3>2
  <2>2. FirstColumn(c, f) + 0 \in (IF SplitsParities(c) THEN 2 ELSE 1)..16
    BY <2>1, ColumnRange
  <2>3. FirstColumn(c, f) = x
    BY <1>3, StartOfStripe
  <2> HIDE DEF x
  <2> QED BY <1>7, <2>2, <2>3
<1> HIDE DEF e, x, y, w, v, na, B
<1>10. /\ G \in Int /\ x <= h
       /\ h - x + 1 + (IF SplitsParities(c) THEN 2 ELSE 1) = RsRacks(c, 1)
       /\ \A z \in x..h : \E g \in 0..(G - 1) : z = x + g \/ z = y + g
  <2>1. /\ G = (IF SplitsParities(c) THEN w - 1 ELSE w)
        /\ SplitsParities(c) => SharesTwoRacks(c) /\ w >= 2
    BY RsShape DEF GroupCount, w
  <2> HIDE DEF G
  <2>2. G \in Int /\ G >= 1
    BY <1>4, <2>1
  <2>3. /\ x <= h
        /\ h - x + 1 + (IF SplitsParities(c) THEN 2 ELSE 1) = RsRacks(c, 1)
        /\ x <= y /\ y <= x + G
    <3>1. CASE SplitsParities(c)
      BY <1>4, <1>7, <1>8, <2>1, <3>1
    <3>2. CASE ~SplitsParities(c) /\ SharesTwoRacks(c)
      BY <1>4, <1>7, <1>8, <2>1, <3>2
    <3>3. CASE ~SplitsParities(c) /\ ~SharesTwoRacks(c)
      BY <1>4, <1>7, <1>8, <2>1, <3>3
    <3> QED BY <2>1, <3>1, <3>2, <3>3
  <2>4. ASSUME NEW z \in x..h
        PROVE  \E g \in 0..(G - 1) : z = x + g \/ z = y + g
    <3>1. CASE z < y
      <4>1. z - x \in 0..(G - 1) /\ z = x + (z - x)
        BY <1>7, <2>2, <2>3, <3>1
      <4> QED BY <4>1
    <3>2. CASE z >= y
      <4>1. z - y \in 0..(G - 1) /\ z = y + (z - y)
        BY <1>7, <2>2, <2>3, <3>2
      <4> QED BY <4>1
    <3> QED BY <1>7, <3>1, <3>2
  <2> QED BY <2>2, <2>3, <2>4
<1> QED BY <1>3, <1>7, <1>9, <1>10 DEF x, y, e, B, G
=============================================================================
