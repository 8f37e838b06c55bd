------------------------- MODULE DdlrtMerge_proofs --------------------------
(***************************************************************************)
(* Proofs about DdlrtMerge, for every configuration validateConfig accepts *)
(* and every number of stripes: the migration planner has nothing to move, *)
(* what follows from it, and how many racks a merged stripe takes.         *)
(***************************************************************************)
EXTENDS DdlrtMerge, PlacementLemmas

-----------------------------------------------------------------------------
(***************************************************************************)
(* The parameters and what Config derives from them.                       *)
(***************************************************************************)

(* The maximum of two numbers is one of them and no smaller than either. *)
LEMMA MaxOfTwo ==
    ASSUME NEW a \in Int, NEW b \in Int
    PROVE  Max({a, b}) \in {a, b} /\ Max({a, b}) >= a /\ Max({a, b}) >= b
<1>1. \E x \in {a, b} : \A y \in {a, b} : x >= y
  <2>1. CASE a >= b
    BY <2>1
  <2>2. CASE b >= a
    BY <2>2
  <2> QED BY <2>1, <2>2
<1> QED BY <1>1 DEF Max

(* So is their minimum, the other way. *)
LEMMA MinOfTwo ==
    ASSUME NEW a \in Int, NEW b \in Int
    PROVE  Min({a, b}) \in {a, b} /\ Min({a, b}) <= a /\ Min({a, b}) <= b
<1>1. \E x \in {a, b} : \A y \in {a, b} : x <= y
  <2>1. CASE a <= b
    BY <2>1
  <2>2. CASE b <= a
    BY <2>2
  <2> QED BY <2>1, <2>2
<1> QED BY <1>1 DEF Min

(* A configuration has data, globals and locals, and racks wide enough for *)
(* a group's share of data and for the parities.                           *)
LEMMA Sizes ==
    ASSUME NEW c \in Configs
    PROVE  /\ c.k \in Nat \ {0} /\ c.r \in Nat \ {0} /\ c.z \in Nat \ {0}
           /\ DataPerGroup(c) \in Nat \ {0} /\ c.k = c.z * DataPerGroup(c)
           /\ RackCapacity(c) \in Nat \ {0} /\ RackCapacity(c) = c.r + 1
           /\ ClusterNum = 17 /\ DatanodeNumPerCluster \in Nat \ {0}
           /\ RackCapacity(c) <= DatanodeNumPerCluster
           /\ c.r + c.z <= DatanodeNumPerCluster
<1>1. /\ c.k \in Nat \ {0} /\ c.r \in Nat \ {0} /\ c.z \in Nat \ {0}
      /\ c.k % c.z = 0 /\ ClusterNum = 17
      /\ DatanodeNumPerCluster >= Max({c.r + c.z, c.r + 1})
  <2>1. c.k \in Int /\ c.r \in Int /\ c.z \in Int
    BY TablesAssumption
  <2>2. ConfigValid(c)
    BY TablesAssumption
  <2>3. /\ c.k > 0 /\ c.r >= 1 /\ c.z >= 1 /\ c.k % c.z = 0 /\ ClusterNum = 17
        /\ DatanodeNumPerCluster >= Max({c.r + c.z, c.r + 1})
    BY <2>2, Zenon DEF ConfigValid
  <2>4. c.k \in Nat \ {0} /\ c.r \in Nat \ {0} /\ c.z \in Nat \ {0}
    BY <2>1, <2>3
  <2> QED BY <2>3, <2>4, Zenon
<1>2. DatanodeNumPerCluster >= c.r + c.z /\ DatanodeNumPerCluster >= c.r + 1
  <2> DEFINE M == Max({c.r + c.z, c.r + 1})
  <2>1. c.r + c.z \in Int /\ c.r + 1 \in Int
    BY <1>1
  <2>2. M \in {c.r + c.z, c.r + 1} /\ M >= c.r + c.z /\ M >= c.r + 1
    BY <2>1, MaxOfTwo, Zenon
  <2>3. DatanodeNumPerCluster \in Nat /\ DatanodeNumPerCluster >= M
    BY <1>1, DimensionsAssumption
  <2> HIDE DEF M
  <2> QED BY <1>1, <2>2, <2>3
<1>3. c.k \div c.z \in Nat /\ c.k = c.z * (c.k \div c.z)
  <2>1. c.k \div c.z \in Nat /\ c.k = (c.z * (c.k \div c.z)) + (c.k % c.z)
    BY <1>1, DivMod
  <2> HIDE DEF Max
  <2> QED BY <1>1, <2>1
<1>4. c.k \div c.z # 0
  BY <1>1, <1>3
<1> QED BY <1>1, <1>2, <1>3, <1>4, DimensionsAssumption DEF DataPerGroup, RackCapacity

(* The number of merge rounds exists. *)
LEMMA Levels ==
    ASSUME NEW c \in Configs
    PROVE  MergeRounds(c) \in 0..LevelBound
<1> DEFINE T == {n \in 0..LevelBound : \A l \in 1..n : LevelFits(c, l)}
<1>1. T \in SUBSET (0..LevelBound) /\ 0 \in T /\ LevelBound \in Nat
  BY DimensionsAssumption
<1> HIDE DEF T
<1>2. \E x \in T : \A y \in T : x >= y
  BY <1>1, Greatest
<1>3. Max(T) \in T
  BY <1>2 DEF Max
<1> QED BY <1>1, <1>3 DEF MergeRounds, T

(* So does the number of stripes in a batch. *)
LEMMA Batches ==
    ASSUME NEW c \in Configs
    PROVE  BatchSize(c) \in Nat \ {0} /\ Positions(c) = 0..(BatchSize(c) - 1)
BY Levels, PowersAssumption DEF BatchSize, Positions

(* A group's data fills all its racks but the last, which has at least one *)
(* block of it.                                                            *)
LEMMA TailShare ==
    ASSUME NEW c \in Configs
    PROVE  /\ RacksPerGroup(c) \in Nat \ {0}
           /\ TailLoad(c) \in 1..RackCapacity(c)
           /\ DataPerGroup(c) = (RacksPerGroup(c) - 1) * RackCapacity(c) + TailLoad(c)
<1> DEFINE d == DataPerGroup(c)
           R == RackCapacity(c)
           q == RacksPerGroup(c)
<1>1. d \in Nat \ {0} /\ R \in Nat \ {0}
  BY Sizes
<1>2. /\ (d + R - 1) \div R \in Nat /\ (d + R - 1) % R \in 0..(R - 1)
      /\ d + R - 1 = (R * ((d + R - 1) \div R)) + ((d + R - 1) % R)
  <2>1. d + R - 1 \in Nat
    BY <1>1
  <2> HIDE DEF d, R
  <2> QED BY <1>1, <2>1, DivMod
<1>3. q = (d + R - 1) \div R
  BY DEF RacksPerGroup, CeilDiv
<1>4. TailLoad(c) = d - (q - 1) * R
  BY DEF TailLoad
<1> HIDE DEF d, R, q
<1>5. q \in Nat /\ d + R - 1 >= R * q /\ d + R - 1 < R * q + R
  BY <1>1, <1>2, <1>3
<1>6. q # 0
  BY <1>1, <1>5
<1>7. (q - 1) * R = R * q - R
  BY <1>1, <1>5
<1>8. d - (q - 1) * R \in 1..R
  BY <1>1, <1>5, <1>7
<1> QED BY <1>1, <1>4, <1>5, <1>6, <1>7, <1>8 DEF d, R, q

-----------------------------------------------------------------------------
(***************************************************************************)
(* The union-find over tail racks.  All the placement needs of it is that  *)
(* each position has a root, a number.                                     *)
(***************************************************************************)

(* The tail of the left half of a super-stripe is a position of the batch. *)
LEMMA LeftTailIsPosition ==
    ASSUME NEW c \in Configs, NEW l \in 1..MergeRounds(c), NEW pos \in Positions(c)
    PROVE  LeftTail(l, pos) \in Positions(c)
<1> DEFINE N == MergeRounds(c)
           B == BatchSize(c)
           w == 2^l
           h == 2^(l - 1)
           m == 2^(N - l)
           q == pos \div w
<1>1. N \in 0..LevelBound /\ LevelBound \in Nat /\ l \in 1..N
  BY Levels, DimensionsAssumption
<1>2. /\ w \in Nat \ {0} /\ h \in Nat \ {0} /\ m \in Nat \ {0}
      /\ B = w * m /\ w = h * 2
  <2>1. w \in Nat \ {0} /\ h \in Nat \ {0} /\ m \in Nat \ {0}
    <3> l \in 0..LevelBound /\ l - 1 \in 0..LevelBound /\ N - l \in 0..LevelBound
      BY <1>1
    <3> QED BY PowersAssumption
  <2>2. 2^(l + (N - l)) = 2^l * 2^(N - l)
    <3> l \in 0..LevelBound /\ N - l \in 0..(LevelBound - l)
      BY <1>1
    <3> QED BY PowersAssumption
  <2>3. 2^((l - 1) + 1) = 2^(l - 1) * 2^1
    <3> l - 1 \in 0..LevelBound /\ 1 \in 0..(LevelBound - (l - 1))
      BY <1>1
    <3> QED BY PowersAssumption
  <2>4. l + (N - l) = N /\ (l - 1) + 1 = l /\ 2^1 = 2
    BY <1>1
  <2> HIDE DEF N
  <2> QED BY <2>1, <2>2, <2>3, <2>4 DEF BatchSize, N
<1>3. B \in Nat \ {0} /\ pos \in 0..(B - 1)
  BY Batches
<1>4. LeftTail(l, pos) = q * w + h - 1
  BY DEF LeftTail
<1> HIDE DEF N, B, w, h, m
<1>5. q \in Nat /\ q < m
  <2>1. pos \in Nat /\ pos < w * m
    BY <1>2, <1>3
  <2> QED BY <1>2, <2>1, DivMod, DivBound, Zenon
<1> HIDE DEF q
<1>6. w * q + w <= w * m
  BY <1>2, <1>5, LessMul
<1>7. q * w + h - 1 \in 0..(B - 1)
  <2>1. q * w = w * q /\ w * q \in Nat /\ w * m \in Nat
    BY <1>2, <1>5
  <2> HIDE DEF LeftTail
  <2> QED BY <1>2, <1>6, <2>1
<1> QED BY <1>4, <1>7, Batches DEF B

(* One level of the union-find keeps numbers for roots. *)
LEMMA JoinKeepsRoots ==
    ASSUME NEW c \in Configs, NEW l \in 1..MergeRounds(c),
           NEW roots \in [Positions(c) -> Nat]
    PROVE  JoinTails(c, l, roots) \in [Positions(c) -> Nat]
<1>1. \A pos \in Positions(c) : LeftTail(l, pos) \in Positions(c)
  BY LeftTailIsPosition
<1> QED BY <1>1 DEF JoinTails

(* The roots are made level by level, from each position being its own.    *)
LEMMA RootsByLevel ==
    ASSUME NEW c \in Configs
    PROVE  \E f : /\ f[0] = [pos \in Positions(c) |-> pos]
                  /\ \A l \in 1..MergeRounds(c) : f[l] = JoinTails(c, l, f[l - 1])
                  /\ f[MergeRounds(c)] \in [Positions(c) -> Nat]
                  /\ TailRoots(c) = f[MergeRounds(c)]
<1> DEFINE N == MergeRounds(c)
           Roots == [Positions(c) -> Nat]
           first == [pos \in Positions(c) |-> pos]
           RootsStep(f, l) == IF l = 0 THEN first ELSE JoinTails(c, l, f[l - 1])
           RootAt[l \in 0..N] == IF l = 0 THEN first ELSE JoinTails(c, l, RootAt[l - 1])
           Good(n) == {f \in [0..n -> Roots] : \A l \in 0..n : f[l] = RootsStep(f, l)}
           S == {n \in 0..N : Good(n) # {}}
<1>1. N \in Nat
  BY Levels, DimensionsAssumption
<1>2. first \in Roots
  BY Batches
<1>3. \A l \in 1..N : \A r \in Roots : JoinTails(c, l, r) \in Roots
  BY JoinKeepsRoots
<1> HIDE DEF N, Roots, first
<1>4. 0 \in S
  <2>1. [l \in 0..0 |-> first] \in Good(0)
    BY <1>2
  <2> HIDE DEF Good
  <2> QED BY <1>1, <2>1
<1>5. ASSUME NEW n \in 1..N, n - 1 \in S PROVE n \in S
  <2>1. PICK f \in [0..(n - 1) -> Roots] : \A l \in 0..(n - 1) : f[l] = RootsStep(f, l)
    BY <1>5
  <2> DEFINE g == [l \in 0..n |-> IF l = n THEN JoinTails(c, n, f[n - 1]) ELSE f[l]]
  <2>2. n - 1 \in 0..(n - 1) /\ f[n - 1] \in Roots
    BY <1>1
  <2>3. g \in [0..n -> Roots]
    BY <1>1, <1>3, <2>2
  <2>4. \A l \in 0..n : g[l] = RootsStep(g, l)
    <3> TAKE l \in 0..n
    <3>1. CASE l = n
      <4>1. g[n] = JoinTails(c, n, f[n - 1]) /\ g[n - 1] = f[n - 1] /\ n # 0
        BY <1>1
      <4> QED BY <3>1, <4>1
    <3>2. CASE l \in 1..(n - 1)
      <4>1. g[l] = f[l] /\ g[l - 1] = f[l - 1] /\ l # 0 /\ l \in 0..(n - 1)
        BY <1>1, <3>2
      <4>2. f[l] = JoinTails(c, l, f[l - 1])
        BY <2>1, <4>1
      <4> QED BY <4>1, <4>2
    <3>3. CASE l = 0
      <4>1. g[l] = f[l] /\ l \in 0..(n - 1)
        BY <1>1, <3>3
      <4> QED BY <2>1, <3>3, <4>1
    <3> QED BY <1>1, <3>1, <3>2, <3>3
  <2>5. g \in Good(n)
    BY <2>3, <2>4
  <2> HIDE DEF Good
  <2> QED BY <2>5
<1>6. N \in S
  <2> HIDE DEF S
  <2>1. 0..N \subseteq S
    BY <1>1, <1>4, <1>5, UpTo
  <2> QED BY <1>1, <2>1
<1>7. PICK f \in [0..N -> Roots] : \A l \in 0..N : f[l] = RootsStep(f, l)
  BY <1>6
<1>8. f = [l \in 0..N |-> IF l = 0 THEN first ELSE JoinTails(c, l, f[l - 1])]
  BY <1>7
<1>9. RootAt = [l \in 0..N |-> IF l = 0 THEN first ELSE JoinTails(c, l, RootAt[l - 1])]
  BY <1>8
<1> HIDE DEF RootAt
<1>10. \A l \in 0..N : RootAt[l] \in Roots
  <2> DEFINE U == {l \in 0..N : RootAt[l] \in Roots}
  <2>1. 0 \in U
    BY <1>1, <1>2, <1>9
  <2>2. ASSUME NEW l \in 1..N, l - 1 \in U PROVE l \in U
    <3>1. RootAt[l] = JoinTails(c, l, RootAt[l - 1]) /\ RootAt[l - 1] \in Roots
      BY <1>1, <1>9, <2>2
    <3> QED BY <1>3, <3>1
  <2> HIDE DEF U
  <2>3. 0..N \subseteq U
    BY <1>1, <2>1, <2>2, UpTo
  <2> QED BY <2>3 DEF U
<1>11. TailRoots(c) = RootAt[N]
  BY DEF TailRoots, RootAt, N, first
<1>12. RootAt[0] = first /\ \A l \in 1..N : RootAt[l] = JoinTails(c, l, RootAt[l - 1])
  BY <1>1, <1>9
<1>13. RootAt[N] \in Roots
  BY <1>1, <1>10
<1> QED BY <1>11, <1>12, <1>13, Zenon DEF Roots, N, first

(* After the last level every position has a number for root. *)
LEMMA RootsAreNumbers ==
    ASSUME NEW c \in Configs
    PROVE  TailRoots(c) \in [Positions(c) -> Nat]
BY RootsByLevel

-----------------------------------------------------------------------------
(***************************************************************************)
(* The columns of a batch: which stripes and groups meet in one.           *)
(***************************************************************************)

(* The rank of a root among the roots, as TailCol counts it. *)
Rank(c, pos) == Cardinality({q \in RootSet(c) : q < TailRoots(c)[pos]})

(* There are finitely many roots, and ranks tell them apart. *)
LEMMA RanksOfRoots ==
    ASSUME NEW c \in Configs
    PROVE  /\ Cardinality(RootSet(c)) \in Nat
           /\ \A p \in Positions(c) : Rank(c, p) \in 0..(Cardinality(RootSet(c)) - 1)
           /\ \A p, q \in Positions(c) :
                 Rank(c, p) = Rank(c, q) => TailRoots(c)[p] = TailRoots(c)[q]
<1> DEFINE S == RootSet(c)
           P == Positions(c)
           f == TailRoots(c)
           Below(r) == {q \in S : q < r}
<1>1. f \in [P -> Nat]
  BY RootsAreNumbers
<1>2. S = {f[pos] : pos \in P}
  BY <1>1 DEF RootSet
<1>3. IsFiniteSet(P)
  BY Batches, FS_Interval
<1>4. \A p \in P : Rank(c, p) = Cardinality(Below(f[p]))
  BY DEF Rank
<1> HIDE DEF S, P, f
<1>5. IsFiniteSet(S)
  <2>1. f \in Surjection(P, S)
    BY <1>1, <1>2 DEF Surjection
  <2> QED BY <1>3, <2>1, FS_Surjection
<1>6. S \in SUBSET Nat /\ \A p \in P : f[p] \in S
  BY <1>1, <1>2
<1>7. \A r \in S : /\ IsFiniteSet(Below(r)) /\ Cardinality(Below(r)) \in Nat
                   /\ Cardinality(Below(r)) < Cardinality(S)
  <2> SUFFICES ASSUME NEW r \in S
               PROVE  /\ IsFiniteSet(Below(r)) /\ Cardinality(Below(r)) \in Nat
                      /\ Cardinality(Below(r)) < Cardinality(S)
    OBVIOUS
  <2>1. Below(r) \in SUBSET S /\ r \in S /\ r \notin Below(r)
    BY <1>6
  <2> HIDE DEF Below
  <2>2. IsFiniteSet(Below(r)) /\ Cardinality(Below(r)) <= Cardinality(S)
        /\ (Cardinality(S) = Cardinality(Below(r)) => S = Below(r))
    BY <1>5, <2>1, FS_Subset
  <2>3. Cardinality(Below(r)) \in Nat /\ Cardinality(S) \in Nat
    BY <1>5, <2>2, FS_CardinalityType
  <2>4. Cardinality(S) # Cardinality(Below(r))
    BY <2>1, <2>2
  <2> QED BY <2>2, <2>3, <2>4
<1>8. ASSUME NEW r \in S, NEW t \in S, r < t
      PROVE  Cardinality(Below(r)) < Cardinality(Below(t))
  <2>1. Below(r) \in SUBSET Below(t) /\ r \in Below(t) /\ r \notin Below(r)
    <3>1. r \in Nat /\ t \in Nat /\ r < t /\ \A q \in S : q \in Nat
      BY <1>6, <1>8
    <3>2. \A q \in S : q < r => q < t
      BY <3>1
    <3>3. ~(r < r)
      BY <3>1
    <3> QED BY <3>1, <3>2, <3>3
  <2>2. IsFiniteSet(Below(t)) /\ Cardinality(Below(r)) \in Nat /\ Cardinality(Below(t)) \in Nat
    BY <1>7
  <2> HIDE DEF Below
  <2>3. Cardinality(Below(r)) <= Cardinality(Below(t))
        /\ (Cardinality(Below(t)) = Cardinality(Below(r)) => Below(t) = Below(r))
    BY <2>1, <2>2, FS_Subset
  <2>4. Cardinality(Below(t)) # Cardinality(Below(r))
    BY <2>1, <2>3
  <2> QED BY <2>2, <2>3, <2>4
<1>9. Cardinality(S) \in Nat
  BY <1>5, FS_CardinalityType
<1> HIDE DEF Below
<1>10. \A p \in P : Rank(c, p) \in 0..(Cardinality(S) - 1)
  <2> SUFFICES ASSUME NEW p \in P PROVE Rank(c, p) \in 0..(Cardinality(S) - 1)
    OBVIOUS
  <2>1. f[p] \in S /\ Rank(c, p) = Cardinality(Below(f[p]))
    BY <1>4, <1>6
  <2>2. Cardinality(Below(f[p])) \in Nat /\ Cardinality(Below(f[p])) < Cardinality(S)
    BY <1>7, <2>1
  <2> QED BY <1>9, <2>1, <2>2
<1>11. \A p, q \in P : Rank(c, p) = Rank(c, q) => f[p] = f[q]
  <2> SUFFICES ASSUME NEW p \in P, NEW q \in P, f[p] # f[q] PROVE Rank(c, p) # Rank(c, q)
    OBVIOUS
  <2>1. f[p] \in S /\ f[q] \in S /\ Rank(c, p) = Cardinality(Below(f[p]))
        /\ Rank(c, q) = Cardinality(Below(f[q])) /\ f[p] \in Nat /\ f[q] \in Nat
    BY <1>1, <1>4, <1>6
  <2>2. f[p] < f[q] \/ f[q] < f[p]
    BY <2>1
  <2>3. Cardinality(Below(f[p])) \in Nat /\ Cardinality(Below(f[q])) \in Nat
    BY <1>7, <2>1
  <2>4. Cardinality(Below(f[p])) < Cardinality(Below(f[q]))
        \/ Cardinality(Below(f[q])) < Cardinality(Below(f[p]))
    BY <1>8, <2>1, <2>2
  <2> QED BY <2>1, <2>3, <2>4
<1> QED BY <1>9, <1>10, <1>11 DEF S, P, f

(* A number and a remainder below z make a number that determines both. *)
LEMMA PairUnique ==
    ASSUME NEW z \in Nat \ {0}, NEW a \in Nat, NEW b \in Nat,
           NEW g \in 0..(z - 1), NEW h \in 0..(z - 1), a * z + g = b * z + h
    PROVE  a = b /\ g = h
<1>1. a * z + g \in Nat /\ a * z + g = z * a + g /\ a * z + g = z * b + h
  BY SMT
<1> DEFINE n == a * z + g
<1> HIDE DEF n
<1>2. n \div z = a /\ n % z = g
  BY <1>1, DivUnique, Zenon DEF n
<1>3. n \div z = b /\ n % z = h
  BY <1>1, DivUnique, Zenon DEF n
<1> QED BY <1>2, <1>3

(* A number below m and a remainder below z make a number below m * z. *)
LEMMA PairBound ==
    ASSUME NEW z \in Nat \ {0}, NEW m \in Nat, NEW a \in 0..(m - 1), NEW g \in 0..(z - 1)
    PROVE  a * z + g \in 0..(m * z - 1)
<1>1. z * a + z <= z * m
  BY LessMul
<1>2. a * z = z * a /\ m * z = z * m /\ z * a \in Nat /\ z * m \in Nat
  BY SMT
<1> QED BY <1>1, <1>2

(* Tails: a column is one group's, and one class of stripes'. *)
LEMMA TailColumns ==
    ASSUME NEW c \in Configs, NEW p \in Positions(c), NEW g \in 0..(c.z - 1)
    PROVE  /\ TailCol(c, p, g) \in 2..(1 + Cardinality(RootSet(c)) * c.z)
           /\ \A q \in Positions(c) : \A h \in 0..(c.z - 1) :
                 TailCol(c, p, g) = TailCol(c, q, h) =>
                     g = h /\ TailRoots(c)[p] = TailRoots(c)[q]
<1> DEFINE z == c.z
           m == Cardinality(RootSet(c))
<1>1. z \in Nat \ {0} /\ m \in Nat
  BY Sizes, RanksOfRoots
<1>2. \A q \in Positions(c) : \A h \in 0..(z - 1) : TailCol(c, q, h) = 2 + Rank(c, q) * z + h
  BY DEF TailCol, Rank
<1>3. \A q \in Positions(c) : Rank(c, q) \in 0..(m - 1)
  BY RanksOfRoots
<1> HIDE DEF z, m
<1>4. Rank(c, p) * z + g \in 0..(m * z - 1)
  BY <1>1, <1>3, PairBound, Zenon DEF z
<1>5. TailCol(c, p, g) \in 2..(1 + m * z)
  <2>1. TailCol(c, p, g) = 2 + Rank(c, p) * z + g /\ Rank(c, p) \in Nat /\ g \in Nat
        /\ m * z \in Nat
    BY <1>1, <1>2, <1>3 DEF z
  <2> QED BY <1>1, <1>4, <2>1
<1>6. ASSUME NEW q \in Positions(c), NEW h \in 0..(z - 1), TailCol(c, p, g) = TailCol(c, q, h)
      PROVE  g = h /\ TailRoots(c)[p] = TailRoots(c)[q]
  <2>1. Rank(c, p) \in Nat /\ Rank(c, q) \in Nat /\ g \in 0..(z - 1)
    BY <1>1, <1>3 DEF z
  <2>2. 2 + Rank(c, p) * z + g = 2 + Rank(c, q) * z + h
    BY <1>2, <1>6 DEF z
  <2>3. Rank(c, p) * z + g = Rank(c, q) * z + h
    BY <1>1, <2>1, <2>2
  <2>4. h \in 0..(z - 1) /\ z \in Nat \ {0}
    BY <1>1
  <2>5. Rank(c, p) = Rank(c, q) /\ g = h
    BY <2>1, <2>3, <2>4, PairUnique
  <2> QED BY <2>5, RanksOfRoots
<1> QED BY <1>5, <1>6 DEF z, m

(* Full racks: a column is one group's of one stripe. *)
LEMMA FullColumns ==
    ASSUME NEW c \in Configs, NEW p \in Positions(c), NEW g \in 0..(c.z - 1),
           NEW s \in 0..(RacksPerGroup(c) - 2)
    PROVE  /\ FullCol(c, p, g, s) \in (2 + Cardinality(RootSet(c)) * c.z)..LogicalRacks(c)
           /\ \A q \in Positions(c) : \A h \in 0..(c.z - 1) : \A t \in 0..(RacksPerGroup(c) - 2) :
                 FullCol(c, p, g, s) = FullCol(c, q, h, t) => p = q /\ g = h /\ s = t
<1> DEFINE z == c.z
           B == BatchSize(c)
           m == Cardinality(RootSet(c)) * c.z
           f == RacksPerGroup(c) - 1
<1>1. /\ z \in Nat \ {0} /\ B \in Nat \ {0} /\ m \in Nat /\ f \in Nat /\ f # 0
      /\ Positions(c) = 0..(B - 1) /\ s \in 0..(f - 1) /\ f - 1 = RacksPerGroup(c) - 2
  <2>1. z \in Nat \ {0} /\ Cardinality(RootSet(c)) \in Nat /\ RacksPerGroup(c) \in Nat
    BY Sizes, RanksOfRoots, TailShare
  <2>2. m \in Nat
    BY <2>1
  <2>3. B \in Nat \ {0} /\ Positions(c) = 0..(B - 1)
    BY Batches
  <2>4. /\ f - 1 = RacksPerGroup(c) - 2 /\ f \in Int /\ s \in 0..(f - 1)
    BY <2>1
  <2>5. f \in Nat /\ f # 0
    <3> HIDE DEF f
    <3> QED BY <2>4
  <2> QED BY <2>1, <2>2, <2>3, <2>4, <2>5
<1>2. \A q \in Positions(c) : \A h \in 0..(z - 1) : \A t \in 0..(f - 1) :
         FullCol(c, q, h, t) = 2 + m + (q * z + h) * f + t
  BY DEF FullCol
<1>3. LogicalRacks(c) = 1 + m + B * z * f
  BY DEF LogicalRacks
<1>4. g \in 0..(z - 1)
  OBVIOUS
<1> HIDE DEF z, B, m, f
<1>5. f \in Nat \ {0}
  BY <1>1
<1>6. \A q \in 0..(B - 1) : \A h \in 0..(z - 1) : q * z + h \in 0..(B * z - 1)
  BY <1>1, PairBound
<1>7. B * z \in Nat
  BY <1>1
<1>8. (p * z + g) * f + s \in 0..(B * z * f - 1)
  <2>1. p * z + g \in 0..(B * z - 1)
    BY <1>1, <1>4, <1>6
  <2> QED BY <1>1, <1>5, <1>7, <2>1, PairBound, Zenon
<1>9. FullCol(c, p, g, s) \in (2 + m)..LogicalRacks(c)
  <2> DEFINE x == (p * z + g) * f
             y == B * z * f
  <2>1. x + s \in 0..(y - 1) /\ FullCol(c, p, g, s) = 2 + m + x + s
        /\ LogicalRacks(c) = 1 + m + y
    BY <1>1, <1>2, <1>3, <1>4, <1>8
  <2>2. x \in Nat /\ y \in Nat /\ s \in Nat
    <3>1. p * z + g \in Nat
      BY <1>1, <1>4, <1>6
    <3> QED BY <1>1, <1>7, <3>1
  <2> HIDE DEF x, y
  <2> QED BY <1>1, <2>1, <2>2
<1>10. ASSUME NEW q \in 0..(B - 1), NEW h \in 0..(z - 1), NEW t \in 0..(f - 1),
              FullCol(c, p, g, s) = FullCol(c, q, h, t)
       PROVE  p = q /\ g = h /\ s = t
  <2> DEFINE a == p * z + g
             b == q * z + h
  <2>1. a \in Nat /\ b \in Nat
    BY <1>1, <1>4, <1>6
  <2>2. 2 + m + a * f + s = 2 + m + b * f + t
    <3>1. s \in 0..(f - 1) /\ t \in 0..(f - 1) /\ h \in 0..(z - 1) /\ q \in Positions(c)
      BY <1>1, Zenon
    <3>2. FullCol(c, p, g, s) = 2 + m + a * f + s
      BY <1>2, <1>4, <3>1, Zenon
    <3>3. FullCol(c, q, h, t) = 2 + m + b * f + t
      BY <1>2, <3>1, Zenon
    <3> QED BY <1>10, <3>2, <3>3, Zenon
  <2> HIDE DEF a, b
  <2>3. a * f + s = b * f + t
    <3> DEFINE x == a * f
               y == b * f
    <3>1. x \in Nat /\ y \in Nat /\ s \in Nat /\ t \in Nat /\ 2 + m + x + s = 2 + m + y + t
      BY <1>1, <2>1, <2>2
    <3> HIDE DEF x, y
    <3>2. x + s = y + t
      BY <1>1, <3>1
    <3> QED BY <3>2 DEF x, y
  <2>4. a = b /\ s = t
    <3>1. s \in 0..(f - 1) /\ t \in 0..(f - 1)
      BY <1>1
    <3> QED BY <1>5, <2>1, <2>3, <3>1, PairUnique
  <2>5. p \in Nat /\ q \in Nat /\ p * z + g = q * z + h
    BY <1>1, <2>4 DEF a, b
  <2>6. p = q /\ g = h
    <3>1. g \in 0..(z - 1) /\ h \in 0..(z - 1) /\ z \in Nat \ {0}
      BY <1>1, <1>4
    <3> QED BY <2>5, <3>1, PairUnique
  <2> QED BY <2>4, <2>6
<1> QED BY <1>1, <1>9, <1>10 DEF z, m, f

-----------------------------------------------------------------------------
(***************************************************************************)
(* The slot of a data block.                                               *)
(***************************************************************************)

(* Where a data block is in its group: the rack among the group's racks,   *)
(* and the place in that rack.                                             *)
GroupOf(c, i) == i \div DataPerGroup(c)
RackOf(c, i)  == (i % DataPerGroup(c)) \div RackCapacity(c)
PlaceOf(c, i) == (i % DataPerGroup(c)) % RackCapacity(c)

(* Group, rack and place of a block are in range and determine the block. *)
LEMMA BlockNumbers ==
    ASSUME NEW c \in Configs, NEW i \in 0..(c.k - 1)
    PROVE  /\ GroupOf(c, i) \in 0..(c.z - 1)
           /\ RackOf(c, i) \in 0..(RacksPerGroup(c) - 1)
           /\ PlaceOf(c, i) \in 0..(RackCapacity(c) - 1)
           /\ RackOf(c, i) = RacksPerGroup(c) - 1 => PlaceOf(c, i) < TailLoad(c)
           /\ i = DataPerGroup(c) * GroupOf(c, i)
                    + (RackCapacity(c) * RackOf(c, i) + PlaceOf(c, i))
<1> DEFINE d == DataPerGroup(c)
           R == RackCapacity(c)
           f == RacksPerGroup(c) - 1
           T == TailLoad(c)
           k == c.k
           z == c.z
           g == i \div d
           w == i % d
           s == w \div R
           x == w % R
<1>1. /\ d \in Nat \ {0} /\ R \in Nat \ {0} /\ k = d * z /\ z \in Nat \ {0}
      /\ f \in Nat /\ T \in 1..R /\ d = f * R + T
  <2>1. /\ d \in Nat \ {0} /\ R \in Nat \ {0} /\ k = z * d /\ z \in Nat \ {0}
    BY Sizes
  <2>2. /\ f \in Nat /\ T \in 1..R /\ d = f * R + T
    BY TailShare
  <2>3. z * d = d * z
    BY <2>1
  <2> QED BY <2>1, <2>2, <2>3
<1>2. g = GroupOf(c, i) /\ s = RackOf(c, i) /\ x = PlaceOf(c, i)
  BY DEF GroupOf, RackOf, PlaceOf
<1>3. i \in Nat /\ i < d * z
  <2>1. i \in 0..(k - 1) /\ k \in Nat
    BY Sizes
  <2> HIDE DEF k
  <2> QED BY <1>1, <2>1
<1> HIDE DEF d, R, f, T, k, z
<1>4. g \in Nat /\ w \in 0..(d - 1) /\ i = (d * g) + w /\ g < z
  BY <1>1, <1>3, DivMod, DivBound
<1> HIDE DEF g, w
<1>5. s \in Nat /\ x \in 0..(R - 1) /\ w = (R * s) + x
  <2>1. w \in Nat
    BY <1>1, <1>4
  <2> QED BY <1>1, <2>1, DivMod
<1> HIDE DEF s, x
<1>6. s <= f
  <2> SUFFICES ASSUME f < s PROVE FALSE
    BY <1>1, <1>5
  <2>1. R * f + R <= R * s
    BY <1>1, <1>5, LessMul
  <2>2. f * R = R * f /\ R * f \in Nat /\ R * s \in Nat
    BY <1>1, <1>5
  <2> QED BY <1>1, <1>4, <1>5, <2>1, <2>2
<1>7. ASSUME s = f PROVE x < T
  <2>1. f * R = R * s /\ R * s \in Nat
    BY <1>1, <1>5, <1>7
  <2> QED BY <1>1, <1>4, <1>5, <2>1
<1>8. g \in 0..(z - 1) /\ s \in 0..f
  BY <1>1, <1>4, <1>5, <1>6
<1>9. i = d * g + (R * s + x)
  BY <1>4, <1>5
<1> QED BY <1>2, <1>5, <1>7, <1>8, <1>9 DEF d, R, f, T, z

(* A slot, by rack: a full rack starts at its first node, a tail rack      *)
(* after the stripes of its class that come before.                        *)
LEMMA SlotFields ==
    ASSUME NEW c, NEW p, NEW i
    PROVE  LET slot == DataSlot(c, p, i)
               tail == RackOf(c, i) = RacksPerGroup(c) - 1
           IN  /\ slot.group = GroupOf(c, i)
               /\ tail => /\ slot.col = TailCol(c, p, GroupOf(c, i))
                          /\ slot.ncol = TailOffset(c, p) + PlaceOf(c, i) + 1
               /\ ~tail => /\ slot.col = FullCol(c, p, GroupOf(c, i), RackOf(c, i))
                           /\ slot.ncol = 0 + PlaceOf(c, i) + 1
BY DEF DataSlot, GroupOf, RackOf, PlaceOf

(* Stripes of one class follow each other in their tail racks. *)
LEMMA OffsetsApart ==
    ASSUME NEW c \in Configs, NEW p \in Positions(c)
    PROVE  /\ TailOffset(c, p) \in Nat
           /\ \A q \in Positions(c) :
                 p < q /\ TailRoots(c)[p] = TailRoots(c)[q] =>
                     TailOffset(c, p) + TailLoad(c) <= TailOffset(c, q)
<1> DEFINE f == TailRoots(c)
           Before(q) == {x \in 0..(q - 1) : f[x] = f[q]}
           L == TailLoad(c)
<1>1. L \in Nat /\ \A q \in Positions(c) : q \in Nat
  BY TailShare, Batches, Sizes
<1>2. \A q \in Positions(c) : TailOffset(c, q) = L * Cardinality(Before(q))
  BY DEF TailOffset
<1> HIDE DEF f, L
<1>3. \A q \in Positions(c) : IsFiniteSet(Before(q)) /\ Cardinality(Before(q)) \in Nat
  <2> SUFFICES ASSUME NEW q \in Positions(c)
               PROVE  IsFiniteSet(Before(q)) /\ Cardinality(Before(q)) \in Nat
    OBVIOUS
  <2>1. Before(q) \subseteq 0..(0 + q - 1) /\ q \in Nat /\ 0 \in Int
    BY <1>1
  <2> HIDE DEF Before
  <2> QED BY <2>1, IntervalBound
<1>4. TailOffset(c, p) \in Nat
  <2>1. Cardinality(Before(p)) \in Nat /\ TailOffset(c, p) = L * Cardinality(Before(p))
    BY <1>2, <1>3
  <2> QED BY <1>1, <2>1
<1>5. ASSUME NEW q \in Positions(c), p < q, f[p] = f[q]
      PROVE  TailOffset(c, p) + L <= TailOffset(c, q)
  <2>1. Before(p) \cup {p} \in SUBSET Before(q) /\ p \notin Before(p)
    <3>1. p \in Nat /\ q \in Nat
      BY <1>1
    <3> QED BY <1>5, <3>1
  <2>2. IsFiniteSet(Before(p)) /\ Cardinality(Before(p)) \in Nat
        /\ IsFiniteSet(Before(q)) /\ Cardinality(Before(q)) \in Nat
    BY <1>3
  <2>3. TailOffset(c, p) = L * Cardinality(Before(p))
        /\ TailOffset(c, q) = L * Cardinality(Before(q))
    BY <1>2
  <2> HIDE DEF Before
  <2>4. Cardinality(Before(p) \cup {p}) = Cardinality(Before(p)) + 1
    BY <2>1, <2>2, FS_AddElement
  <2>5. Cardinality(Before(p) \cup {p}) <= Cardinality(Before(q))
    BY <2>1, <2>2, FS_Subset
  <2> DEFINE a == Cardinality(Before(p))
             b == Cardinality(Before(q))
  <2>6. a \in Nat /\ b \in Nat /\ a + 1 <= b
    BY <2>2, <2>4, <2>5
  <2> HIDE DEF a, b
  <2>7. L * a + L <= L * b
    BY <1>1, <2>6
  <2> QED BY <2>3, <2>7 DEF a, b
<1> QED BY <1>4, <1>5 DEF f, L

(* A placement that is not refused keeps every data block off the parity   *)
(* column, within the logical racks and within r+1 nodes of each.          *)
LEMMA SlotRange ==
    ASSUME NEW c \in Configs, NEW p \in Positions(c), PlacementFits(c, p),
           NEW i \in 0..(c.k - 1)
    PROVE  LET slot == DataSlot(c, p, i)
           IN  /\ slot.group \in 0..(c.z - 1)
               /\ slot.col \in 2..17
               /\ slot.ncol \in 1..RackCapacity(c)
<1> DEFINE slot == DataSlot(c, p, i)
           g == GroupOf(c, i)
           s == RackOf(c, i)
           x == PlaceOf(c, i)
           f == RacksPerGroup(c) - 1
           m == Cardinality(RootSet(c)) * c.z
           R == RackCapacity(c)
           T == TailLoad(c)
           o == TailOffset(c, p)
<1>1. /\ g \in 0..(c.z - 1) /\ s \in 0..f /\ x \in 0..(R - 1)
      /\ s = f => x < T
  BY BlockNumbers
<1>2. /\ slot.group = g
      /\ s = f => slot.col = TailCol(c, p, g) /\ slot.ncol = o + x + 1
      /\ s # f => slot.col = FullCol(c, p, g, s) /\ slot.ncol = 0 + x + 1
  BY SlotFields
<1>3. LogicalRacks(c) <= 17 /\ o + T <= R
  BY DEF PlacementFits
<1>4. /\ T \in 1..R /\ R \in Nat /\ f \in Nat /\ o \in Nat /\ m \in Nat
      /\ LogicalRacks(c) \in Nat /\ m + 1 <= LogicalRacks(c)
  <2>1. T \in 1..R /\ R \in Nat /\ f \in Nat /\ o \in Nat
    BY TailShare, Sizes, OffsetsApart
  <2>2. Cardinality(RootSet(c)) \in Nat /\ c.z \in Nat /\ BatchSize(c) \in Nat
    BY RanksOfRoots, Sizes, Batches
  <2>3. m \in Nat /\ BatchSize(c) * c.z * f \in Nat
    <3>1. m \in Nat /\ BatchSize(c) * c.z \in Nat
      BY <2>2
    <3> HIDE DEF f
    <3> QED BY <2>1, <3>1
  <2>4. LogicalRacks(c) = 1 + m + BatchSize(c) * c.z * f
    BY DEF LogicalRacks
  <2> HIDE DEF m, f
  <2> DEFINE n == BatchSize(c) * c.z * f
  <2>5. n \in Nat /\ LogicalRacks(c) = 1 + m + n
    BY <2>3, <2>4
  <2> HIDE DEF n
  <2> QED BY <2>1, <2>3, <2>5
<1>5. ASSUME s # f PROVE slot.col \in 2..17
  <2>1. s \in 0..(RacksPerGroup(c) - 2)
    <3>1. RacksPerGroup(c) \in Nat /\ f = RacksPerGroup(c) - 1
      BY TailShare
    <3> HIDE DEF s, f
    <3> QED BY <1>1, <1>5, <3>1
  <2>2. FullCol(c, p, g, s) \in (2 + m)..LogicalRacks(c)
    BY <1>1, <2>1, FullColumns
  <2> HIDE DEF g, s, m, slot, f
  <2> QED BY <1>2, <1>3, <1>4, <1>5, <2>2
<1>6. ASSUME s = f PROVE slot.col \in 2..17
  <2>1. TailCol(c, p, g) \in 2..(1 + m)
    BY <1>1, TailColumns
  <2> HIDE DEF g, s, m, slot, f
  <2> QED BY <1>2, <1>3, <1>4, <1>6, <2>1
<1> HIDE DEF g, s, x, f, m, R, T, o, slot
<1>7. slot.ncol \in 1..R
  <2>1. CASE s = f
    <3>1. slot.ncol = o + x + 1 /\ x < T /\ x \in Nat
      BY <1>1, <1>2, <1>4, <2>1
    <3> QED BY <1>3, <1>4, <3>1
  <2>2. CASE s # f
    <3>1. slot.ncol = 0 + x + 1 /\ x \in 0..(R - 1)
      BY <1>1, <1>2, <2>2
    <3> QED BY <1>4, <3>1
  <2> QED BY <2>1, <2>2
<1>8. slot.group \in 0..(c.z - 1)
  BY <1>1, <1>2
<1> QED BY <1>5, <1>6, <1>7, <1>8 DEF slot, R

(* Two data blocks of one batch: in one column they are of one group, and  *)
(* on one node of a column they are the same block of the same stripe.     *)
LEMMA SlotsApart ==
    ASSUME NEW c \in Configs,
           NEW p \in Positions(c), PlacementFits(c, p), NEW i \in 0..(c.k - 1),
           NEW q \in Positions(c), PlacementFits(c, q), NEW j \in 0..(c.k - 1),
           DataSlot(c, p, i).col = DataSlot(c, q, j).col
    PROVE  /\ DataSlot(c, p, i).group = DataSlot(c, q, j).group
           /\ DataSlot(c, p, i).ncol = DataSlot(c, q, j).ncol => p = q /\ i = j
<1> DEFINE f == RacksPerGroup(c) - 1
           m == Cardinality(RootSet(c)) * c.z
           d == DataPerGroup(c)
           R == RackCapacity(c)
           T == TailLoad(c)
           Col(pos, n)  == DataSlot(c, pos, n).col
           NCol(pos, n) == DataSlot(c, pos, n).ncol
           G(n) == GroupOf(c, n)
           S(n) == RackOf(c, n)
           X(n) == PlaceOf(c, n)
           O(pos) == TailOffset(c, pos)
<1>1. \A n \in {i, j} : /\ G(n) \in 0..(c.z - 1) /\ S(n) \in 0..f /\ X(n) \in Nat
                        /\ S(n) = f => X(n) < T
                        /\ n = d * G(n) + (R * S(n) + X(n))
  <2>1. R \in Nat
    BY Sizes
  <2> SUFFICES ASSUME NEW n \in {i, j}
               PROVE  /\ G(n) \in 0..(c.z - 1) /\ S(n) \in 0..f /\ X(n) \in Nat
                      /\ S(n) = f => X(n) < T
                      /\ n = d * G(n) + (R * S(n) + X(n))
    OBVIOUS
  <2>2. /\ G(n) \in 0..(c.z - 1) /\ S(n) \in 0..f /\ X(n) \in 0..(R - 1)
        /\ S(n) = f => X(n) < T
        /\ n = d * G(n) + (R * S(n) + X(n))
    BY BlockNumbers
  <2>3. X(n) \in Nat
    <3> HIDE DEF X, R
    <3> QED BY <2>1, <2>2
  <2> QED BY <2>2, <2>3
<1>2. \A pos : \A n : /\ DataSlot(c, pos, n).group = G(n)
                      /\ S(n) = f => Col(pos, n) = TailCol(c, pos, G(n))
                                     /\ NCol(pos, n) = O(pos) + X(n) + 1
                      /\ S(n) # f => Col(pos, n) = FullCol(c, pos, G(n), S(n))
                                     /\ NCol(pos, n) = 0 + X(n) + 1
  BY SlotFields
<1>3. f \in Nat /\ f - 1 = RacksPerGroup(c) - 2 /\ T \in Nat /\ m \in Nat
      /\ O(p) \in Nat /\ O(q) \in Nat /\ p \in Nat /\ q \in Nat
  <2>1. f \in Nat /\ f - 1 = RacksPerGroup(c) - 2 /\ T \in Nat /\ O(p) \in Nat /\ O(q) \in Nat
    BY TailShare, OffsetsApart, Sizes
  <2>2. Cardinality(RootSet(c)) \in Nat /\ c.z \in Nat
    BY RanksOfRoots, Sizes
  <2>3. p \in Nat /\ q \in Nat
    BY Batches
  <2>4. m \in Nat
    BY <2>2
  <2> QED BY <2>1, <2>3, <2>4
<1>4. \A pos \in {p, q} : \A n \in {i, j} :
         /\ S(n) = f => Col(pos, n) \in 2..(1 + m)
         /\ S(n) # f => Col(pos, n) >= 2 + m
  <2> SUFFICES ASSUME NEW pos \in {p, q}, NEW n \in {i, j}
               PROVE  /\ S(n) = f => Col(pos, n) \in 2..(1 + m)
                      /\ S(n) # f => Col(pos, n) >= 2 + m
    BY Zenon
  <2>1. pos \in Positions(c) /\ G(n) \in 0..(c.z - 1) /\ S(n) \in 0..f
    BY <1>1
  <2>2. S(n) = f => Col(pos, n) \in 2..(1 + m)
    BY <1>2, <2>1, TailColumns
  <2>3. ASSUME S(n) # f PROVE Col(pos, n) >= 2 + m
    <3>1. S(n) \in 0..(RacksPerGroup(c) - 2)
      <4> HIDE DEF S, f
      <4> QED BY <1>3, <2>1, <2>3
    <3>2. FullCol(c, pos, G(n), S(n)) \in (2 + m)..LogicalRacks(c)
      BY <2>1, <3>1, FullColumns
    <3>3. Col(pos, n) = FullCol(c, pos, G(n), S(n))
      BY <1>2, <2>3
    <3> QED BY <3>2, <3>3
  <2> QED BY <2>2, <2>3
<1>5. Col(p, i) = Col(q, j)
  OBVIOUS
<1>6. CASE S(i) = f /\ S(j) = f
  <2>1. TailCol(c, p, G(i)) = TailCol(c, q, G(j))
    <3>1. Col(p, i) = TailCol(c, p, G(i))
      BY <1>2, <1>6, Zenon
    <3>2. Col(q, j) = TailCol(c, q, G(j))
      BY <1>2, <1>6, Zenon
    <3> QED BY <1>5, <3>1, <3>2, Zenon
  <2>2. G(i) = G(j) /\ TailRoots(c)[p] = TailRoots(c)[q]
    <3>1. G(i) \in 0..(c.z - 1) /\ G(j) \in 0..(c.z - 1)
      BY <1>1, Zenon
    <3> HIDE DEF G
    <3> QED BY <2>1, <3>1, TailColumns
  <2>3. DataSlot(c, p, i).group = DataSlot(c, q, j).group
    BY <1>2, <2>2, Zenon
  <2>4. ASSUME NCol(p, i) = NCol(q, j) PROVE p = q /\ i = j
    <3>1. X(i) \in Nat /\ X(j) \in Nat /\ X(i) < T /\ X(j) < T
      BY <1>1, <1>6, Zenon
    <3>2. O(p) + X(i) + 1 = O(q) + X(j) + 1
      <4>1. NCol(p, i) = O(p) + X(i) + 1 /\ NCol(q, j) = O(q) + X(j) + 1
        BY <1>2, <1>6, Zenon
      <4> QED BY <2>4, <4>1, Zenon
    <3>3. p < q => O(p) + T <= O(q)
      BY <2>2, OffsetsApart, Zenon
    <3>4. q < p => O(q) + T <= O(p)
      BY <2>2, OffsetsApart, Zenon
    <3>5. p = q
      <4> HIDE DEF O, X, T
      <4> QED BY <1>3, <3>1, <3>2, <3>3, <3>4
    <3>6. X(i) = X(j)
      <4> HIDE DEF O, X
      <4> QED BY <1>3, <3>1, <3>2, <3>5
    <3>7. i = j
      BY <1>1, <1>6, <2>2, <3>6, Zenon
    <3> QED BY <3>5, <3>7
  <2> QED BY <2>3, <2>4
<1>7. CASE S(i) # f /\ S(j) # f
  <2>1. FullCol(c, p, G(i), S(i)) = FullCol(c, q, G(j), S(j))
    BY <1>2, <1>5, <1>7, Zenon
  <2>2. p = q /\ G(i) = G(j) /\ S(i) = S(j)
    <3>1. /\ G(i) \in 0..(c.z - 1) /\ G(j) \in 0..(c.z - 1)
          /\ S(i) \in 0..f /\ S(j) \in 0..f
      BY <1>1, Zenon
    <3>2. S(i) \in 0..(RacksPerGroup(c) - 2) /\ S(j) \in 0..(RacksPerGroup(c) - 2)
      <4> HIDE DEF S, f
      <4> QED BY <1>3, <1>7, <3>1
    <3> HIDE DEF G, S
    <3> QED BY <2>1, <3>1, <3>2, FullColumns
  <2>3. DataSlot(c, p, i).group = DataSlot(c, q, j).group
    BY <1>2, <2>2, Zenon
  <2>4. ASSUME NCol(p, i) = NCol(q, j) PROVE i = j
    <3>1. 0 + X(i) + 1 = 0 + X(j) + 1 /\ X(i) \in Nat /\ X(j) \in Nat
      BY <1>1, <1>2, <1>7, <2>4, Zenon
    <3>2. X(i) = X(j)
      <4> HIDE DEF X
      <4> QED BY <3>1
    <3> QED BY <1>1, <2>2, <3>2, Zenon
  <2> QED BY <2>2, <2>3, <2>4
<1>8. CASE (S(i) = f /\ S(j) # f) \/ (S(i) # f /\ S(j) = f)
  <2>1. (Col(p, i) \in 2..(1 + m) /\ Col(q, j) >= 2 + m)
        \/ (Col(p, i) >= 2 + m /\ Col(q, j) \in 2..(1 + m))
    BY <1>4, <1>8, Zenon
  <2> HIDE DEF Col, m
  <2> QED BY <1>3, <1>5, <2>1
<1> QED BY <1>6, <1>7, <1>8

-----------------------------------------------------------------------------
(***************************************************************************)
(* Physical places.                                                        *)
(***************************************************************************)

(* A row that lists the numbers 1..n in its first n places lists each once. *)
LEMMA RowIsPermutation ==
    ASSUME NEW n \in Nat, NEW row \in Seq(Nat), Len(row) >= n,
           ToSet(SubSeq(row, 1, n)) = 1..n
    PROVE  /\ \A i \in 1..n : row[i] \in 1..n
           /\ \A i, j \in 1..n : row[i] = row[j] => i = j
<1> DEFINE f == [i \in 1..n |-> row[i]]
<1>1. DOMAIN SubSeq(row, 1, n) = 1..n /\ \A i \in 1..n : SubSeq(row, 1, n)[i] = row[i]
  OBVIOUS
<1>2. {row[i] : i \in 1..n} = 1..n
  BY <1>1 DEF ToSet
<1>3. f \in Surjection(1..n, 1..n)
  BY <1>2 DEF Surjection
<1>4. IsFiniteSet(1..n)
  BY FS_Interval
<1>5. f \in Injection(1..n, 1..n)
  <2> HIDE DEF f
  <2> QED BY <1>3, <1>4, FS_SurjSameCardinalityImpliesInj
<1>6. \A i, j \in 1..n : f[i] = f[j] => i = j
  <2> HIDE DEF f
  <2> QED BY <1>5, Zenon DEF Injection, IsInjective
<1> QED BY <1>2, <1>6

(* The rows a batch uses are rows of the two tables. *)
LEMMA RowsOfBatch ==
    ASSUME NEW batch \in Nat
    PROVE  RackRow(batch) \in ToSet(OA1) /\ NodeRow(batch) \in ToSet(OA2)
<1> DEFINE m == Len(OA1)
           n == Len(OA2)
           x == Cycle(batch)
<1>1. m \in Nat \ {0} /\ n \in Nat \ {0} /\ DOMAIN OA1 = 1..m /\ DOMAIN OA2 = 1..n
  BY TablesAssumption
<1>2. x = batch % (m * n)
  BY DEF Cycle
<1>3. RackRow(batch) = OA1[(x \div n) + 1] /\ NodeRow(batch) = OA2[(x % n) + 1]
  BY DEF RackRow, NodeRow
<1> HIDE DEF m, n, x
<1>4. n * m = m * n /\ m * n \in Nat \ {0}
  BY <1>1
<1>5. x \in Nat /\ x < n * m
  <2>1. x \in 0..(m * n - 1)
    BY <1>2, <1>4, DivMod
  <2> QED BY <1>4, <2>1
<1>6. x \div n \in Nat /\ x % n \in 0..(n - 1) /\ x \div n < m
  BY <1>1, <1>5, DivMod, DivBound
<1>7. (x \div n) + 1 \in 1..m /\ (x % n) + 1 \in 1..n
  BY <1>1, <1>6
<1> QED BY <1>1, <1>3, <1>7 DEF ToSet

(* A rack column is one rack, a node column of it one node. *)
LEMMA PlacesApart ==
    ASSUME NEW batch \in Nat, NEW col \in 1..17, NEW other \in 1..17
    PROVE  /\ Cluster(batch, col) \in 0..16
           /\ Cluster(batch, col) = Cluster(batch, other) => col = other
           /\ \A n, m \in 1..DatanodeNumPerCluster :
                 Node(batch, col, n) = Node(batch, other, m) => col = other /\ n = m
<1> DEFINE racks == RackRow(batch)
           nodes == NodeRow(batch)
           D == DatanodeNumPerCluster
<1>1. D \in Nat /\ racks \in ToSet(OA1) /\ nodes \in ToSet(OA2)
  BY RowsOfBatch, DimensionsAssumption
<1>2. racks \in Seq(Nat) /\ nodes \in Seq(Nat)
  BY <1>1, TablesAssumption DEF ToSet
<1>3. /\ Len(racks) >= 17 /\ ToSet(SubSeq(racks, 1, 17)) = 1..17
      /\ Len(nodes) >= D /\ ToSet(SubSeq(nodes, 1, D)) = 1..D
  BY <1>1, TablesAssumption
<1>4. \A b : \A x : Cluster(b, x) = RackRow(b)[x] - 1
  BY DEF Cluster
<1>5. \A b : \A x : \A y : Node(b, x, y) = <<Cluster(b, x), NodeRow(b)[y] - 1>>
  BY DEF Node
<1> HIDE DEF racks, nodes, D
<1>6. /\ \A i \in 1..17 : racks[i] \in 1..17
      /\ \A i, j \in 1..17 : racks[i] = racks[j] => i = j
  <2>1. 17 \in Nat
    OBVIOUS
  <2> QED BY <1>2, <1>3, <2>1, RowIsPermutation, Zenon
<1>7. /\ \A i \in 1..D : nodes[i] \in 1..D
      /\ \A i, j \in 1..D : nodes[i] = nodes[j] => i = j
  BY <1>1, <1>2, <1>3, RowIsPermutation, Zenon
<1>8. Cluster(batch, col) \in 0..16 /\ (Cluster(batch, col) = Cluster(batch, other) => col = other)
  <2>1. Cluster(batch, col) = racks[col] - 1 /\ Cluster(batch, other) = racks[other] - 1
    BY <1>4 DEF racks
  <2>2. racks[col] \in 1..17 /\ racks[other] \in 1..17
        /\ (racks[col] = racks[other] => col = other)
    BY <1>6
  <2> QED BY <2>1, <2>2
<1>9. ASSUME NEW n \in 1..D, NEW m \in 1..D, Node(batch, col, n) = Node(batch, other, m)
      PROVE  col = other /\ n = m
  <2>1. Cluster(batch, col) = Cluster(batch, other) /\ nodes[n] - 1 = nodes[m] - 1
    BY <1>5, <1>9 DEF nodes
  <2>2. nodes[n] = nodes[m]
    <3>1. nodes[n] \in 1..D /\ nodes[m] \in 1..D
      BY <1>7
    <3> QED BY <1>1, <2>1, <3>1
  <2> QED BY <1>7, <1>8, <2>1, <2>2
<1> QED BY <1>8, <1>9 DEF D

-----------------------------------------------------------------------------
(***************************************************************************)
(* Sequences of nothing.                                                   *)
(***************************************************************************)

(* There is one way to list no numbers. *)
LEMMA NothingAscending == Ascending({}) = <<>>
<1>1. Cardinality({}) = 0
  BY FS_EmptySet
<1> QED BY <1>1 DEF Ascending

(* Empty sequences make an empty sequence. *)
LEMMA FlattenNothing ==
    ASSUME NEW n \in Nat, NEW seqs, seqs = [i \in 1..n |-> <<>>]
    PROVE  FlattenSeq(seqs) = <<>>
<1> DEFINE Prefix(f, i) == IF i = 1 THEN seqs[i] ELSE f[i - 1] \o seqs[i]
           flatten[i \in 1..Len(seqs)] ==
               IF i = 1 THEN seqs[i] ELSE flatten[i - 1] \o seqs[i]
<1>1. Len(seqs) = n /\ \A i \in 1..n : seqs[i] = <<>>
  OBVIOUS
<1>2. CASE n = 0
  BY <1>1, <1>2 DEF FlattenSeq
<1>3. CASE n # 0
  <2>1. \E f : f = [i \in 1..Len(seqs) |-> Prefix(f, i)]
    <3> WITNESS [i \in 1..Len(seqs) |-> <<>>]
    <3>1. \A i \in 1..n : i # 1 => i - 1 \in 1..n
      OBVIOUS
    <3>2. <<>> \o <<>> = <<>>
      OBVIOUS
    <3> QED BY <1>1, <3>1, <3>2
  <2>2. flatten = [i \in 1..Len(seqs) |-> Prefix(flatten, i)]
    BY <2>1
  <2> HIDE DEF flatten
  <2> DEFINE S == {i \in 0..n : i = 0 \/ flatten[i] = <<>>}
  <2>3. 0 \in S
    OBVIOUS
  <2>4. ASSUME NEW i \in 1..n, i - 1 \in S PROVE i \in S
    <3>1. flatten[i] = Prefix(flatten, i) /\ seqs[i] = <<>>
      BY <1>1, <2>2
    <3>2. CASE i = 1
      BY <3>1, <3>2
    <3>3. CASE i # 1
      <4>1. flatten[i - 1] = <<>>
        BY <2>4, <3>3
      <4>2. <<>> \o <<>> = <<>>
        OBVIOUS
      <4> QED BY <3>1, <3>3, <4>1, <4>2
    <3> QED BY <3>2, <3>3
  <2> HIDE DEF S
  <2>5. n \in S
    <3>1. 0..n \subseteq S
      BY <2>3, <2>4, UpTo
    <3> QED BY <3>1
  <2>6. flatten[n] = <<>>
    BY <1>3, <2>5 DEF S
  <2>7. FlattenSeq(seqs) = flatten[Len(seqs)]
    BY <1>1, <1>3 DEF FlattenSeq, flatten
  <2> QED BY <1>1, <2>6, <2>7
<1> QED BY <1>2, <1>3

-----------------------------------------------------------------------------
(***************************************************************************)
(* The planner.  Placed says that a data block lies where its upload put   *)
(* it, in a batch; MergePair what two stripes of one batch are to a merge. *)
(***************************************************************************)
BlockType == [id : Nat \X Nat, group : Int, col : Int, ncol : Int]

PlacedBy(c, uploads, batch, d) ==
    LET pos  == d.id[1] % BatchSize(c)
        slot == DataSlot(c, pos, d.id[2])
    IN  /\ d.id \in (0..(uploads - 1)) \X (0..(c.k - 1))
        /\ d.id[1] \div BatchSize(c) = batch
        /\ PlacementFits(c, pos)
        /\ d.group = slot.group /\ d.col = slot.col /\ d.ncol = slot.ncol

Placed(batch, d) == PlacedBy(cfg, nextId, batch, d)

MergePair(a, b) ==
    /\ a.k \in Nat \ {0} /\ b.k = a.k /\ a.batch \in Nat
    /\ a.data \in [1..a.k -> BlockType] /\ b.data \in [1..a.k -> BlockType]
    /\ \A n \in 1..a.k : Placed(a.batch, a.data[n]) /\ Placed(a.batch, b.data[n])
    /\ \A n, m \in 1..a.k : /\ a.data[n].id = a.data[m].id => n = m
                            /\ b.data[n].id = b.data[m].id => n = m
                            /\ a.data[n].id # b.data[m].id
    /\ a.parity[1].col = ParityCol

(* Two blocks of a batch that lie where they were put: in one rack they    *)
(* are of one group, on one node they are one block.                       *)
LEMMA PlacedApart ==
    ASSUME cfg \in Configs, nextId \in Nat, NEW batch \in Nat,
           NEW d \in BlockType, Placed(batch, d), NEW e \in BlockType, Placed(batch, e)
    PROVE  /\ d.col \in 2..17 /\ d.ncol \in 1..RackCapacity(cfg) /\ d.group \in 0..(cfg.z - 1)
           /\ d.ncol \in 1..DatanodeNumPerCluster
           /\ Cluster(batch, d.col) # Cluster(batch, ParityCol)
           /\ Cluster(batch, d.col) = Cluster(batch, e.col) => d.col = e.col
           /\ d.col = e.col => d.group = e.group
           /\ d.col = e.col /\ d.ncol = e.ncol => d.id = e.id
           /\ Node(batch, d.col, d.ncol) = Node(batch, e.col, e.ncol) => d.id = e.id
<1> DEFINE B == BatchSize(cfg)
           R == RackCapacity(cfg)
<1>1. B \in Nat \ {0} /\ Positions(cfg) = 0..(B - 1)
  BY Batches
<1>2. R \in Nat /\ R <= DatanodeNumPerCluster /\ DatanodeNumPerCluster \in Nat
  BY Sizes
<1>3. \A u : PosOf(u) = u % B /\ BatchOf(u) = u \div B
  BY DEF PosOf, BatchOf
<1>4. PICK u \in 0..(nextId - 1), i \in 0..(cfg.k - 1) : d.id = <<u, i>>
  BY DEF Placed, PlacedBy
<1>5. PICK v \in 0..(nextId - 1), j \in 0..(cfg.k - 1) : e.id = <<v, j>>
  BY DEF Placed, PlacedBy
<1> DEFINE p == PosOf(u)
           q == PosOf(v)
<1>6. /\ BatchOf(u) = batch /\ PlacementFits(cfg, p)
      /\ BatchOf(v) = batch /\ PlacementFits(cfg, q)
  BY <1>4, <1>5 DEF Placed, PlacedBy, PosOf, BatchOf
<1>7. /\ d.group = DataSlot(cfg, p, i).group /\ d.col = DataSlot(cfg, p, i).col
      /\ d.ncol = DataSlot(cfg, p, i).ncol
      /\ e.group = DataSlot(cfg, q, j).group /\ e.col = DataSlot(cfg, q, j).col
      /\ e.ncol = DataSlot(cfg, q, j).ncol
  BY <1>4, <1>5 DEF Placed, PlacedBy, PosOf
<1>8. p \in Positions(cfg) /\ q \in Positions(cfg) /\ u = B * batch + p /\ v = B * batch + q
  <2> HIDE DEF B
  <2>1. u \in Nat /\ v \in Nat
    OBVIOUS
  <2>2. /\ u % B \in 0..(B - 1) /\ u = (B * (u \div B)) + (u % B)
        /\ v % B \in 0..(B - 1) /\ v = (B * (v \div B)) + (v % B)
    BY <1>1, <2>1, DivMod
  <2> QED BY <1>1, <1>3, <1>6, <2>2, Zenon
<1> HIDE DEF p, q, B
<1>9. d.col \in 2..17 /\ d.ncol \in 1..R /\ d.group \in 0..(cfg.z - 1)
      /\ e.col \in 2..17 /\ e.ncol \in 1..R
  <2>1. /\ DataSlot(cfg, p, i).group \in 0..(cfg.z - 1)
        /\ DataSlot(cfg, p, i).col \in 2..17 /\ DataSlot(cfg, p, i).ncol \in 1..R
    BY <1>6, <1>8, SlotRange
  <2>2. /\ DataSlot(cfg, q, j).col \in 2..17 /\ DataSlot(cfg, q, j).ncol \in 1..R
    BY <1>6, <1>8, SlotRange
  <2> QED BY <1>7, <2>1, <2>2
<1>10. ASSUME d.col = e.col
       PROVE  d.group = e.group /\ (d.ncol = e.ncol => d.id = e.id)
  <2>1. DataSlot(cfg, p, i).col = DataSlot(cfg, q, j).col
    BY <1>7, <1>10
  <2>2. /\ DataSlot(cfg, p, i).group = DataSlot(cfg, q, j).group
        /\ DataSlot(cfg, p, i).ncol = DataSlot(cfg, q, j).ncol => p = q /\ i = j
    BY <1>6, <1>8, <2>1, SlotsApart
  <2>3. p = q => u = v
    BY <1>8
  <2> QED BY <1>4, <1>5, <1>7, <2>2, <2>3
<1> HIDE DEF R
<1>11. d.col \in 1..17 /\ e.col \in 1..17 /\ ParityCol \in 1..17 /\ d.col # ParityCol
  BY <1>9 DEF ParityCol
<1>12. d.ncol \in 1..DatanodeNumPerCluster /\ e.ncol \in 1..DatanodeNumPerCluster
  BY <1>2, <1>9
<1>13. Cluster(batch, d.col) # Cluster(batch, ParityCol)
       /\ (Cluster(batch, d.col) = Cluster(batch, e.col) => d.col = e.col)
  BY <1>11, PlacesApart
<1>14. Node(batch, d.col, d.ncol) = Node(batch, e.col, e.ncol)
         => d.col = e.col /\ d.ncol = e.ncol
  BY <1>11, <1>12, PlacesApart
<1> QED BY <1>9, <1>10, <1>12, <1>13, <1>14 DEF R

(* The blocks of both stripes of a merge: typed, lying where they were     *)
(* put, and no two the same.                                               *)
LEMMA CombinedBlocks ==
    ASSUME NEW a, NEW b, MergePair(a, b)
    PROVE  /\ 2 * a.k \in Nat
           /\ Combined(a, b) \in [1..(2 * a.k) -> BlockType]
           /\ \A n \in 1..a.k : /\ Combined(a, b)[n] = a.data[n]
                                /\ Combined(a, b)[n + a.k] = b.data[n]
           /\ \A n \in 1..(2 * a.k) : Placed(a.batch, Combined(a, b)[n])
           /\ \A n, m \in 1..(2 * a.k) : Combined(a, b)[n].id = Combined(a, b)[m].id => n = m
<1> DEFINE k == a.k
           A == a.data
           B == b.data
           C == Combined(a, b)
<1>1. /\ k \in Nat \ {0} /\ A \in [1..k -> BlockType] /\ B \in [1..k -> BlockType]
      /\ \A n \in 1..k : Placed(a.batch, A[n]) /\ Placed(a.batch, B[n])
      /\ \A n, m \in 1..k : /\ A[n].id = A[m].id => n = m
                            /\ B[n].id = B[m].id => n = m
                            /\ A[n].id # B[m].id
  BY DEF MergePair
<1>2. C = A \o B
  BY DEF Combined
<1> HIDE DEF k, A, B, C
<1>3. 2 * k = k + k
  BY <1>1
<1>4. /\ C \in [1..(2 * k) -> BlockType]
      /\ \A n \in 1..(2 * k) : C[n] = IF n <= k THEN A[n] ELSE B[n - k]
  <2>1. A \in Seq(BlockType) /\ B \in Seq(BlockType) /\ Len(A) = k /\ Len(B) = k
    BY <1>1
  <2>2. A \o B \in Seq(BlockType) /\ Len(A \o B) = k + k
    BY <1>1, <2>1
  <2>3. A \o B \in [1..(k + k) -> BlockType]
    <3> DEFINE s == A \o B
    <3>1. s \in Seq(BlockType) /\ Len(s) = k + k
      BY <2>2
    <3> HIDE DEF s
    <3>2. s \in [1..Len(s) -> BlockType]
      BY <3>1
    <3> QED BY <3>1, <3>2 DEF s
  <2>4. \A n \in 1..(k + k) : (A \o B)[n] = IF n <= k THEN A[n] ELSE B[n - k]
    <3> TAKE n \in 1..(k + k)
    <3>1. k \in Nat
      BY <1>1
    <3> QED BY <2>1, <3>1, SMTT(30)
  <2> QED BY <1>2, <1>3, <2>3, <2>4, Zenon
<1>5. \A n \in 1..k : C[n] = A[n] /\ C[n + k] = B[n]
  <2> SUFFICES ASSUME NEW n \in 1..k PROVE C[n] = A[n] /\ C[n + k] = B[n]
    OBVIOUS
  <2>1. n \in 1..(2 * k) /\ n + k \in 1..(2 * k) /\ n <= k /\ ~(n + k <= k) /\ (n + k) - k = n
    BY <1>1
  <2> QED BY <1>4, <2>1
<1>6. \A n \in 1..(2 * k) : ~(n <= k) => n - k \in 1..k
  BY <1>1
<1>7. \A n \in 1..(2 * k) : n <= k => n \in 1..k
  BY <1>1
<1>8. \A n \in 1..(2 * k) : Placed(a.batch, C[n])
  BY <1>1, <1>4, <1>6, <1>7, Zenon
<1>9. ASSUME NEW n \in 1..(2 * k), NEW m \in 1..(2 * k), C[n].id = C[m].id PROVE n = m
  <2>1. CASE n <= k /\ m <= k
    BY <1>1, <1>4, <1>7, <1>9, <2>1, Zenon
  <2>2. CASE n <= k /\ ~(m <= k)
    BY <1>1, <1>4, <1>6, <1>7, <1>9, <2>2, Zenon
  <2>3. CASE ~(n <= k) /\ m <= k
    <3>1. n - k \in 1..k /\ m \in 1..k
      BY <1>6, <1>7, <2>3, Zenon
    <3>2. A[m].id = B[n - k].id
      BY <1>4, <1>9, <2>3, Zenon
    <3> QED BY <1>1, <3>1, <3>2, Zenon
  <2>4. CASE ~(n <= k) /\ ~(m <= k)
    <3>1. n - k = m - k
      <4>1. n - k \in 1..k /\ m - k \in 1..k
        BY <1>6, <2>4, Zenon
      <4>2. B[n - k].id = B[m - k].id
        BY <1>4, <1>9, <2>4, Zenon
      <4> QED BY <1>1, <4>1, <4>2, Zenon
    <3>2. k \in Int /\ n \in Int /\ m \in Int
      BY <1>1
    <3> QED BY <3>1, <3>2
  <2> QED BY <2>1, <2>2, <2>3, <2>4
<1>10. 2 * k \in Nat
  BY <1>1
<1> QED BY <1>4, <1>5, <1>8, <1>9, <1>10 DEF k, A, B, C

(* The plan starts from where the blocks are. *)
LEMMA PlannedPlaces ==
    ASSUME NEW a, NEW b, NEW n \in 1..(2 * a.k)
    PROVE  /\ Locations(a, b)[n].col = Combined(a, b)[n].col
           /\ Locations(a, b)[n].ncol = Combined(a, b)[n].ncol
           /\ LocCluster(a, Locations(a, b)[n]) = Cluster(a.batch, Combined(a, b)[n].col)
           /\ LocNode(a, Locations(a, b)[n])
                = Node(a.batch, Combined(a, b)[n].col, Combined(a, b)[n].ncol)
BY DEF Locations, LocCluster, LocNode

(* Blocks of a batch that share a rack are on different nodes of it and in *)
(* one group, and fit in it.                                               *)
LEMMA RackShare ==
    ASSUME cfg \in Configs, nextId \in Nat, NEW batch \in Nat, NEW k \in Nat,
           NEW D \in [1..k -> BlockType], \A n \in 1..k : Placed(batch, D[n]),
           \A n, m \in 1..k : D[n].id = D[m].id => n = m,
           NEW rack, NEW S \in SUBSET (1..k),
           \A n \in S : Cluster(batch, D[n].col) = rack
    PROVE  IsFiniteSet(S) /\ Cardinality(S) \in Nat /\ Cardinality(S) <= RackCapacity(cfg)
<1> DEFINE R == RackCapacity(cfg)
           f == [n \in S |-> D[n].ncol]
<1>1. \A n \in S : n \in 1..k /\ D[n] \in BlockType /\ Placed(batch, D[n])
  OBVIOUS
<1>2. \A n \in S : D[n].ncol \in 1..R
  BY <1>1, PlacedApart
<1>3. ASSUME NEW n \in S, NEW m \in S, D[n].ncol = D[m].ncol PROVE n = m
  <2>1. Cluster(batch, D[n].col) = Cluster(batch, D[m].col)
    OBVIOUS
  <2>2. D[n].id = D[m].id
    <3>1. /\ D[n] \in BlockType /\ Placed(batch, D[n])
          /\ D[m] \in BlockType /\ Placed(batch, D[m])
      BY <1>1
    <3> QED BY <1>3, <2>1, <3>1, PlacedApart
  <2> QED BY <1>1, <2>2
<1>4. R \in Nat /\ IsFiniteSet(1..R) /\ Cardinality(1..R) = R
  <2>1. R \in Nat
    BY Sizes
  <2> HIDE DEF R
  <2> QED BY <2>1, FS_Interval
<1> HIDE DEF R
<1>5. f \in Injection(S, 1..R)
  BY <1>2, <1>3 DEF Injection, IsInjective
<1>6. IsFiniteSet(S) /\ Cardinality(S) <= R
  BY <1>4, <1>5, FS_Injection
<1> QED BY <1>6, FS_CardinalityType DEF R

(* No block of a group has to leave a rack: no right block is on a node a  *)
(* left block uses, and no rack holds more than r+1 of them.               *)
LEMMA NothingLeavesRack ==
    ASSUME cfg \in Configs, nextId \in Nat, NEW a, NEW b, MergePair(a, b),
           NEW group, NEW rack
    PROVE  LeavingRack(a, b, group, rack) = <<>>
<1> DEFINE D == Combined(a, b)
           k == a.k
           loc == Locations(a, b)
           here == {n \in 1..(2 * a.k) : /\ Combined(a, b)[n].group = group
                                         /\ LocCluster(a, loc[n]) = rack}
           leftNodes == {LocNode(a, loc[n]) : n \in here \cap (1..a.k)}
           right  == here \cap ((a.k + 1)..(2 * a.k))
           clash  == {n \in right : LocNode(a, loc[n]) \in leftNodes}
           others == right \ clash
           excess == Max({0, Cardinality(here) - RackCapacity(cfg) - Cardinality(clash)})
<1>1. /\ k \in Nat \ {0} /\ a.batch \in Nat /\ 2 * k \in Nat
      /\ D \in [1..(2 * k) -> BlockType]
      /\ \A n \in 1..(2 * k) : Placed(a.batch, D[n])
      /\ \A n, m \in 1..(2 * k) : D[n].id = D[m].id => n = m
  <2>1. k \in Nat \ {0} /\ a.batch \in Nat
    BY DEF MergePair
  <2> QED BY <2>1, CombinedBlocks
<1>2. \A n \in 1..(2 * k) : /\ LocCluster(a, loc[n]) = Cluster(a.batch, D[n].col)
                            /\ LocNode(a, loc[n]) = Node(a.batch, D[n].col, D[n].ncol)
  BY PlannedPlaces
<1>3. LeavingRack(a, b, group, rack)
        = Ascending(clash) \o SubSeq(Ascending(others), 1, Min({excess, Cardinality(others)}))
  BY DEF LeavingRack
<1>4. /\ IsFiniteSet(here) /\ Cardinality(here) \in Nat
      /\ Cardinality(here) <= RackCapacity(cfg)
  <2>1. here \in SUBSET (1..(2 * k)) /\ \A n \in here : Cluster(a.batch, D[n].col) = rack
    BY <1>2
  <2> HIDE DEF here, k, D
  <2> QED BY <1>1, <2>1, RackShare
<1>5. clash = {}
  <2> SUFFICES ASSUME NEW n \in clash PROVE FALSE
    OBVIOUS
  <2>1. PICK m \in here \cap (1..k) : LocNode(a, loc[n]) = LocNode(a, loc[m])
    OBVIOUS
  <2>2. n \in 1..(2 * k) /\ m \in 1..(2 * k) /\ n # m
    BY <1>1
  <2>3. Node(a.batch, D[n].col, D[n].ncol) = Node(a.batch, D[m].col, D[m].ncol)
    BY <1>2, <2>1, <2>2
  <2>4. D[n].id = D[m].id
    <3>1. /\ D[n] \in BlockType /\ D[m] \in BlockType
          /\ Placed(a.batch, D[n]) /\ Placed(a.batch, D[m])
      BY <1>1, <2>2
    <3> HIDE DEF D
    <3> QED BY <1>1, <2>3, <3>1, PlacedApart
  <2> QED BY <1>1, <2>2, <2>4
<1>6. IsFiniteSet(others) /\ Cardinality(others) \in Nat
  <2>1. others \in SUBSET here
    OBVIOUS
  <2> HIDE DEF here, others
  <2>2. IsFiniteSet(others)
    BY <1>4, <2>1, FS_Subset
  <2> QED BY <2>2, FS_CardinalityType
<1>7. excess = 0
  <2> DEFINE x == Cardinality(here) - RackCapacity(cfg) - Cardinality(clash)
  <2>1. Cardinality(clash) = 0
    BY <1>5, FS_EmptySet
  <2>2. x \in Int /\ x <= 0
    <3> HIDE DEF here, clash
    <3> QED BY <1>4, <2>1, Sizes
  <2>3. excess = Max({0, x})
    OBVIOUS
  <2> HIDE DEF x, excess
  <2>4. excess \in {0, x} /\ excess >= 0
    BY <2>2, <2>3, MaxOfTwo
  <2> QED BY <2>2, <2>4
<1>8. Min({excess, Cardinality(others)}) = 0
  <2> DEFINE y == Cardinality(others)
             l == Min({0, y})
  <2>1. y \in Nat
    BY <1>6
  <2> HIDE DEF y
  <2>2. l \in {0, y} /\ l <= 0
    <3>1. 0 \in Int /\ y \in Int
      BY <2>1
    <3> QED BY <3>1, MinOfTwo, Zenon
  <2>3. l = 0
    <3> HIDE DEF l
    <3> QED BY <2>1, <2>2
  <2> HIDE DEF excess
  <2> QED BY <1>7, <2>3 DEF y
<1> HIDE DEF clash, others, excess
<1>9. SubSeq(Ascending(others), 1, 0) = <<>>
  BY DEF Ascending
<1>10. <<>> \o <<>> = <<>>
  OBVIOUS
<1> QED BY <1>3, <1>5, <1>8, <1>9, <1>10, NothingAscending

(* So no block leaves at all. *)
LEMMA NothingLeaves ==
    ASSUME cfg \in Configs, nextId \in Nat, NEW a, NEW b, MergePair(a, b), NEW group
    PROVE  Leaving(a, b, group) = <<>>
<1> DEFINE H == {m \in 1..(2 * a.k) : Combined(a, b)[m].group = group}
           f == [n \in H |-> LocCluster(a, Locations(a, b)[n])]
           racks == {LocCluster(a, Locations(a, b)[n]) : n \in H}
           seqs == [i \in 1..Cardinality(racks) |->
                      LeavingRack(a, b, group, Ascending(racks)[i])]
<1>1. Leaving(a, b, group) = FlattenSeq(seqs)
  BY DEF Leaving
<1>2. Cardinality(racks) \in Nat
  <2>1. 2 * a.k \in Nat
    BY CombinedBlocks
  <2>2. IsFiniteSet(H)
    <3>1. H \in SUBSET (1..(2 * a.k)) /\ IsFiniteSet(1..(2 * a.k))
      BY <2>1, FS_Interval
    <3> HIDE DEF H
    <3> QED BY <3>1, FS_Subset
  <2>3. f \in Surjection(H, racks)
    <3> HIDE DEF H
    <3> QED BY DEF Surjection
  <2> HIDE DEF f, H, racks
  <2>4. IsFiniteSet(racks)
    BY <2>2, <2>3, FS_Surjection
  <2> QED BY <2>4, FS_CardinalityType
<1>3. \A i : LeavingRack(a, b, group, Ascending(racks)[i]) = <<>>
  <2> HIDE DEF racks
  <2> QED BY NothingLeavesRack
<1> HIDE DEF racks
<1>4. seqs = [i \in 1..Cardinality(racks) |-> <<>>]
  BY <1>3
<1> HIDE DEF seqs
<1> QED BY <1>1, <1>2, <1>4, FlattenNothing

(* The planner leaves every block where it is. *)
LEMMA PlanKeeps ==
    ASSUME cfg \in Configs, nextId \in Nat, NEW a, NEW b, MergePair(a, b)
    PROVE  MovePlan(a, b) = [ok |-> TRUE, loc |-> Locations(a, b)]
<1> DEFINE leaving == FlattenSeq([g \in 1..cfg.z |-> Leaving(a, b, g - 1)])
           first == [ok |-> TRUE, loc |-> Locations(a, b)]
           Step(plan, n) ==
               LET places == FreePlaces(a, b, plan.loc, n)
               IN  IF ~plan.ok \/ places = {} THEN [plan EXCEPT !.ok = FALSE]
                   ELSE LET to == BestPlace(places)
                        IN  [plan EXCEPT !.loc[n] = [col |-> to.col, ncol |-> to.ncol]]
           iter[s \in SUBSET DOMAIN leaving] ==
               IF s = {} THEN first ELSE Step(iter[s \ {Max(s)}], leaving[Max(s)])
<1>1. leaving = <<>>
  <2>1. cfg.z \in Nat
    BY Sizes
  <2>2. [g \in 1..cfg.z |-> Leaving(a, b, g - 1)] = [g \in 1..cfg.z |-> <<>>]
    BY NothingLeaves
  <2> QED BY <2>1, <2>2, FlattenNothing
<1>2. MovePlan(a, b) = iter[DOMAIN leaving]
  BY DEF MovePlan, FoldLeft, MapThenFoldSet
<1>3. DOMAIN leaving = {}
  <2> HIDE DEF leaving
  <2> QED BY <1>1
<1>4. iter = [s \in SUBSET DOMAIN leaving |->
                IF s = {} THEN first ELSE Step(iter[s \ {Max(s)}], leaving[Max(s)])]
  <2>1. \E f : f = [s \in SUBSET DOMAIN leaving |->
                      IF s = {} THEN first ELSE Step(f[s \ {Max(s)}], leaving[Max(s)])]
    <3> HIDE DEF leaving, Step
    <3> WITNESS [s \in SUBSET DOMAIN leaving |-> first]
    <3> QED BY <1>3
  <2> HIDE DEF leaving, Step, first
  <2> QED BY <2>1
<1>5. iter[{}] = first
  <2> HIDE DEF leaving, Step, first, iter
  <2> QED BY <1>3, <1>4
<1> HIDE DEF iter, leaving
<1> QED BY <1>2, <1>3, <1>5

(* And the layout it leaves is accepted. *)
LEMMA LayoutKeeps ==
    ASSUME cfg \in Configs, nextId \in Nat, NEW a, NEW b, MergePair(a, b)
    PROVE  LayoutAccepted(a, Locations(a, b))
<1> DEFINE D == Combined(a, b)
           k == a.k
           loc == Locations(a, b)
           Rack(n) == {m \in DOMAIN loc : LocCluster(a, loc[m]) = LocCluster(a, loc[n])}
<1>1. /\ a.batch \in Nat /\ 2 * k \in Nat /\ a.parity[1].col = ParityCol
      /\ D \in [1..(2 * k) -> BlockType]
      /\ \A n \in 1..(2 * k) : Placed(a.batch, D[n])
      /\ \A n, m \in 1..(2 * k) : D[n].id = D[m].id => n = m
  <2>1. a.batch \in Nat /\ a.parity[1].col = ParityCol
    BY DEF MergePair
  <2> QED BY <2>1, CombinedBlocks
<1>2. \A n \in 1..(2 * k) : /\ LocCluster(a, loc[n]) = Cluster(a.batch, D[n].col)
                            /\ LocNode(a, loc[n]) = Node(a.batch, D[n].col, D[n].ncol)
  BY PlannedPlaces
<1>3. DOMAIN loc = 1..(2 * k)
  BY DEF Locations
<1> SUFFICES ASSUME NEW n \in 1..(2 * k)
             PROVE  /\ LocCluster(a, loc[n]) # Cluster(a.batch, a.parity[1].col)
                    /\ Cardinality(Rack(n)) <= RackCapacity(cfg)
                    /\ \A m \in Rack(n) \ {n} : LocNode(a, loc[m]) # LocNode(a, loc[n])
  BY <1>3 DEF LayoutAccepted
<1> HIDE DEF D, k, loc
<1>4. D[n] \in BlockType /\ Placed(a.batch, D[n])
  BY <1>1
<1>5. LocCluster(a, loc[n]) # Cluster(a.batch, a.parity[1].col)
  <2>1. Cluster(a.batch, D[n].col) # Cluster(a.batch, ParityCol)
    BY <1>1, <1>4, PlacedApart
  <2> QED BY <1>1, <1>2, <2>1
<1>6. Rack(n) \in SUBSET (1..(2 * k))
      /\ \A m \in Rack(n) : Cluster(a.batch, D[m].col) = LocCluster(a, loc[n])
  BY <1>2, <1>3
<1>7. Cardinality(Rack(n)) <= RackCapacity(cfg)
  <2> HIDE DEF Rack
  <2> QED BY <1>1, <1>6, RackShare
<1>8. ASSUME NEW m \in Rack(n) \ {n} PROVE LocNode(a, loc[m]) # LocNode(a, loc[n])
  <2>1. m \in 1..(2 * k) /\ m # n
    BY <1>6
  <2>2. D[m] \in BlockType /\ Placed(a.batch, D[m]) /\ D[m].id # D[n].id
    BY <1>1, <2>1
  <2>3. Node(a.batch, D[m].col, D[m].ncol) # Node(a.batch, D[n].col, D[n].ncol)
    BY <1>1, <1>4, <2>2, PlacedApart
  <2> QED BY <1>2, <2>1, <2>3
<1> QED BY <1>5, <1>7, <1>8

-----------------------------------------------------------------------------
(***************************************************************************)
(* The inductive invariant: every data block of every stripe, merged or    *)
(* not, lies where its upload put it, in the batch of its stripe; no block *)
(* is in two stripes; and the parities combine the data the stripe lists.  *)
(***************************************************************************)
Encodes(c, s) ==
    /\ s.global = {<<s.data[n].id, n - 1>> : n \in 1..s.k}
    /\ DOMAIN s.local = 0..(c.z - 1)
    /\ \A g \in 0..(c.z - 1) :
          s.local[g] = {s.data[n].id : n \in {m \in 1..s.k : s.data[m].group = g}}

StripeOf(c, uploads, sid, s) ==
    /\ \E l \in 0..MergeRounds(c) : s.k = c.k * 2^l
    /\ s.batch = sid \div BatchSize(c) /\ s.pos = sid % BatchSize(c)
    /\ s.data \in [1..s.k -> BlockType]
    /\ \A n \in 1..s.k : PlacedBy(c, uploads, s.batch, s.data[n])
    /\ \A n, m \in 1..s.k : s.data[n].id = s.data[m].id => n = m
    /\ s.parity = [p \in 1..(c.r + c.z) |-> [col |-> ParityCol, ncol |-> p]]
    /\ Encodes(c, s)

Apart(s, t) == \A n \in 1..s.k : \A m \in 1..t.k : s.data[n].id # t.data[m].id

LiveInv ==
    /\ cfg \in Configs /\ nextId \in 0..IdBound /\ losses \in 0..MaxLosses
    /\ DOMAIN stripes \subseteq 0..(nextId - 1)
    /\ \A sid \in DOMAIN stripes : StripeOf(cfg, nextId, sid, stripes[sid])
    /\ \A s, t \in DOMAIN stripes : s # t => Apart(stripes[s], stripes[t])

(* Sizes of stripes are positive. *)
LEMMA StripeSizes ==
    ASSUME NEW c \in Configs, NEW uploads, NEW sid, NEW s, StripeOf(c, uploads, sid, s)
    PROVE  s.k \in Nat \ {0}
<1>1. PICK l \in 0..MergeRounds(c) : s.k = c.k * 2^l
  BY DEF StripeOf
<1>2. 2^l \in Nat \ {0}
  <2>1. l \in 0..LevelBound
    BY Levels, DimensionsAssumption
  <2> QED BY <2>1, PowersAssumption
<1>3. c.k \in Nat \ {0}
  BY Sizes
<1> DEFINE x == 2^l
           k == c.k
<1> HIDE DEF x, k
<1>4. x * k \in Nat \ {0} /\ k * x \in Nat \ {0}
  BY <1>2, <1>3 DEF x, k
<1> QED BY <1>1, <1>4 DEF x, k

(* The stripe an upload adds. *)
LEMMA NewStripeOf ==
    ASSUME cfg \in Configs, nextId \in Nat, PlacementFits(cfg, PosOf(nextId))
    PROVE  /\ StripeOf(cfg, nextId + 1, nextId, NewStripe(nextId))
           /\ \A n \in 1..NewStripe(nextId).k : NewStripe(nextId).data[n].id[1] = nextId
<1> DEFINE s == NewStripe(nextId)
           k == cfg.k
           B == BatchSize(cfg)
           pos == PosOf(nextId)
           slot(n) == DataSlot(cfg, pos, n - 1)
<1>1. k \in Nat \ {0} /\ cfg.z \in Nat \ {0} /\ B \in Nat \ {0}
  BY Sizes, Batches
<1>2. pos = nextId % B /\ BatchOf(nextId) = nextId \div B /\ nextId \div B \in Nat
      /\ pos \in Positions(cfg)
  <2>1. Positions(cfg) = 0..(B - 1) /\ nextId % B \in 0..(B - 1) /\ nextId \div B \in Nat
    <3> HIDE DEF B
    <3>1. nextId % B \in 0..(B - 1) /\ nextId \div B \in Nat
      BY <1>1, DivMod
    <3>2. Positions(cfg) = 0..(B - 1)
      BY Batches DEF B
    <3> QED BY <3>1, <3>2
  <2> QED BY <2>1 DEF PosOf, BatchOf
<1>3. /\ s.k = k /\ s.batch = nextId \div B /\ s.pos = nextId % B
      /\ s.data = [n \in 1..k |-> [id |-> <<nextId, n - 1>>, group |-> slot(n).group,
                                   col |-> slot(n).col, ncol |-> slot(n).ncol]]
      /\ s.parity = [p \in 1..(cfg.r + cfg.z) |-> [col |-> ParityCol, ncol |-> p]]
  BY <1>2 DEF NewStripe, PlacedBlock
<1>4. /\ s.global = {<<s.data[n].id, n - 1>> : n \in 1..s.k}
      /\ DOMAIN s.local = 0..(cfg.z - 1)
      /\ \A g \in 0..(cfg.z - 1) :
            s.local[g] = {s.data[n].id : n \in {m \in 1..s.k : s.data[m].group = g}}
  BY DEF NewStripe
<1> HIDE DEF s, k, B, pos
<1>5. \A n \in 1..k : n - 1 \in 0..(k - 1)
  BY <1>1
<1>6. \A n \in 1..k : /\ slot(n).group \in 0..(cfg.z - 1) /\ slot(n).col \in 2..17
                      /\ slot(n).ncol \in 1..RackCapacity(cfg)
  <2>1. PlacementFits(cfg, pos)
    BY DEF pos
  <2> QED BY <1>2, <1>5, <2>1, SlotRange DEF k
<1> HIDE DEF slot
<1>7. \A n \in 1..k : /\ s.data[n].id = <<nextId, n - 1>> /\ s.data[n].group = slot(n).group
                      /\ s.data[n].col = slot(n).col /\ s.data[n].ncol = slot(n).ncol
                      /\ s.data[n].id[1] = nextId /\ s.data[n].id[2] = n - 1
  BY <1>3
<1>8. s.data \in [1..s.k -> BlockType]
  <2>1. \A n \in 1..k : /\ slot(n).group \in Int /\ slot(n).col \in Int /\ slot(n).ncol \in Int
                        /\ n - 1 \in Nat
    BY <1>1, <1>5, <1>6
  <2> QED BY <1>3, <2>1 DEF BlockType
<1>9. \A n \in 1..s.k : PlacedBy(cfg, nextId + 1, s.batch, s.data[n])
  <2> SUFFICES ASSUME NEW n \in 1..k PROVE PlacedBy(cfg, nextId + 1, s.batch, s.data[n])
    BY <1>3
  <2>1. nextId \in 0..(nextId + 1 - 1) /\ n - 1 \in 0..(k - 1)
    BY <1>5
  <2>2. /\ s.data[n].id \in (0..(nextId + 1 - 1)) \X (0..(k - 1))
        /\ s.data[n].id[1] = nextId /\ s.data[n].id[2] = n - 1
    <3>1. <<nextId, n - 1>> \in (0..(nextId + 1 - 1)) \X (0..(k - 1))
      BY <2>1
    <3> QED BY <1>7, <3>1, Zenon
  <2>3. PlacementFits(cfg, nextId % B) /\ s.batch = nextId \div B
    BY <1>2, <1>3 DEF pos
  <2>4. s.data[n].group = slot(n).group /\ s.data[n].col = slot(n).col
        /\ s.data[n].ncol = slot(n).ncol /\ slot(n) = DataSlot(cfg, nextId % B, n - 1)
    BY <1>2, <1>7 DEF slot
  <2> DEFINE d == s.data[n]
  <2>5. /\ d.id[1] \div B = s.batch /\ PlacementFits(cfg, d.id[1] % B)
        /\ d.group = DataSlot(cfg, d.id[1] % B, d.id[2]).group
        /\ d.col = DataSlot(cfg, d.id[1] % B, d.id[2]).col
        /\ d.ncol = DataSlot(cfg, d.id[1] % B, d.id[2]).ncol
    BY <2>2, <2>3, <2>4
  <2> HIDE DEF d
  <2>6. d.id \in (0..(nextId + 1 - 1)) \X (0..(k - 1))
    BY <2>2 DEF d
  <2>7. PlacedBy(cfg, nextId + 1, s.batch, d)
    BY <2>5, <2>6 DEF PlacedBy, B, k
  <2> QED BY <2>7 DEF d
<1>10. \A n, m \in 1..s.k : s.data[n].id = s.data[m].id => n = m
  <2> SUFFICES ASSUME NEW n \in 1..k, NEW m \in 1..k, s.data[n].id = s.data[m].id
               PROVE  n = m
    BY <1>3
  <2>1. n - 1 = m - 1
    BY <1>7
  <2> QED BY <1>1, <2>1
<1>11. \E l \in 0..MergeRounds(cfg) : s.k = cfg.k * 2^l
  <2>1. 0 \in 0..MergeRounds(cfg) /\ 2^0 = 1
    BY Levels, DimensionsAssumption
  <2>2. s.k = cfg.k * 2^0
    BY <1>1, <1>3, <2>1 DEF k
  <2> QED BY <2>1, <2>2
<1> QED BY <1>3, <1>4, <1>7, <1>8, <1>9, <1>10, <1>11, Zenon DEF StripeOf, Encodes, s, B

(* What an upload leaves true of the stripes that are there. *)
LEMMA StripeStays ==
    ASSUME NEW c, NEW uploads \in Nat, NEW sid, NEW s, StripeOf(c, uploads, sid, s)
    PROVE  /\ StripeOf(c, uploads + 1, sid, s)
           /\ \A n \in 1..s.k : s.data[n].id[1] \in 0..(uploads - 1)
<1>1. \A n \in 1..s.k : PlacedBy(c, uploads, s.batch, s.data[n])
  BY DEF StripeOf
<1>2. \A n \in 1..s.k : s.data[n].id[1] \in 0..(uploads - 1)
  BY <1>1 DEF PlacedBy
<1>3. 0..(uploads - 1) \subseteq 0..(uploads + 1 - 1)
  OBVIOUS
<1>4. \A n \in 1..s.k : PlacedBy(c, uploads + 1, s.batch, s.data[n])
  <2> SUFFICES ASSUME NEW n \in 1..s.k
               PROVE  PlacedBy(c, uploads + 1, s.batch, s.data[n])
    OBVIOUS
  <2>1. s.data[n].id \in (0..(uploads - 1)) \X (0..(c.k - 1))
    BY <1>1 DEF PlacedBy
  <2>2. s.data[n].id \in (0..(uploads + 1 - 1)) \X (0..(c.k - 1))
    <3> DEFINE U == 0..(uploads - 1)
               V == 0..(uploads + 1 - 1)
               K == 0..(c.k - 1)
               x == s.data[n].id
    <3>1. x \in U \X K /\ U \subseteq V
      BY <1>3, <2>1
    <3> HIDE DEF U, V, K, x
    <3>2. x \in V \X K
      BY <3>1
    <3> QED BY <3>2 DEF V, K, x
  <2>3. PlacedBy(c, uploads, s.batch, s.data[n])
    BY <1>1
  <2> DEFINE d == s.data[n]
             batch == s.batch
             V == (0..(uploads + 1 - 1)) \X (0..(c.k - 1))
  <2>4. d.id \in V /\ PlacedBy(c, uploads, batch, d)
    BY <2>2, <2>3
  <2> HIDE DEF d, batch, V
  <2>5. /\ d.id[1] \div BatchSize(c) = batch
        /\ PlacementFits(c, d.id[1] % BatchSize(c))
        /\ d.group = DataSlot(c, d.id[1] % BatchSize(c), d.id[2]).group
        /\ d.col = DataSlot(c, d.id[1] % BatchSize(c), d.id[2]).col
        /\ d.ncol = DataSlot(c, d.id[1] % BatchSize(c), d.id[2]).ncol
    BY <2>4 DEF PlacedBy
  <2>6. PlacedBy(c, uploads + 1, batch, d)
    BY <2>4, <2>5 DEF PlacedBy, V
  <2> QED BY <2>6 DEF d, batch
<1> QED BY <1>2, <1>4 DEF StripeOf

(* Two stripes the request checks accept are what the planner expects, and *)
(* their merge reaches the next level.                                     *)
LEMMA MergeablePair ==
    ASSUME cfg \in Configs, nextId \in Nat,
           NEW sa \in Nat, NEW a, StripeOf(cfg, nextId, sa, a),
           NEW sb \in Nat, NEW b, StripeOf(cfg, nextId, sb, b),
           sa # sb => Apart(a, b),
           NEW round, RequestValid(a, b, round)
    PROVE  /\ sa # sb
           /\ MergePair(a, b)
           /\ \E l \in 0..MergeRounds(cfg) : 2 * a.k = cfg.k * 2^l
<1> DEFINE N == MergeRounds(cfg)
           B == BatchSize(cfg)
<1>1. /\ round \in 1..N /\ b.k = a.k /\ a.k = cfg.k * 2^(round - 1)
      /\ a.batch = b.batch /\ a.pos + 2^(round - 1) = b.pos
  BY DEF RequestValid
<1>2. N \in 0..LevelBound /\ LevelBound \in Nat /\ B \in Nat \ {0}
  BY Levels, Batches, DimensionsAssumption
<1> HIDE DEF N
<1>3. 2^(round - 1) \in Nat \ {0} /\ 2^round = 2^(round - 1) * 2
  <2>1. round - 1 \in 0..LevelBound /\ 1 \in 0..(LevelBound - (round - 1))
        /\ (round - 1) + 1 = round /\ 2^1 = 2
    BY <1>1, <1>2
  <2>2. 2^((round - 1) + 1) = 2^(round - 1) * 2^1
    BY <2>1, PowersAssumption
  <2>3. 2^(round - 1) \in Nat \ {0}
    BY <2>1, PowersAssumption
  <2> QED BY <2>1, <2>2, <2>3, Zenon
<1> DEFINE h == 2^(round - 1)
           k == cfg.k
<1>4. k \in Nat \ {0}
  BY Sizes
<1>5. sa # sb
  <2> SUFFICES ASSUME sa = sb PROVE FALSE
    OBVIOUS
  <2>1. a.pos = b.pos /\ a.pos = sa % B
    BY DEF StripeOf
  <2> HIDE DEF B
  <2>2. a.pos \in Nat
    BY <1>2, <2>1, DivMod
  <2> HIDE DEF h
  <2>3. h \in Nat \ {0} /\ a.pos + h = b.pos
    BY <1>1, <1>3 DEF h
  <2> QED BY <2>1, <2>2, <2>3
<1>6. \E l \in 0..N : 2 * a.k = k * 2^l
  <2>1. a.k = k * h /\ 2^round = h * 2 /\ h \in Nat
    BY <1>1, <1>3
  <2> HIDE DEF k, h
  <2>2. 2 * (k * h) = k * (h * 2)
    BY <1>4, <2>1
  <2>3. 2 * a.k = k * 2^round /\ round \in 0..N
    BY <1>1, <1>2, <2>1, <2>2
  <2> QED BY <2>3
<1>7. MergePair(a, b)
  <2>1. a.k \in Nat \ {0}
    BY StripeSizes
  <2>2. a.batch \in Nat
    <3>1. a.batch = sa \div B
      BY DEF StripeOf
    <3> HIDE DEF B
    <3> QED BY <1>2, <3>1, DivMod
  <2>3. /\ a.data \in [1..a.k -> BlockType] /\ b.data \in [1..b.k -> BlockType]
        /\ \A n \in 1..a.k : PlacedBy(cfg, nextId, a.batch, a.data[n])
        /\ \A n \in 1..b.k : PlacedBy(cfg, nextId, b.batch, b.data[n])
        /\ \A n, m \in 1..a.k : a.data[n].id = a.data[m].id => n = m
        /\ \A n, m \in 1..b.k : b.data[n].id = b.data[m].id => n = m
    BY Zenon DEF StripeOf
  <2>4. \A n \in 1..a.k : \A m \in 1..b.k : a.data[n].id # b.data[m].id
    BY <1>5 DEF Apart
  <2>5. a.parity[1].col = ParityCol
    <3>1. 1 \in 1..(cfg.r + cfg.z)
      BY Sizes
    <3> QED BY <3>1 DEF StripeOf
  <2> QED BY <1>1, <2>1, <2>2, <2>3, <2>4, <2>5 DEF MergePair, Placed
<1> QED BY <1>5, <1>6, <1>7 DEF N, k

(* The merged stripe: its data are both stripes', unmoved. *)
LEMMA MergedData ==
    ASSUME NEW a, NEW b, MergePair(a, b)
    PROVE  MergedStripe(a, b, Locations(a, b)).data = Combined(a, b)
<1> DEFINE D == Combined(a, b)
           loc == Locations(a, b)
           I == 1..(2 * a.k)
<1>1. D \in [I -> BlockType]
  BY CombinedBlocks
<1>2. \A n \in I : loc[n].col = D[n].col /\ loc[n].ncol = D[n].ncol
  BY PlannedPlaces
<1>3. MergedStripe(a, b, loc).data
        = [n \in I |-> [D[n] EXCEPT !.col = loc[n].col, !.ncol = loc[n].ncol]]
  BY DEF MergedStripe
<1> HIDE DEF D, loc, I
<1>4. \A d \in BlockType : [d EXCEPT !.col = d.col, !.ncol = d.ncol] = d
  BY DEF BlockType
<1>5. \A n \in I : [D[n] EXCEPT !.col = loc[n].col, !.ncol = loc[n].ncol] = D[n]
  BY <1>1, <1>2, <1>4
<1>6. MergedStripe(a, b, loc).data = [n \in I |-> D[n]]
  BY <1>3, <1>5
<1> QED BY <1>1, <1>6 DEF D, loc

(* Its parities: each old power is carried over, the right stripe's after  *)
(* the left stripe's k data blocks.                                        *)
LEMMA MergedEncodes ==
    ASSUME NEW c, NEW a, NEW b, MergePair(a, b), Encodes(c, a), Encodes(c, b)
    PROVE  Encodes(c, MergedStripe(a, b, Locations(a, b)))
<1> DEFINE s == MergedStripe(a, b, Locations(a, b))
           D == Combined(a, b)
           k == a.k
<1>1. /\ k \in Nat \ {0} /\ b.k = k /\ 2 * k \in Nat
      /\ \A n \in 1..k : D[n] = a.data[n] /\ D[n + k] = b.data[n]
  <2>1. k \in Nat \ {0} /\ b.k = k
    BY DEF MergePair
  <2> QED BY <2>1, CombinedBlocks
<1>2. s.k = 2 * k /\ s.data = D
  BY MergedData DEF MergedStripe
<1>3. /\ s.global = a.global \cup {<<p[1], p[2] + k>> : p \in b.global}
      /\ s.local = [g \in DOMAIN a.local |-> a.local[g] \cup b.local[g]]
  BY DEF MergedStripe, MergedGlobal
<1>4. /\ a.global = {<<a.data[n].id, n - 1>> : n \in 1..k}
      /\ b.global = {<<b.data[n].id, n - 1>> : n \in 1..k}
      /\ DOMAIN a.local = 0..(c.z - 1)
      /\ \A g \in 0..(c.z - 1) :
            /\ a.local[g] = {a.data[n].id : n \in {m \in 1..k : a.data[m].group = g}}
            /\ b.local[g] = {b.data[n].id : n \in {m \in 1..k : b.data[m].group = g}}
  BY <1>1 DEF Encodes
<1> HIDE DEF s, D, k
<1>5. /\ \A n \in 1..k : n \in 1..(2 * k) /\ n + k \in 1..(2 * k) /\ (n - 1) + k = (n + k) - 1
      /\ \A n \in 1..(2 * k) : n \in 1..k \/ (n - k \in 1..k /\ n = (n - k) + k)
  BY <1>1
<1>6. s.global = {<<D[n].id, n - 1>> : n \in 1..(2 * k)}
  <2> DEFINE G == {<<D[n].id, n - 1>> : n \in 1..(2 * k)}
  <2>1. ASSUME NEW x \in G PROVE x \in s.global
    <3>1. PICK n \in 1..(2 * k) : x = <<D[n].id, n - 1>>
      OBVIOUS
    <3>2. CASE n \in 1..k
      <4>1. x = <<a.data[n].id, n - 1>>
        BY <1>1, <3>1, <3>2
      <4> QED BY <1>3, <1>4, <3>2, <4>1
    <3>3. CASE n - k \in 1..k /\ n = (n - k) + k
      <4> DEFINE m == n - k
      <4>1. D[n] = b.data[m] /\ m \in 1..k /\ n = m + k
        BY <1>1, <3>3
      <4> HIDE DEF m
      <4>2. <<b.data[m].id, m - 1>> \in b.global
        BY <1>4, <4>1
      <4>3. x = <<b.data[m].id, (m - 1) + k>>
        BY <1>5, <3>1, <4>1
      <4> DEFINE p == <<b.data[m].id, m - 1>>
      <4>4. p \in b.global /\ p[1] = b.data[m].id /\ p[2] = m - 1
        BY <4>2
      <4>5. x = <<p[1], p[2] + k>>
        BY <4>3, <4>4
      <4> HIDE DEF p
      <4> QED BY <1>3, <4>4, <4>5
    <3> QED BY <1>5, <3>2, <3>3
  <2>2. ASSUME NEW x \in s.global PROVE x \in G
    <3>1. CASE x \in a.global
      <4>1. PICK n \in 1..k : x = <<a.data[n].id, n - 1>>
        BY <1>4, <3>1
      <4>2. x = <<D[n].id, n - 1>> /\ n \in 1..(2 * k)
        BY <1>1, <1>5, <4>1
      <4> QED BY <4>2
    <3>2. CASE x \in {<<p[1], p[2] + k>> : p \in b.global}
      <4>1. PICK p \in b.global : x = <<p[1], p[2] + k>>
        BY <3>2
      <4>2. PICK n \in 1..k : p = <<b.data[n].id, n - 1>>
        BY <1>4
      <4>3. x = <<D[n + k].id, (n + k) - 1>> /\ n + k \in 1..(2 * k)
        BY <1>1, <1>5, <4>1, <4>2
      <4> QED BY <4>3
    <3> QED BY <1>3, <3>1, <3>2
  <2> HIDE DEF G
  <2>3. s.global = G
    BY <2>1, <2>2
  <2> QED BY <2>3 DEF G
<1>7. ASSUME NEW g \in 0..(c.z - 1)
      PROVE  s.local[g] = {D[n].id : n \in {m \in 1..(2 * k) : D[m].group = g}}
  <2> DEFINE L == {D[n].id : n \in {m \in 1..(2 * k) : D[m].group = g}}
  <2>1. s.local[g] = a.local[g] \cup b.local[g]
    BY <1>3, <1>4
  <2>2. ASSUME NEW x \in L PROVE x \in s.local[g]
    <3>1. PICK n \in 1..(2 * k) : x = D[n].id /\ D[n].group = g
      OBVIOUS
    <3>2. CASE n \in 1..k
      <4>1. D[n] = a.data[n]
        BY <1>1, <3>2
      <4> QED BY <1>4, <2>1, <3>1, <3>2, <4>1
    <3>3. CASE n - k \in 1..k /\ n = (n - k) + k
      <4> DEFINE m == n - k
      <4>1. D[n] = b.data[m] /\ m \in 1..k
        BY <1>1, <3>3
      <4> HIDE DEF m
      <4> QED BY <1>4, <2>1, <3>1, <4>1
    <3> QED BY <1>5, <3>2, <3>3
  <2>3. ASSUME NEW x \in s.local[g] PROVE x \in L
    <3>1. CASE x \in a.local[g]
      <4>1. PICK n \in 1..k : x = a.data[n].id /\ a.data[n].group = g
        BY <1>4, <3>1
      <4>2. D[n] = a.data[n] /\ n \in 1..(2 * k)
        BY <1>1, <1>5
      <4> QED BY <4>1, <4>2
    <3>2. CASE x \in b.local[g]
      <4>1. PICK n \in 1..k : x = b.data[n].id /\ b.data[n].group = g
        BY <1>4, <3>2
      <4>2. D[n + k] = b.data[n] /\ n + k \in 1..(2 * k)
        BY <1>1, <1>5
      <4> QED BY <4>1, <4>2
    <3> QED BY <2>1, <2>3, <3>1, <3>2
  <2> HIDE DEF L
  <2>4. s.local[g] = L
    BY <2>2, <2>3
  <2> QED BY <2>4 DEF L
<1>8. DOMAIN s.local = 0..(c.z - 1)
  BY <1>3, <1>4
<1> QED BY <1>2, <1>6, <1>7, <1>8 DEF Encodes, s

(* So the merged stripe is a stripe of the left one's id, with the blocks  *)
(* of both and no other.                                                   *)
LEMMA MergedStripeOf ==
    ASSUME cfg \in Configs, nextId \in Nat,
           NEW sa \in Nat, NEW a, StripeOf(cfg, nextId, sa, a),
           NEW sb \in Nat, NEW b, StripeOf(cfg, nextId, sb, b),
           sa # sb => Apart(a, b),
           NEW round, RequestValid(a, b, round)
    PROVE  LET s == MergedStripe(a, b, Locations(a, b))
           IN  /\ StripeOf(cfg, nextId, sa, s)
               /\ \A n \in 1..s.k : \/ \E m \in 1..a.k : s.data[n].id = a.data[m].id
                                    \/ \E m \in 1..b.k : s.data[n].id = b.data[m].id
<1> DEFINE s == MergedStripe(a, b, Locations(a, b))
           D == Combined(a, b)
           k == a.k
<1>1. MergePair(a, b) /\ \E l \in 0..MergeRounds(cfg) : 2 * k = cfg.k * 2^l
  BY MergeablePair
<1>2. /\ 2 * k \in Nat /\ D \in [1..(2 * k) -> BlockType]
      /\ \A n \in 1..k : D[n] = a.data[n] /\ D[n + k] = b.data[n]
      /\ \A n \in 1..(2 * k) : Placed(a.batch, D[n])
      /\ \A n, m \in 1..(2 * k) : D[n].id = D[m].id => n = m
  BY <1>1, CombinedBlocks
<1>3. s.k = 2 * k /\ s.data = D /\ s.batch = a.batch /\ s.pos = a.pos /\ s.parity = a.parity
  BY <1>1, MergedData DEF MergedStripe
<1>4. /\ a.batch = sa \div BatchSize(cfg) /\ a.pos = sa % BatchSize(cfg)
      /\ a.parity = [p \in 1..(cfg.r + cfg.z) |-> [col |-> ParityCol, ncol |-> p]]
  BY DEF StripeOf
<1>5. Encodes(cfg, s)
  BY <1>1, MergedEncodes DEF StripeOf
<1>6. k \in Nat \ {0} /\ b.k = k
  BY <1>1 DEF MergePair
<1> HIDE DEF s, D, k
<1>7. StripeOf(cfg, nextId, sa, s)
  BY <1>1, <1>2, <1>3, <1>4, <1>5 DEF StripeOf, Placed
<1>8. \A n \in 1..s.k : \/ \E m \in 1..k : s.data[n].id = a.data[m].id
                        \/ \E m \in 1..k : s.data[n].id = b.data[m].id
  <2> SUFFICES ASSUME NEW n \in 1..(2 * k)
               PROVE  \/ \E m \in 1..k : D[n].id = a.data[m].id
                      \/ \E m \in 1..k : D[n].id = b.data[m].id
    BY <1>3
  <2>1. n \in 1..k \/ (n - k \in 1..k /\ (n - k) + k = n)
    BY <1>6
  <2> QED BY <1>2, <2>1
<1> QED BY <1>6, <1>7, <1>8 DEF s, k

(* No stripe yet. *)
LEMMA InitInv == Init => LiveInv
<1> SUFFICES ASSUME Init PROVE LiveInv
  OBVIOUS
<1>1. cfg \in Configs /\ nextId = 0 /\ losses = 0 /\ DOMAIN stripes = {}
  BY DEF Init
<1>2. BatchSize(cfg) \in Nat /\ ExtraStripes \in Nat /\ MaxLosses \in Nat
  BY <1>1, Batches, TablesAssumption
<1>3. nextId \in 0..IdBound /\ losses \in 0..MaxLosses
  BY <1>1, <1>2 DEF IdBound
<1> QED BY <1>1, <1>3, Zenon DEF LiveInv

(* What a step that uploads one more stripe, or only tries, leaves of the  *)
(* stripes that are there.                                                 *)
LEMMA OthersStay ==
    ASSUME LiveInv, cfg' = cfg, nextId' = nextId + 1, nextId < IdBound
    PROVE  /\ cfg' \in Configs /\ nextId' \in 0..IdBound' /\ nextId \in 0..(nextId' - 1)
           /\ DOMAIN stripes \subseteq 0..(nextId' - 1) /\ nextId \notin DOMAIN stripes
           /\ \A sid \in DOMAIN stripes :
                 /\ StripeOf(cfg', nextId', sid, stripes[sid])
                 /\ \A n \in 1..stripes[sid].k : stripes[sid].data[n].id[1] # nextId
<1>1. /\ cfg \in Configs /\ nextId \in 0..IdBound /\ DOMAIN stripes \subseteq 0..(nextId - 1)
      /\ \A sid \in DOMAIN stripes : StripeOf(cfg, nextId, sid, stripes[sid])
  BY DEF LiveInv
<1>2. IdBound' = IdBound /\ IdBound \in Nat
  BY <1>1, Batches, TablesAssumption DEF IdBound
<1>3. nextId \in Nat /\ nextId' \in 0..IdBound' /\ nextId \in 0..(nextId' - 1)
  BY <1>1, <1>2
<1>4. \A n \in 0..(nextId - 1) : n \in 0..(nextId' - 1) /\ n # nextId
  BY <1>3
<1>5. \A sid \in DOMAIN stripes :
         /\ StripeOf(cfg, nextId + 1, sid, stripes[sid])
         /\ \A n \in 1..stripes[sid].k : stripes[sid].data[n].id[1] \in 0..(nextId - 1)
  BY <1>1, <1>3, StripeStays
<1> QED BY <1>1, <1>3, <1>4, <1>5, Zenon

(* An upload adds the next id's stripe, whose blocks carry that id. *)
LEMMA SetStripeInv ==
    ASSUME LiveInv, SetStripe
    PROVE  LiveInv'
<1> DEFINE new == NewStripe(nextId)
<1>1. /\ nextId < IdBound /\ nextId' = nextId + 1 /\ cfg' = cfg /\ losses' = losses
      /\ PlacementFits(cfg, PosOf(nextId))
      /\ DOMAIN stripes' = DOMAIN stripes \cup {nextId}
      /\ \A s \in DOMAIN stripes' :
            stripes'[s] = IF s = nextId THEN NewStripe(s) ELSE stripes[s]
  BY DEF SetStripe
<1>2. /\ cfg' \in Configs /\ nextId' \in 0..IdBound' /\ nextId \in 0..(nextId' - 1)
      /\ DOMAIN stripes \subseteq 0..(nextId' - 1) /\ nextId \notin DOMAIN stripes
      /\ \A sid \in DOMAIN stripes :
            /\ StripeOf(cfg', nextId', sid, stripes[sid])
            /\ \A n \in 1..stripes[sid].k : stripes[sid].data[n].id[1] # nextId
  BY <1>1, OthersStay, Zenon
<1>3. /\ StripeOf(cfg', nextId', nextId, new)
      /\ \A n \in 1..new.k : new.data[n].id[1] = nextId
  <2>1. cfg \in Configs /\ nextId \in Nat
    BY DEF LiveInv
  <2> QED BY <1>1, <2>1, NewStripeOf
<1> HIDE DEF new
<1>4. stripes'[nextId] = new /\ nextId \in DOMAIN stripes'
      /\ \A s \in DOMAIN stripes : s \in DOMAIN stripes' /\ stripes'[s] = stripes[s]
  BY <1>1, <1>2 DEF new
<1>5. \A s \in DOMAIN stripes' : s = nextId \/ s \in DOMAIN stripes
  BY <1>1
<1>6. \A s \in DOMAIN stripes' : StripeOf(cfg', nextId', s, stripes'[s])
  BY <1>2, <1>3, <1>4, <1>5, Zenon
<1>7. ASSUME NEW s \in DOMAIN stripes', NEW t \in DOMAIN stripes', s # t
      PROVE  Apart(stripes'[s], stripes'[t])
  <2>1. CASE s = nextId
    <3>1. t \in DOMAIN stripes /\ stripes'[t] = stripes[t] /\ stripes'[s] = new
      BY <1>4, <1>5, <1>7, <2>1
    <3> QED BY <1>2, <1>3, <3>1 DEF Apart
  <2>2. CASE t = nextId
    <3>1. s \in DOMAIN stripes /\ stripes'[s] = stripes[s] /\ stripes'[t] = new
      BY <1>4, <1>5, <1>7, <2>2
    <3> QED BY <1>2, <1>3, <3>1 DEF Apart
  <2>3. CASE s # nextId /\ t # nextId
    <3>1. s \in DOMAIN stripes /\ t \in DOMAIN stripes
      BY <1>5, <2>3
    <3>2. stripes'[s] = stripes[s] /\ stripes'[t] = stripes[t]
      BY <1>4, <3>1
    <3>3. Apart(stripes[s], stripes[t])
      BY <1>7, <3>1 DEF LiveInv
    <3> QED BY <3>2, <3>3
  <2> QED BY <2>1, <2>2, <2>3
<1>8. losses' \in 0..MaxLosses
  BY <1>1 DEF LiveInv
<1>9. DOMAIN stripes' \subseteq 0..(nextId' - 1)
  BY <1>2, <1>5
<1> QED BY <1>2, <1>6, <1>7, <1>8, <1>9, Zenon DEF LiveInv

(* An upload that fails only spends its id. *)
LEMMA SetFailsInv ==
    ASSUME LiveInv, SetRefused \/ SetUnavailable
    PROVE  LiveInv'
<1>1. nextId < IdBound /\ nextId' = nextId + 1 /\ cfg' = cfg /\ stripes' = stripes
  BY DEF SetRefused, SetUnavailable
<1>2. losses' \in 0..MaxLosses
  <2>1. losses \in 0..MaxLosses /\ MaxLosses \in Nat
    BY TablesAssumption DEF LiveInv
  <2>2. losses' = losses \/ (losses' = losses + 1 /\ losses < MaxLosses)
    BY DEF SetRefused, SetUnavailable
  <2> QED BY <2>1, <2>2
<1>3. /\ cfg' \in Configs /\ nextId' \in 0..IdBound' /\ DOMAIN stripes' \subseteq 0..(nextId' - 1)
      /\ \A sid \in DOMAIN stripes' : StripeOf(cfg', nextId', sid, stripes'[sid])
  BY <1>1, OthersStay
<1>4. \A s, t \in DOMAIN stripes' : s # t => Apart(stripes'[s], stripes'[t])
  BY <1>1 DEF LiveInv
<1> QED BY <1>2, <1>3, <1>4, Zenon DEF LiveInv

(* A deletion takes a stripe away. *)
LEMMA DeleteInv ==
    ASSUME LiveInv, NEW sid \in DOMAIN stripes, DeleteStripe(sid)
    PROVE  LiveInv'
<1>1. /\ losses < MaxLosses /\ losses' = losses + 1 /\ cfg' = cfg /\ nextId' = nextId
      /\ stripes' = [s \in DOMAIN stripes \ {sid} |-> stripes[s]]
  BY DEF DeleteStripe
<1>2. \A s \in DOMAIN stripes' : s \in DOMAIN stripes /\ stripes'[s] = stripes[s]
  BY <1>1
<1>3. losses' \in 0..MaxLosses
  <2>1. losses \in 0..MaxLosses /\ MaxLosses \in Nat
    BY TablesAssumption DEF LiveInv
  <2> QED BY <1>1, <2>1
<1>4. IdBound' = IdBound
  BY <1>1 DEF IdBound
<1>5. /\ cfg' \in Configs /\ nextId' \in 0..IdBound'
      /\ DOMAIN stripes' \subseteq 0..(nextId' - 1)
  BY <1>1, <1>2, <1>4 DEF LiveInv
<1>6. \A s \in DOMAIN stripes' : StripeOf(cfg', nextId', s, stripes'[s])
  BY <1>1, <1>2 DEF LiveInv
<1>7. \A s, t \in DOMAIN stripes' : s # t => Apart(stripes'[s], stripes'[t])
  BY <1>2 DEF LiveInv
<1> QED BY <1>3, <1>5, <1>6, <1>7, Zenon DEF LiveInv

(* A merge puts both stripes' blocks, unmoved, in one. *)
LEMMA MergeInv ==
    ASSUME LiveInv, NEW sa \in DOMAIN stripes, NEW sb \in DOMAIN stripes,
           NEW round, MergeStripes(sa, sb, round)
    PROVE  LiveInv'
<1> DEFINE a == stripes[sa]
           b == stripes[sb]
           merged == MergedStripe(a, b, Locations(a, b))
<1>1. /\ RequestValid(a, b, round) /\ cfg' = cfg /\ nextId' = nextId /\ losses' = losses
      /\ stripes' = [s \in DOMAIN stripes \ {sb} |->
                       IF s = sa THEN MergedStripe(a, b, MovePlan(a, b).loc) ELSE stripes[s]]
  BY DEF MergeStripes
<1>2. /\ cfg \in Configs /\ nextId \in Nat /\ sa \in Nat /\ sb \in Nat
      /\ StripeOf(cfg, nextId, sa, a) /\ StripeOf(cfg, nextId, sb, b)
      /\ (sa # sb => Apart(a, b))
  BY DEF LiveInv
<1> HIDE DEF a, b
<1>3. sa # sb /\ MovePlan(a, b).loc = Locations(a, b)
  <2>1. sa # sb /\ MergePair(a, b)
    BY <1>1, <1>2, MergeablePair, Zenon
  <2> QED BY <1>2, <2>1, PlanKeeps
<1>4. /\ StripeOf(cfg, nextId, sa, merged)
      /\ \A n \in 1..merged.k : \/ \E m \in 1..a.k : merged.data[n].id = a.data[m].id
                                \/ \E m \in 1..b.k : merged.data[n].id = b.data[m].id
  BY <1>1, <1>2, MergedStripeOf
<1>5. stripes' = [s \in DOMAIN stripes \ {sb} |-> IF s = sa THEN merged ELSE stripes[s]]
  BY <1>1, <1>3
<1> HIDE DEF merged
<1>6. \A s \in DOMAIN stripes' : s \in DOMAIN stripes /\ s # sb
                                 /\ stripes'[s] = IF s = sa THEN merged ELSE stripes[s]
  BY <1>5
<1>7. \A s \in DOMAIN stripes' : StripeOf(cfg', nextId', s, stripes'[s])
  BY <1>1, <1>4, <1>6 DEF LiveInv
<1>8. ASSUME NEW t \in DOMAIN stripes, t # sa, t # sb
      PROVE  Apart(merged, stripes[t]) /\ Apart(stripes[t], merged)
  <2>1. Apart(a, stripes[t]) /\ Apart(b, stripes[t])
    BY <1>8 DEF LiveInv, a, b
  <2> QED BY <1>4, <2>1 DEF Apart
<1>9. \A s, t \in DOMAIN stripes' : s # t => Apart(stripes'[s], stripes'[t])
  <2> SUFFICES ASSUME NEW s \in DOMAIN stripes', NEW t \in DOMAIN stripes', s # t
               PROVE  Apart(stripes'[s], stripes'[t])
    OBVIOUS
  <2>1. CASE s = sa
    BY <1>6, <1>8, <2>1
  <2>2. CASE t = sa
    BY <1>6, <1>8, <2>2
  <2>3. CASE s # sa /\ t # sa
    BY <1>6, <2>3 DEF LiveInv
  <2> QED BY <2>1, <2>2, <2>3
<1>10. /\ cfg' \in Configs /\ losses' \in 0..MaxLosses /\ nextId' \in 0..IdBound'
       /\ DOMAIN stripes' \subseteq 0..(nextId' - 1)
  <2>1. IdBound' = IdBound
    BY <1>1 DEF IdBound
  <2> QED BY <1>1, <1>6, <2>1 DEF LiveInv
<1> QED BY <1>7, <1>9, <1>10, Zenon DEF LiveInv

(* The invariant holds in every state. *)
THEOREM Invariance == Spec => []LiveInv
<1>1. Init => LiveInv
  BY InitInv
<1>2. LiveInv /\ [Next]_vars => LiveInv'
  <2> SUFFICES ASSUME LiveInv, [Next]_vars PROVE LiveInv'
    OBVIOUS
  <2>1. CASE SetStripe
    BY <2>1, SetStripeInv
  <2>2. CASE SetRefused \/ SetUnavailable
    BY <2>2, SetFailsInv
  <2>3. ASSUME NEW sid \in DOMAIN stripes, DeleteStripe(sid) PROVE LiveInv'
    BY <2>3, DeleteInv
  <2>4. CASE Merge
    <3>1. PICK sa \in DOMAIN stripes, sb \in DOMAIN stripes, round \in 1..MergeRounds(cfg) :
             MergeStripes(sa, sb, round)
      BY <2>4 DEF Merge
    <3> QED BY <3>1, MergeInv
  <2>5. CASE UNCHANGED vars
    BY <2>5 DEF vars, LiveInv, IdBound
  <2> QED BY <2>1, <2>2, <2>3, <2>4, <2>5 DEF Next
<1> QED BY <1>1, <1>2, PTL DEF Spec

-----------------------------------------------------------------------------
(***************************************************************************)
(* What follows from it.                                                   *)
(***************************************************************************)

(* The coordinator's records always have their shape: a stripe's batch and *)
(* position are those of its id, its size is a merge level's, its blocks   *)
(* lie on existing rack and node columns.                                  *)
THEOREM TypeCorrect == Spec => []TypeOK
<1>1. LiveInv => TypeOK
  <2> SUFFICES ASSUME LiveInv PROVE TypeOK
    OBVIOUS
  <2>1. /\ cfg \in Configs /\ nextId \in 0..IdBound /\ losses \in 0..MaxLosses
        /\ Live \subseteq 0..(nextId - 1)
    BY DEF LiveInv, Live
  <2>2. ASSUME NEW sid \in Live
        PROVE  LET s == stripes[sid]
               IN  /\ s.pos = PosOf(sid) /\ s.batch = BatchOf(sid)
                   /\ \E l \in 0..MergeRounds(cfg) : s.k = cfg.k * 2^l
                   /\ DOMAIN s.data = 1..s.k /\ DOMAIN s.parity = 1..(cfg.r + cfg.z)
                   /\ \A b \in ToSet(s.data) \cup ToSet(s.parity) :
                         b.col \in 1..17 /\ b.ncol \in 1..DatanodeNumPerCluster
                   /\ \A n \in 1..s.k : s.data[n].group \in 0..(cfg.z - 1)
    <3> DEFINE s == stripes[sid]
    <3>1. StripeOf(cfg, nextId, sid, s) /\ sid \in Nat /\ nextId \in Nat
      BY <2>1, <2>2 DEF LiveInv, Live
    <3> HIDE DEF s
    <3>2. /\ s.pos = PosOf(sid) /\ s.batch = BatchOf(sid)
          /\ \E l \in 0..MergeRounds(cfg) : s.k = cfg.k * 2^l
          /\ s.data \in [1..s.k -> BlockType]
          /\ s.parity = [p \in 1..(cfg.r + cfg.z) |-> [col |-> ParityCol, ncol |-> p]]
          /\ \A n \in 1..s.k : Placed(s.batch, s.data[n])
      BY <3>1 DEF StripeOf, PosOf, BatchOf, Placed
    <3>3. s.batch \in Nat
      <4> DEFINE B == BatchSize(cfg)
      <4>1. B \in Nat \ {0} /\ s.batch = sid \div B
        BY <2>1, <3>1, Batches DEF StripeOf
      <4> HIDE DEF B
      <4> QED BY <3>1, <4>1, DivMod
    <3>4. \A n \in 1..s.k : /\ s.data[n].col \in 2..17
                            /\ s.data[n].ncol \in 1..DatanodeNumPerCluster
                            /\ s.data[n].group \in 0..(cfg.z - 1)
      <4> SUFFICES ASSUME NEW n \in 1..s.k
                   PROVE  /\ s.data[n].col \in 2..17
                          /\ s.data[n].ncol \in 1..DatanodeNumPerCluster
                          /\ s.data[n].group \in 0..(cfg.z - 1)
        OBVIOUS
      <4> DEFINE d == s.data[n]
      <4>1. d \in BlockType /\ Placed(s.batch, d)
        BY <3>2
      <4> HIDE DEF d
      <4>2. /\ d.col \in 2..17 /\ d.ncol \in 1..DatanodeNumPerCluster
            /\ d.group \in 0..(cfg.z - 1)
        BY <2>1, <3>1, <3>3, <4>1, PlacedApart
      <4> QED BY <4>2 DEF d
    <3>5. \A b \in ToSet(s.data) : b.col \in 1..17 /\ b.ncol \in 1..DatanodeNumPerCluster
      <4>1. \A b \in ToSet(s.data) : \E n \in 1..s.k : b = s.data[n]
        <5>1. DOMAIN s.data = 1..s.k
          BY <3>2
        <5> QED BY <5>1, Zenon DEF ToSet
      <4>2. \A n \in 1..s.k : s.data[n].col \in 1..17
                              /\ s.data[n].ncol \in 1..DatanodeNumPerCluster
        BY <3>4
      <4> QED BY <4>1, <4>2, Zenon
    <3>6. \A p \in 1..(cfg.r + cfg.z) : /\ s.parity[p].col \in 1..17
                                        /\ s.parity[p].ncol \in 1..DatanodeNumPerCluster
      <4>1. \A p \in 1..(cfg.r + cfg.z) : p \in 1..DatanodeNumPerCluster
        BY <2>1, Sizes
      <4> QED BY <3>2, <4>1 DEF ParityCol
    <3>7. \A b \in ToSet(s.parity) : b.col \in 1..17 /\ b.ncol \in 1..DatanodeNumPerCluster
      BY <3>2, <3>6 DEF ToSet
    <3> QED BY <3>2, <3>4, <3>5, <3>7 DEF s
  <2> QED BY <2>1, <2>2 DEF TypeOK
<1> QED BY <1>1, Invariance, PTL

(* Through every sequence of merges the parities combine exactly the data  *)
(* the coordinator lists: the block in column n with power n in each       *)
(* global parity, the data of a group in its local parity.                 *)
THEOREM ParityCorrect == Spec => []ParityEncodesData
<1>1. LiveInv => ParityEncodesData
  BY DEF LiveInv, StripeOf, Encodes, ParityEncodesData, Live
<1> QED BY <1>1, Invariance, PTL

(* A merge whose request the handler accepts goes through its planning: no *)
(* block finds "no pure-data rack with a free node", and the layout passes *)
(* the validation that precedes the I/O.                                   *)
THEOREM MergesGoThrough == Spec => []MergeNeverRefused
<1>1. LiveInv => MergeNeverRefused
  <2> SUFFICES ASSUME LiveInv, NEW sa \in Live, NEW sb \in Live,
                      NEW round \in 1..MergeRounds(cfg),
                      RequestValid(stripes[sa], stripes[sb], round)
               PROVE  LET plan == MovePlan(stripes[sa], stripes[sb])
                      IN  plan.ok /\ LayoutAccepted(stripes[sa], plan.loc)
    BY DEF MergeNeverRefused
  <2> DEFINE a == stripes[sa]
             b == stripes[sb]
  <2>1. /\ cfg \in Configs /\ nextId \in Nat /\ sa \in Nat /\ sb \in Nat
        /\ StripeOf(cfg, nextId, sa, a) /\ StripeOf(cfg, nextId, sb, b)
        /\ (sa # sb => Apart(a, b)) /\ RequestValid(a, b, round)
    BY DEF LiveInv, Live
  <2> HIDE DEF a, b
  <2>2. MergePair(a, b)
    BY <2>1, MergeablePair, Zenon
  <2>3. MovePlan(a, b) = [ok |-> TRUE, loc |-> Locations(a, b)]
    BY <2>1, <2>2, PlanKeeps
  <2>4. LayoutAccepted(a, Locations(a, b))
    BY <2>1, <2>2, LayoutKeeps
  <2>5. MovePlan(a, b).ok /\ LayoutAccepted(a, MovePlan(a, b).loc)
    BY <2>3, <2>4
  <2> QED BY <2>5 DEF a, b
<1> QED BY <1>1, Invariance, PTL

(* Where the data of a stripe of the invariant lie: off the parity rack,   *)
(* and those of one rack in one group, on nodes of their own, r+1 at most. *)
LEMMA RackOfStripe ==
    ASSUME LiveInv, NEW s, NEW sid \in Nat, StripeOf(cfg, nextId, sid, s),
           NEW rack \in DataClusters(s), NEW On \in SUBSET (1..s.k),
           \A n \in 1..s.k : n \in On <=> BlockCluster(s, s.data[n]) = rack
    PROVE  /\ ParityCluster(s) # rack
           /\ IsFiniteSet(On) /\ Cardinality(On) <= RackCapacity(cfg)
           /\ \E n \in On : \A m \in On : s.data[m].group = s.data[n].group
           /\ \A m, i \in On : BlockNode(s, s.data[m]) = BlockNode(s, s.data[i]) => m = i
<1> DEFINE D == s.data
           k == s.k
<1>1. /\ cfg \in Configs /\ nextId \in Nat /\ k \in Nat
      /\ D \in [1..k -> BlockType] /\ \A n \in 1..k : Placed(s.batch, D[n])
      /\ \A n, m \in 1..k : D[n].id = D[m].id => n = m
  <2>1. cfg \in Configs /\ nextId \in Nat
    BY DEF LiveInv
  <2>2. k \in Nat
    BY <2>1, StripeSizes
  <2>3. /\ D \in [1..k -> BlockType] /\ \A n \in 1..k : Placed(s.batch, D[n])
        /\ \A n, m \in 1..k : D[n].id = D[m].id => n = m
    BY Zenon DEF StripeOf, Placed
  <2> QED BY <2>1, <2>2, <2>3, Zenon
<1>2. s.batch \in Nat
  <2> DEFINE B == BatchSize(cfg)
  <2>1. B \in Nat \ {0} /\ s.batch = sid \div B
    BY <1>1, Batches DEF StripeOf
  <2> HIDE DEF B
  <2> QED BY <2>1, DivMod
<1>3. ParityCluster(s) = Cluster(s.batch, ParityCol)
  <2>1. 1 \in 1..(cfg.r + cfg.z)
    BY <1>1, Sizes
  <2> QED BY <2>1 DEF StripeOf, ParityCluster, BlockCluster
<1>4. /\ On \in SUBSET (1..k)
      /\ \A n \in On : Cluster(s.batch, D[n].col) = rack
      /\ \E n \in 1..k : rack = Cluster(s.batch, D[n].col)
  BY DEF DataClusters, BlockCluster
<1>5. \A n \in 1..k : Cluster(s.batch, D[n].col) = rack => n \in On
  BY DEF BlockCluster
<1>6. \A x : BlockNode(s, x) = Node(s.batch, x.col, x.ncol)
  BY DEF BlockNode
<1> HIDE DEF D, k
<1>7. IsFiniteSet(On) /\ Cardinality(On) <= RackCapacity(cfg)
  <2> DEFINE batch == s.batch
  <2>1. cfg \in Configs /\ nextId \in Nat /\ k \in Nat /\ batch \in Nat
    BY <1>1, <1>2
  <2>2. D \in [1..k -> BlockType]
    BY <1>1
  <2>3. \A n \in 1..k : Placed(batch, D[n])
    BY <1>1
  <2>4. \A n, m \in 1..k : D[n].id = D[m].id => n = m
    BY <1>1
  <2>5. On \in SUBSET (1..k)
    BY <1>4
  <2>6. \A n \in On : Cluster(batch, D[n].col) = rack
    BY <1>4
  <2> HIDE DEF batch
  <2> QED BY <2>1, <2>2, <2>3, <2>4, <2>5, <2>6, RackShare
<1>8. PICK n \in On : TRUE
  BY <1>4, <1>5
<1>9. ASSUME NEW m \in On
      PROVE  /\ Cluster(s.batch, D[m].col) # Cluster(s.batch, ParityCol)
             /\ D[m].group = D[n].group
             /\ \A i \in On : Node(s.batch, D[m].col, D[m].ncol)
                                = Node(s.batch, D[i].col, D[i].ncol) => m = i
  <2>1. \A i \in On : /\ D[i] \in BlockType /\ Placed(s.batch, D[i]) /\ i \in 1..k
                      /\ Cluster(s.batch, D[i].col) = rack
    BY <1>1, <1>4
  <2> DEFINE d == D[m]
             e == D[n]
  <2>2. /\ d \in BlockType /\ Placed(s.batch, d) /\ e \in BlockType /\ Placed(s.batch, e)
        /\ Cluster(s.batch, d.col) = Cluster(s.batch, e.col)
    BY <1>8, <2>1
  <2> HIDE DEF d, e
  <2>3. Cluster(s.batch, d.col) # Cluster(s.batch, ParityCol) /\ d.group = e.group
    BY <1>1, <1>2, <2>2, PlacedApart
  <2>4. ASSUME NEW i \in On, Node(s.batch, D[m].col, D[m].ncol)
                               = Node(s.batch, D[i].col, D[i].ncol)
        PROVE  m = i
    <3> DEFINE c == D[i]
    <3>1. /\ c \in BlockType /\ Placed(s.batch, c)
          /\ Node(s.batch, d.col, d.ncol) = Node(s.batch, c.col, c.ncol)
      BY <2>1, <2>4 DEF d
    <3> HIDE DEF c
    <3>2. d.id = c.id
      BY <1>1, <1>2, <2>2, <3>1, PlacedApart
    <3>3. m \in 1..k /\ i \in 1..k /\ D[m].id = D[i].id
      BY <2>1, <3>2 DEF c, d
    <3> QED BY <1>1, <3>3, Zenon
  <2> QED BY <2>3, <2>4 DEF d, e
<1>10. ParityCluster(s) # rack
  BY <1>3, <1>4, <1>8, <1>9
<1> QED BY <1>6, <1>7, <1>8, <1>9, <1>10 DEF D

(* Losing one rack costs a stripe, merged or not, at most r+1 blocks of    *)
(* one local group, or its parities: the code can still decode.            *)
THEOREM RackLossTolerated == Spec => []RackTolerance
<1>1. LiveInv => RackTolerance
  <2> SUFFICES ASSUME LiveInv, NEW sid \in Live PROVE
          LET s == stripes[sid]
              On(rack) == {n \in 1..s.k : BlockCluster(s, s.data[n]) = rack}
          IN  /\ ParityCluster(s) \notin DataClusters(s)
              /\ \A rack \in DataClusters(s) :
                    /\ Cardinality(On(rack)) <= RackCapacity(cfg)
                    /\ Cardinality({s.data[n].group : n \in On(rack)}) = 1
                    /\ Cardinality({BlockNode(s, s.data[n]) : n \in On(rack)})
                         = Cardinality(On(rack))
              /\ Cardinality({BlockNode(s, s.parity[p]) : p \in DOMAIN s.parity})
                   = Cardinality(DOMAIN s.parity)
    BY DEF RackTolerance
  <2> DEFINE s == stripes[sid]
             On(rack) == {n \in 1..s.k : BlockCluster(s, s.data[n]) = rack}
  <2>1. /\ cfg \in Configs /\ sid \in Nat /\ StripeOf(cfg, nextId, sid, s)
    BY DEF LiveInv, Live
  <2> HIDE DEF s
  <2>2. ASSUME NEW rack \in DataClusters(s)
        PROVE  /\ ParityCluster(s) # rack
               /\ Cardinality(On(rack)) <= RackCapacity(cfg)
               /\ Cardinality({s.data[n].group : n \in On(rack)}) = 1
               /\ Cardinality({BlockNode(s, s.data[n]) : n \in On(rack)})
                    = Cardinality(On(rack))
    <3> DEFINE here == On(rack)
    <3>1. here \in SUBSET (1..s.k)
      OBVIOUS
    <3>2. \A n \in 1..s.k : n \in here <=> BlockCluster(s, s.data[n]) = rack
      OBVIOUS
    <3>3. sid \in Nat /\ StripeOf(cfg, nextId, sid, s)
      BY <2>1
    <3> HIDE DEF here
    <3>4. /\ ParityCluster(s) # rack
          /\ IsFiniteSet(here) /\ Cardinality(here) <= RackCapacity(cfg)
          /\ \E n \in here : \A m \in here : s.data[m].group = s.data[n].group
          /\ \A m, i \in here : BlockNode(s, s.data[m]) = BlockNode(s, s.data[i]) => m = i
      BY <2>2, <3>1, <3>2, <3>3, RackOfStripe
    <3>5. Cardinality({s.data[m].group : m \in here}) = 1
      <4>1. PICK n \in here : \A m \in here : s.data[m].group = s.data[n].group
        BY <3>4
      <4>2. {s.data[m].group : m \in here} = {s.data[n].group}
        BY <4>1
      <4> QED BY <4>2, FS_Singleton
    <3>6. Cardinality({BlockNode(s, s.data[m]) : m \in here}) = Cardinality(here)
      <4> DEFINE f == [m \in here |-> BlockNode(s, s.data[m])]
                 T == {f[m] : m \in here}
      <4>1. \A m, i \in here : f[m] = f[i] => m = i
        BY <3>4
      <4>2. f \in [here -> T] /\ T = {BlockNode(s, s.data[m]) : m \in here}
        OBVIOUS
      <4> HIDE DEF f
      <4>3. Cardinality(T) = Cardinality(here)
        BY <3>4, <4>1, <4>2, ValuesCounted
      <4> QED BY <4>2, <4>3, Zenon
    <3> QED BY <3>4, <3>5, <3>6 DEF here
  <2>3. Cardinality({BlockNode(s, s.parity[p]) : p \in DOMAIN s.parity})
          = Cardinality(DOMAIN s.parity)
    <3> DEFINE P == 1..(cfg.r + cfg.z)
               f == [p \in P |-> BlockNode(s, s.parity[p])]
               T == {f[p] : p \in P}
    <3>1. DOMAIN s.parity = P
          /\ \A p \in P : s.parity[p].col = ParityCol /\ s.parity[p].ncol = p
      BY <2>1 DEF StripeOf
    <3>2. \A p \in P : f[p] = Node(s.batch, ParityCol, p)
      BY <3>1 DEF BlockNode
    <3>3. s.batch \in Nat
      <4> DEFINE B == BatchSize(cfg)
      <4>1. B \in Nat \ {0} /\ s.batch = sid \div B
        BY <2>1, Batches DEF StripeOf
      <4> HIDE DEF B
      <4> QED BY <2>1, <4>1, DivMod
    <3>4. ParityCol \in 1..17 /\ \A p \in P : p \in 1..DatanodeNumPerCluster
      BY <2>1, Sizes DEF ParityCol
    <3>5. \A p, q \in P : f[p] = f[q] => p = q
      <4> HIDE DEF f, P
      <4> SUFFICES ASSUME NEW p \in P, NEW q \in P, f[p] = f[q] PROVE p = q
        OBVIOUS
      <4>1. p \in 1..DatanodeNumPerCluster /\ q \in 1..DatanodeNumPerCluster
        BY <3>4
      <4>2. Node(s.batch, ParityCol, p) = Node(s.batch, ParityCol, q)
        BY <3>2
      <4>3. ParityCol \in 1..17
        BY <3>4
      <4>4. \A n, m \in 1..DatanodeNumPerCluster :
               Node(s.batch, ParityCol, n) = Node(s.batch, ParityCol, m) => n = m
        BY <3>3, <4>3, PlacesApart, Zenon
      <4> QED BY <4>1, <4>2, <4>4, Zenon
    <3>6. IsFiniteSet(P) /\ f \in [P -> T]
      <4>1. 1 \in Int /\ cfg.r + cfg.z \in Int
        BY <2>1, Sizes
      <4>2. IsFiniteSet(P)
        BY <4>1, FS_Interval, Zenon
      <4> QED BY <4>2
    <3>7. T = {BlockNode(s, s.parity[p]) : p \in P}
      OBVIOUS
    <3> HIDE DEF f, P
    <3>8. Cardinality(T) = Cardinality(P)
      BY <3>5, <3>6, ValuesCounted
    <3> QED BY <3>1, <3>7, <3>8, Zenon
  <2> QED BY <2>2, <2>3 DEF s
<1> QED BY <1>1, Invariance, PTL

(* Two blocks of the batches of two stripes with one id have one place.    *)
LEMMA OnePlace ==
    ASSUME NEW c, NEW uploads, NEW later, NEW batch, NEW other,
           NEW d, PlacedBy(c, uploads, batch, d), NEW e, PlacedBy(c, later, other, e),
           d.id = e.id
    PROVE  batch = other /\ d.col = e.col /\ d.ncol = e.ncol
BY DEF PlacedBy

(* No data block changes rack or node in any step: a block's place is a    *)
(* function of its id alone, through uploads, merges and deletions.        *)
THEOREM NoDataMoves == Spec => DataStaysPut
<1> DEFINE Stay == \A sid \in Live : \A t \in DOMAIN stripes' :
                     \A n \in 1..stripes[sid].k : \A m \in 1..stripes'[t].k :
                        stripes[sid].data[n].id = stripes'[t].data[m].id =>
                            BlockNode(stripes[sid], stripes[sid].data[n])
                              = Node(stripes'[t].batch, stripes'[t].data[m].col,
                                     stripes'[t].data[m].ncol)
<1>1. LiveInv /\ LiveInv' /\ [Next]_vars => [Stay]_vars
  <2> SUFFICES ASSUME LiveInv, LiveInv', [Next]_vars PROVE Stay
    OBVIOUS
  <2> SUFFICES ASSUME NEW sid \in Live, NEW t \in DOMAIN stripes',
                      NEW n \in 1..stripes[sid].k, NEW m \in 1..stripes'[t].k,
                      stripes[sid].data[n].id = stripes'[t].data[m].id
               PROVE  BlockNode(stripes[sid], stripes[sid].data[n])
                        = Node(stripes'[t].batch, stripes'[t].data[m].col,
                               stripes'[t].data[m].ncol)
    OBVIOUS
  <2>1. cfg' = cfg
    BY DEF Next, SetStripe, SetRefused, SetUnavailable, DeleteStripe, Merge, MergeStripes, vars
  <2> DEFINE d == stripes[sid].data[n]
             e == stripes'[t].data[m]
             batch == stripes[sid].batch
             later == stripes'[t].batch
  <2>2. PlacedBy(cfg, nextId, batch, d)
    BY DEF LiveInv, StripeOf, Live
  <2>3. PlacedBy(cfg, nextId', later, e)
    BY <2>1 DEF LiveInv, StripeOf
  <2> HIDE DEF d, e, batch, later
  <2>4. d.id = e.id
    BY DEF d, e
  <2>5. batch = later /\ d.col = e.col /\ d.ncol = e.ncol
    BY <2>2, <2>3, <2>4, OnePlace
  <2>6. Node(batch, d.col, d.ncol) = Node(later, e.col, e.ncol)
    BY <2>5
  <2> QED BY <2>6 DEF d, e, batch, later, BlockNode
<1>2. Spec => [][Stay]_vars
  BY <1>1, Invariance, PTL DEF Spec
<1> QED BY <1>2 DEF DataStaysPut

-----------------------------------------------------------------------------
(***************************************************************************)
(* How many racks a stripe takes: the classes of stripes that share a tail *)
(* rack, the columns of a super-stripe, the runs of uploads in a stripe.   *)
(***************************************************************************)
(* The stripes of a level divide into those of the level below. *)
LEMMA PowersOfLevels ==
    ASSUME NEW c \in Configs, NEW l \in 0..MergeRounds(c)
    PROVE  /\ l \in Nat /\ 2^l \in Nat \ {0}
           /\ \A j \in 0..l : /\ 2^j \in Nat \ {0} /\ 2^(l - j) \in Nat \ {0}
                              /\ 2^l = 2^j * 2^(l - j)
           /\ l # 0 => 2^l = 2^(l - 1) * 2
           /\ BatchSize(c) = 2^l * 2^(MergeRounds(c) - l)
<1> DEFINE N == MergeRounds(c)
<1>1. N \in 0..LevelBound /\ LevelBound \in Nat /\ l \in 0..N
  BY Levels, DimensionsAssumption
<1> HIDE DEF N
<1>2. \A m \in 0..N : \A j \in 0..m :
         /\ 2^j \in Nat \ {0} /\ 2^(m - j) \in Nat \ {0} /\ 2^m = 2^j * 2^(m - j)
  <2> SUFFICES ASSUME NEW m \in 0..N, NEW j \in 0..m
               PROVE  /\ 2^j \in Nat \ {0} /\ 2^(m - j) \in Nat \ {0}
                      /\ 2^m = 2^j * 2^(m - j)
    OBVIOUS
  <2>1. j \in 0..LevelBound /\ m - j \in 0..LevelBound /\ m - j \in 0..(LevelBound - j)
        /\ j + (m - j) = m
    BY <1>1
  <2>2. 2^(j + (m - j)) = 2^j * 2^(m - j)
    BY <2>1, PowersAssumption
  <2> QED BY <2>1, <2>2, PowersAssumption
<1>3. ASSUME l # 0 PROVE 2^l = 2^(l - 1) * 2
  <2>1. l - 1 \in 0..l /\ l - (l - 1) = 1 /\ 2^1 = 2
    BY <1>1, <1>3
  <2>2. 2^l = 2^(l - 1) * 2^(l - (l - 1))
    BY <1>1, <1>2, <2>1
  <2> QED BY <2>1, <2>2
<1>4. 2^N = 2^l * 2^(N - l)
  BY <1>1, <1>2
<1>5. l \in 0..l /\ l \in Nat
  BY <1>1
<1> QED BY <1>1, <1>2, <1>3, <1>4, <1>5 DEF BatchSize, N

(* The super-stripe of level l a position is in, and the positions of it. *)
SuperOf(l, pos) == pos \div 2^l
Block(c, l, b) == {pos \in Positions(c) : SuperOf(l, pos) = b}

(* A super-stripe has two halves, each with its own tail. *)
LEMMA TwoHalves ==
    ASSUME NEW c \in Configs, NEW l \in 1..MergeRounds(c), NEW pos \in Positions(c)
    PROVE  /\ LeftTail(l, pos) \in Positions(c) /\ RightTail(l, pos) \in Positions(c)
           /\ SuperOf(l, LeftTail(l, pos)) = SuperOf(l, pos)
           /\ SuperOf(l, RightTail(l, pos)) = SuperOf(l, pos)
           /\ SuperOf(l - 1, LeftTail(l, pos)) = 2 * SuperOf(l, pos)
           /\ SuperOf(l - 1, RightTail(l, pos)) = 2 * SuperOf(l, pos) + 1
           /\ SuperOf(l - 1, pos) \in {2 * SuperOf(l, pos), 2 * SuperOf(l, pos) + 1}
           /\ SuperOf(l, pos) \in Nat
<1> DEFINE B == BatchSize(c)
           w == 2^l
           h == 2^(l - 1)
           m == 2^(MergeRounds(c) - l)
           q == pos \div w
<1>1. w \in Nat \ {0} /\ h \in Nat \ {0} /\ m \in Nat \ {0} /\ B = w * m /\ w = h * 2
  <2>1. l \in 0..MergeRounds(c) /\ l # 0 /\ l - 1 \in 0..l
        /\ MergeRounds(c) \in 0..MergeRounds(c) /\ l \in 0..MergeRounds(c)
    BY Levels, DimensionsAssumption
  <2> QED BY <2>1, PowersOfLevels
<1>2. pos \in 0..(B - 1) /\ Positions(c) = 0..(B - 1)
  BY Batches
<1>3. /\ LeftTail(l, pos) = q * w + h - 1 /\ RightTail(l, pos) = q * w + w - 1
      /\ \A p : SuperOf(l, p) = p \div w /\ SuperOf(l - 1, p) = p \div h
  BY DEF LeftTail, RightTail, SuperOf
<1> HIDE DEF B, w, h, m
<1>4. q \in Nat /\ q < m
  <2>1. pos \in Nat /\ pos < w * m
    BY <1>1, <1>2
  <2> QED BY <1>1, <2>1, DivMod, DivBound, Zenon
<1>5. (pos \div h) \div 2 = q /\ pos \div h \in Nat
  <2>1. pos \in Nat /\ 2 \in Nat \ {0}
    BY <1>1, <1>2
  <2>2. pos \div (h * 2) = (pos \div h) \div 2
    <3>1. h \in Nat \ {0}
      BY <1>1
    <3> QED BY <2>1, <3>1, DivTwice, Zenon
  <2>3. pos \div h \in Nat
    BY <1>1, <2>1, DivMod, Zenon
  <2> QED BY <1>1, <2>2, <2>3
<1> HIDE DEF q
<1>6. w * q + w <= w * m /\ q * w = w * q /\ w * q \in Nat /\ w * m \in Nat
  <2>1. w * q + w <= w * m
    BY <1>1, <1>4, LessMul
  <2> QED BY <1>1, <1>4, <2>1
<1>7. q * w + h - 1 \in 0..(B - 1) /\ q * w + w - 1 \in 0..(B - 1)
  BY <1>1, <1>6
<1>8. (q * w + h - 1) \div w = q /\ (q * w + w - 1) \div w = q
  <2>1. h - 1 \in 0..(w - 1) /\ w - 1 \in 0..(w - 1)
    BY <1>1
  <2>2. q * w + h - 1 = w * q + (h - 1) /\ q * w + w - 1 = w * q + (w - 1)
    BY <1>1, <1>6
  <2>3. q * w + h - 1 \in Nat /\ q * w + w - 1 \in Nat
    BY <1>7
  <2> QED BY <1>1, <1>4, <2>1, <2>2, <2>3, DivUnique
<1>9. (q * w + h - 1) \div h = 2 * q /\ (q * w + w - 1) \div h = 2 * q + 1
  <2>1. h - 1 \in 0..(h - 1) /\ 2 * q \in Nat /\ 2 * q + 1 \in Nat
    BY <1>1, <1>4
  <2>2. q * w + h - 1 = h * (2 * q) + (h - 1) /\ q * w + w - 1 = h * (2 * q + 1) + (h - 1)
    BY <1>1, <1>4
  <2>3. q * w + h - 1 \in Nat /\ q * w + w - 1 \in Nat
    BY <1>7
  <2> QED BY <1>1, <2>1, <2>2, <2>3, DivUnique
<1>10. pos \div h \in {2 * q, 2 * q + 1}
  BY <1>4, <1>5
<1> QED BY <1>2, <1>3, <1>4, <1>7, <1>8, <1>9, <1>10 DEF q

(* Positions of one super-stripe are together in every larger one. *)
LEMMA LargerBlocks ==
    ASSUME NEW c \in Configs, NEW l \in 0..MergeRounds(c), NEW j \in 0..l,
           NEW p \in Nat, NEW q \in Nat, SuperOf(j, p) = SuperOf(j, q)
    PROVE  SuperOf(l, p) = SuperOf(l, q)
<1>1. 2^j \in Nat \ {0} /\ 2^(l - j) \in Nat \ {0} /\ 2^l = 2^j * 2^(l - j)
  BY PowersOfLevels
<1> DEFINE a == 2^j
           b == 2^(l - j)
<1>2. a \in Nat \ {0} /\ b \in Nat \ {0} /\ 2^l = a * b /\ p \div a = q \div a
  BY <1>1 DEF SuperOf
<1> HIDE DEF a, b
<1>3. p \div (a * b) = (p \div a) \div b /\ q \div (a * b) = (q \div a) \div b
  BY <1>2, DivTwice, Zenon
<1> QED BY <1>2, <1>3 DEF SuperOf

-----------------------------------------------------------------------------
(***************************************************************************)
(* The union-find, level by level.  After level l the roots of a position  *)
(* are in its super-stripe of that level.                                  *)
(***************************************************************************)
RootsWithin(c, l, f) ==
    /\ f \in [Positions(c) -> Positions(c)]
    /\ \A pos \in Positions(c) : SuperOf(l, f[pos]) = SuperOf(l, pos)

(* A level renames the class of the right half's tail, if it shares tails. *)
LEMMA JoinRenames ==
    ASSUME NEW c \in Configs, NEW l \in 1..MergeRounds(c), NEW f,
           f \in [Positions(c) -> Positions(c)], NEW pos \in Positions(c)
    PROVE  LET g == JoinTails(c, l, f)
               r == f[RightTail(l, pos)]
               t == f[LeftTail(l, pos)]
           IN  /\ SharesTails(c, l) /\ f[pos] = r => g[pos] = t
               /\ ~SharesTails(c, l) \/ f[pos] # r => g[pos] = f[pos]
BY DEF JoinTails

(* The root of either tail is in its half. *)
LEMMA RootsOfTails ==
    ASSUME NEW c \in Configs, NEW l \in 1..MergeRounds(c), NEW f, RootsWithin(c, l - 1, f),
           NEW pos \in Positions(c)
    PROVE  /\ f[LeftTail(l, pos)] \in Positions(c) /\ f[RightTail(l, pos)] \in Positions(c)
           /\ SuperOf(l - 1, f[LeftTail(l, pos)]) = 2 * SuperOf(l, pos)
           /\ SuperOf(l - 1, f[RightTail(l, pos)]) = 2 * SuperOf(l, pos) + 1
BY TwoHalves DEF RootsWithin

(* So the roots stay in the super-stripe of the new level. *)
LEMMA JoinWithin ==
    ASSUME NEW c \in Configs, NEW l \in 1..MergeRounds(c), NEW f, RootsWithin(c, l - 1, f)
    PROVE  RootsWithin(c, l, JoinTails(c, l, f))
<1> DEFINE g == JoinTails(c, l, f)
<1>1. f \in [Positions(c) -> Positions(c)]
  BY DEF RootsWithin
<1>2. Positions(c) \subseteq Nat /\ l \in 0..MergeRounds(c) /\ l - 1 \in 0..l
  BY Batches, Levels
<1>3. ASSUME NEW pos \in Positions(c)
      PROVE  g[pos] \in Positions(c) /\ SuperOf(l, g[pos]) = SuperOf(l, pos)
  <2>1. LeftTail(l, pos) \in Positions(c) /\ SuperOf(l, LeftTail(l, pos)) = SuperOf(l, pos)
    BY TwoHalves
  <2>2. \A p \in Positions(c) : f[p] \in Positions(c) /\ SuperOf(l, f[p]) = SuperOf(l, p)
    <3> SUFFICES ASSUME NEW p \in Positions(c)
                 PROVE  f[p] \in Positions(c) /\ SuperOf(l, f[p]) = SuperOf(l, p)
      OBVIOUS
    <3>1. f[p] \in Positions(c) /\ SuperOf(l - 1, f[p]) = SuperOf(l - 1, p)
      BY DEF RootsWithin
    <3>2. f[p] \in Nat /\ p \in Nat
      BY <1>2, <3>1
    <3> QED BY <1>2, <3>1, <3>2, LargerBlocks
  <2>3. g[pos] = f[pos] \/ g[pos] = f[LeftTail(l, pos)]
    BY <1>1, JoinRenames
  <2> QED BY <2>1, <2>2, <2>3
<1>4. g = [pos \in Positions(c) |-> g[pos]]
  BY DEF JoinTails
<1> HIDE DEF g
<1>5. g \in [Positions(c) -> Positions(c)]
  BY <1>3, <1>4
<1> QED BY <1>3, <1>5 DEF RootsWithin, g

(* Within a half a level joins nothing. *)
LEMMA JoinInHalf ==
    ASSUME NEW c \in Configs, NEW l \in 1..MergeRounds(c), NEW f, RootsWithin(c, l - 1, f),
           NEW p \in Positions(c), NEW q \in Positions(c), SuperOf(l - 1, p) = SuperOf(l - 1, q)
    PROVE  f[p] = f[q] <=> JoinTails(c, l, f)[p] = JoinTails(c, l, f)[q]
<1> DEFINE g == JoinTails(c, l, f)
           r == f[RightTail(l, p)]
           t == f[LeftTail(l, p)]
           s == SuperOf(l, p)
<1>1. f \in [Positions(c) -> Positions(c)]
  BY DEF RootsWithin
<1>2. SuperOf(l, q) = s
  <2>1. l \in 0..MergeRounds(c) /\ l - 1 \in 0..l /\ p \in Nat /\ q \in Nat
    BY Batches, Levels
  <2> QED BY <2>1, LargerBlocks
<1>3. RightTail(l, q) = RightTail(l, p) /\ LeftTail(l, q) = LeftTail(l, p)
  BY <1>2 DEF SuperOf, RightTail, LeftTail
<1>4. /\ SharesTails(c, l) /\ f[p] = r => g[p] = t
      /\ ~SharesTails(c, l) \/ f[p] # r => g[p] = f[p]
      /\ SharesTails(c, l) /\ f[q] = r => g[q] = t
      /\ ~SharesTails(c, l) \/ f[q] # r => g[q] = f[q]
  <2>1. /\ SharesTails(c, l) /\ f[p] = r => g[p] = t
        /\ ~SharesTails(c, l) \/ f[p] # r => g[p] = f[p]
    BY <1>1, JoinRenames
  <2>2. /\ SharesTails(c, l) /\ f[q] = r => g[q] = t
        /\ ~SharesTails(c, l) \/ f[q] # r => g[q] = f[q]
    BY <1>1, <1>3, JoinRenames
  <2> QED BY <2>1, <2>2
<1>5. SuperOf(l - 1, t) # SuperOf(l - 1, r)
  <2>1. s \in Nat
    BY TwoHalves
  <2> QED BY <2>1, RootsOfTails
<1>6. SuperOf(l - 1, f[p]) = SuperOf(l - 1, f[q])
  BY DEF RootsWithin
<1> HIDE DEF g, r, t
<1>7. f[p] = f[q] => g[p] = g[q]
  BY <1>4
<1>8. f[p] # f[q] => g[p] # g[q]
  BY <1>4, <1>5, <1>6
<1> QED BY <1>7, <1>8 DEF g

(* g is f on L and R, except that a value r of f on R may be renamed to a  *)
(* value t of f on L: joined is {r} or, if nothing is renamed, {}.         *)
JoinsImages(f, g, L, R, r, t, joined) ==
    /\ IsFiniteSet(L) /\ IsFiniteSet(R)
    /\ Image(f, L) \cap Image(f, R) = {}
    /\ r \in Image(f, R) /\ t \in Image(f, L) /\ joined \in {{}, {r}}
    /\ \A x \in L \cup R : /\ f[x] \in joined => g[x] = t
                           /\ f[x] \notin joined => g[x] = f[x]

(* Joining takes one value from the image of both. *)
LEMMA ImagesJoined ==
    ASSUME NEW L, NEW R, NEW f, NEW g, NEW r, NEW t, NEW joined,
           JoinsImages(f, g, L, R, r, t, joined)
    PROVE  /\ Cardinality(Image(f, L)) \in Nat /\ Cardinality(Image(f, R)) \in Nat
           /\ Cardinality(Image(g, L \cup R))
                = Cardinality(Image(f, L)) + Cardinality(Image(f, R)) - Cardinality(joined)
<1> DEFINE left  == Image(f, L)
           right == Image(f, R)
           rest  == right \ joined
<1>1. IsFiniteSet(left) /\ IsFiniteSet(right)
  <2>1. IsFiniteSet(L) /\ IsFiniteSet(R)
    BY DEF JoinsImages
  <2> QED BY <2>1, SameCount
<1>2. \A x \in L : f[x] \in left /\ f[x] # r
  BY DEF Image, JoinsImages
<1>3. \A x \in R : f[x] \in right
  BY DEF Image
<1>4. \A y \in left : \E x \in L : f[x] = y
  BY DEF Image
<1>5. \A y \in right : \E x \in R : f[x] = y
  BY DEF Image
<1>6. left \cap right = {} /\ r \in right /\ t \in left /\ joined \in {{}, {r}}
  BY DEF JoinsImages
<1> HIDE DEF left, right
<1>7. Image(g, L \cup R) = left \cup rest
  <2>1. \A y \in left \cup rest : \E x \in L \cup R : g[x] = y
    <3> SUFFICES ASSUME NEW y \in left \cup rest PROVE \E x \in L \cup R : g[x] = y
      OBVIOUS
    <3>1. PICK x \in L \cup R : f[x] = y
      BY <1>4, <1>5
    <3>2. y \notin joined
      BY <1>6
    <3> QED BY <3>1, <3>2 DEF JoinsImages
  <2>2. \A x \in L \cup R : g[x] \in left \cup rest
    <3> SUFFICES ASSUME NEW x \in L \cup R PROVE g[x] \in left \cup rest
      OBVIOUS
    <3>1. CASE f[x] \in joined
      BY <1>6, <3>1 DEF JoinsImages
    <3>2. CASE f[x] \notin joined
      BY <1>2, <1>3, <3>2 DEF JoinsImages
    <3> QED BY <3>1, <3>2
  <2> HIDE DEF rest
  <2> QED BY <2>1, <2>2 DEF Image
<1>8. Cardinality(left) \in Nat /\ Cardinality(right) \in Nat /\ Cardinality({}) = 0
  BY <1>1, FS_CardinalityType, FS_EmptySet
<1>9. /\ IsFiniteSet(rest) /\ left \cap rest = {}
      /\ Cardinality(rest) = Cardinality(right) - Cardinality(joined)
  <2>1. IsFiniteSet(right \ {r}) /\ Cardinality(right \ {r}) = Cardinality(right) - 1
    BY <1>1, <1>6, FS_RemoveElement
  <2>2. left \cap rest = {}
    BY <1>6
  <2>3. CASE joined = {r}
    <3>1. Cardinality(joined) = 1
      BY <2>3, FS_Singleton
    <3> QED BY <1>6, <2>1, <2>2, <2>3, <3>1
  <2>4. CASE joined = {}
    <3>1. rest = right
      BY <2>4
    <3> QED BY <1>1, <1>8, <2>2, <2>4, <3>1
  <2> QED BY <1>6, <2>3, <2>4
<1> HIDE DEF rest
<1>10. Cardinality(left \cup rest) = Cardinality(left) + Cardinality(rest) - Cardinality({})
  <2>1. Cardinality(left \cup rest)
          = Cardinality(left) + Cardinality(rest) - Cardinality(left \cap rest)
    BY <1>1, <1>9, FS_Union
  <2> QED BY <1>9, <2>1
<1>11. Cardinality(joined) \in Nat
  <2>1. Cardinality({r}) = 1
    BY FS_Singleton
  <2> QED BY <1>6, <1>8, <2>1
<1>12. Cardinality(left \cup rest)
          = Cardinality(left) + Cardinality(right) - Cardinality(joined)
  BY <1>8, <1>9, <1>10, <1>11
<1> QED BY <1>7, <1>8, <1>12, Zenon DEF left, right

(* A level leaves in a super-stripe the classes of its halves, one fewer   *)
(* if it shares tails.                                                     *)
LEMMA JoinCounts ==
    ASSUME NEW c \in Configs, NEW l \in 1..MergeRounds(c), NEW f, RootsWithin(c, l - 1, f),
           NEW pos \in Positions(c)
    PROVE  LET left  == Image(f, Block(c, l - 1, 2 * SuperOf(l, pos)))
               right == Image(f, Block(c, l - 1, 2 * SuperOf(l, pos) + 1))
               all   == Image(JoinTails(c, l, f), Block(c, l, SuperOf(l, pos)))
           IN  /\ Cardinality(left) \in Nat /\ Cardinality(right) \in Nat
               /\ Cardinality(all) = Cardinality(left) + Cardinality(right)
                                       - (IF SharesTails(c, l) THEN 1 ELSE 0)
<1> DEFINE g == JoinTails(c, l, f)
           s == SuperOf(l, pos)
           r == f[RightTail(l, pos)]
           t == f[LeftTail(l, pos)]
           L == Block(c, l - 1, 2 * s)
           R == Block(c, l - 1, 2 * s + 1)
           A == Block(c, l, s)
<1>1. f \in [Positions(c) -> Positions(c)] /\ s \in Nat
  BY TwoHalves DEF RootsWithin
<1>2. /\ L \subseteq Positions(c) /\ R \subseteq Positions(c)
      /\ \A x \in L : SuperOf(l - 1, f[x]) = 2 * s
      /\ \A x \in R : SuperOf(l - 1, f[x]) = 2 * s + 1
  BY DEF Block, RootsWithin
<1>3. /\ RightTail(l, pos) \in R /\ LeftTail(l, pos) \in L
      /\ SuperOf(l - 1, r) = 2 * s + 1
  BY TwoHalves, RootsOfTails DEF Block
<1>4. A = L \cup R
  <2>1. ASSUME NEW x \in Positions(c), SuperOf(l, x) = s
        PROVE  SuperOf(l - 1, x) \in {2 * s, 2 * s + 1}
    BY <2>1, TwoHalves
  <2>2. ASSUME NEW x \in Positions(c), SuperOf(l - 1, x) \in {2 * s, 2 * s + 1}
        PROVE  SuperOf(l, x) = s
    <3> DEFINE u == SuperOf(l, x)
    <3>1. SuperOf(l - 1, x) \in {2 * u, 2 * u + 1} /\ u \in Nat
      BY TwoHalves
    <3> HIDE DEF u
    <3>2. u = s
      BY <1>1, <2>2, <3>1
    <3> QED BY <3>2 DEF u
  <2> QED BY <2>1, <2>2 DEF Block
<1>5. \A x \in A : /\ SharesTails(c, l) /\ f[x] = r => g[x] = t
                   /\ ~SharesTails(c, l) \/ f[x] # r => g[x] = f[x]
  <2> SUFFICES ASSUME NEW x \in A
               PROVE  /\ SharesTails(c, l) /\ f[x] = r => g[x] = t
                      /\ ~SharesTails(c, l) \/ f[x] # r => g[x] = f[x]
    OBVIOUS
  <2>1. x \in Positions(c) /\ SuperOf(l, x) = s
    BY DEF Block
  <2>2. RightTail(l, x) = RightTail(l, pos) /\ LeftTail(l, x) = LeftTail(l, pos)
    BY <2>1 DEF SuperOf, RightTail, LeftTail
  <2> QED BY <1>1, <2>1, <2>2, JoinRenames
<1>6. IsFiniteSet(L) /\ IsFiniteSet(R)
  <2>1. IsFiniteSet(Positions(c))
    BY Batches, FS_Interval
  <2> QED BY <1>2, <2>1, FS_Subset
<1> HIDE DEF L, R
<1>7. /\ Image(f, L) \cap Image(f, R) = {}
      /\ r \in Image(f, R) /\ t \in Image(f, L)
  <2>1. \A x \in L : \A y \in R : f[x] # f[y]
    BY <1>1, <1>2
  <2> QED BY <1>3, <2>1 DEF Image
<1> DEFINE joined == IF SharesTails(c, l) THEN {r} ELSE {}
<1> HIDE DEF A, g, r, t
<1>8. joined \in {{}, {r}} /\ Cardinality(joined) = IF SharesTails(c, l) THEN 1 ELSE 0
  BY FS_EmptySet, FS_Singleton
<1>9. ASSUME NEW x \in L \cup R
      PROVE  /\ f[x] \in joined => g[x] = t
             /\ f[x] \notin joined => g[x] = f[x]
  <2>4. x \in A
    BY <1>4
  <2>1. /\ SharesTails(c, l) /\ f[x] = r => g[x] = t
        /\ ~SharesTails(c, l) \/ f[x] # r => g[x] = f[x]
    BY <1>5, <2>4, Zenon
  <2>2. CASE SharesTails(c, l)
    BY <2>1, <2>2
  <2>3. CASE ~SharesTails(c, l)
    BY <2>1, <2>3
  <2> QED BY <2>2, <2>3
<1> HIDE DEF joined
<1>10. /\ Cardinality(Image(f, L)) \in Nat /\ Cardinality(Image(f, R)) \in Nat
       /\ Cardinality(Image(g, L \cup R))
            = Cardinality(Image(f, L)) + Cardinality(Image(f, R)) - Cardinality(joined)
  <2>1. JoinsImages(f, g, L, R, r, t, joined)
    BY <1>6, <1>7, <1>8, <1>9 DEF JoinsImages
  <2> QED BY <2>1, ImagesJoined
<1> QED BY <1>4, <1>8, <1>10 DEF g, s, L, R, A

(***************************************************************************)
(* The tail racks a group of a super-stripe of level l has left: what the  *)
(* full racks of its stripes do not hold of the racks get_ddlrt_lrc_racks  *)
(* counts.                                                                 *)
(***************************************************************************)
GroupRacks(c, l) == CeilDiv(2^l * DataPerGroup(c), RackCapacity(c))
TailRacks(c, l)  == GroupRacks(c, l) - 2^l * (RacksPerGroup(c) - 1)

(* Every merge level fits: its stripes share the parity rack and either    *)
(* no other or one rack of every group.                                    *)
LEMMA LevelsFit ==
    ASSUME NEW c \in Configs, NEW l \in 1..MergeRounds(c)
    PROVE  SharedRacks(c, l) \in {1, 1 + c.z}
<1> DEFINE T == {n \in 0..LevelBound : \A m \in 1..n : LevelFits(c, m)}
<1>1. T \in SUBSET (0..LevelBound) /\ LevelBound \in Nat
  BY DimensionsAssumption
<1>2. 0 \in T
  BY <1>1
<1>3. MergeRounds(c) = Max(T)
  BY DEF MergeRounds
<1> HIDE DEF T
<1>4. \E x \in T : \A y \in T : x >= y
  BY <1>1, <1>2, Greatest
<1>5. MergeRounds(c) \in T
  BY <1>3, <1>4 DEF Max
<1>6. LevelFits(c, l)
  BY <1>5 DEF T
<1> QED BY <1>6 DEF LevelFits

(* So a level has twice the tail racks of the one before, less the one it  *)
(* shares.                                                                 *)
LEMMA TailRacksOfLevels ==
    ASSUME NEW c \in Configs
    PROVE  /\ TailRacks(c, 0) = 1
           /\ \A l \in 1..MergeRounds(c) :
                 TailRacks(c, l) = 2 * TailRacks(c, l - 1) - (IF SharesTails(c, l) THEN 1 ELSE 0)
<1>1. TailRacks(c, 0) = 1
  <2>1. 2^0 = 1 /\ DataPerGroup(c) \in Nat /\ 2^0 * DataPerGroup(c) = DataPerGroup(c)
    BY Sizes
  <2>2. GroupRacks(c, 0) = RacksPerGroup(c)
    BY <2>1 DEF GroupRacks, RacksPerGroup
  <2>3. RacksPerGroup(c) \in Nat
    BY TailShare
  <2> QED BY <2>1, <2>2, <2>3 DEF TailRacks
<1>2. ASSUME NEW l \in 1..MergeRounds(c)
      PROVE  TailRacks(c, l) = 2 * TailRacks(c, l - 1) - (IF SharesTails(c, l) THEN 1 ELSE 0)
  <2> DEFINE a == GroupRacks(c, l)
             b == GroupRacks(c, l - 1)
             w == 2^l
             h == 2^(l - 1)
             q == RacksPerGroup(c) - 1
             z == c.z
             S == SharedRacks(c, l)
  <2>1. w \in Nat \ {0} /\ h \in Nat \ {0} /\ w = h * 2
    <3>1. l \in 0..MergeRounds(c) /\ l # 0 /\ l - 1 \in 0..l /\ l \in 0..l
      BY Levels
    <3> QED BY <3>1, PowersOfLevels
  <2>2. q \in Int /\ z \in Nat \ {0} /\ DataPerGroup(c) \in Nat /\ RackCapacity(c) \in Nat \ {0}
    BY Sizes, TailShare
  <2>3. a \in Int /\ b \in Int
    BY <2>1, <2>2 DEF GroupRacks, CeilDiv
  <2>4. S = 2 * (b * z + 1) - (a * z + 1) /\ S \in {1, 1 + z} /\ (SharesTails(c, l) <=> S = 1 + z)
    BY LevelsFit DEF SharedRacks, Racks, GroupRacks, SharesTails
  <2>5. TailRacks(c, l) = a - w * q /\ TailRacks(c, l - 1) = b - h * q
    BY DEF TailRacks
  <2> HIDE DEF a, b, w, h, q, z, S
  <2>6. S = (2 * b - a) * z + 1
    BY <2>2, <2>3, <2>4
  <2>7. a - w * q = 2 * (b - h * q) - (2 * b - a)
    <3>1. w * q = 2 * (h * q)
      BY <2>1, <2>2
    <3>2. w * q \in Int /\ h * q \in Int
      BY <2>1, <2>2
    <3> QED BY <2>3, <3>1, <3>2
  <2> DEFINE x == 2 * b - a
  <2>8. x \in Int /\ (x * z = 0 \/ x * z = z)
    BY <2>2, <2>3, <2>4, <2>6
  <2>9. S = x * z + 1
    BY <2>6
  <2>10. x * z = 0 => x = 0
    <3> HIDE DEF x
    <3> QED BY <2>2, <2>8
  <2>11. x * z = z => x = 1
    <3> HIDE DEF x
    <3>1. x * z = z => (x - 1) * z = 0
      BY <2>2, <2>8
    <3>2. (x - 1) * z = 0 => x - 1 = 0
      BY <2>2, <2>8
    <3> QED BY <2>8, <3>1, <3>2
  <2> HIDE DEF x
  <2>12. CASE SharesTails(c, l)
    <3>1. x = 1
      BY <2>2, <2>4, <2>8, <2>9, <2>11, <2>12
    <3> QED BY <2>5, <2>7, <2>12, <3>1 DEF x
  <2>13. CASE ~SharesTails(c, l)
    <3>1. x = 0
      BY <2>2, <2>4, <2>8, <2>9, <2>10, <2>13
    <3> QED BY <2>3, <2>5, <2>7, <2>13, <3>1 DEF x
  <2> QED BY <2>12, <2>13
<1> QED BY <1>1, <1>2

(***************************************************************************)
(* After level l every super-stripe of a level j up to l has as many       *)
(* classes of tails as tail racks.                                         *)
(***************************************************************************)
Counted(c, l, f) ==
    /\ RootsWithin(c, l, f)
    /\ \A j \in 0..l : \A pos \in Positions(c) :
          Cardinality(Image(f, Block(c, j, SuperOf(j, pos)))) = TailRacks(c, j)

(* At first each stripe has its own tail. *)
LEMMA CountedFirst ==
    ASSUME NEW c \in Configs, NEW f, f = [pos \in Positions(c) |-> pos]
    PROVE  Counted(c, 0, f)
<1>1. \A pos \in Positions(c) : SuperOf(0, pos) = pos
  <2>1. 2^0 = 1 /\ \A n \in Nat : n \div 1 = n
    OBVIOUS
  <2>2. Positions(c) \subseteq Nat
    BY Batches
  <2> QED BY <2>1, <2>2 DEF SuperOf
<1>2. \A pos \in Positions(c) : Block(c, 0, SuperOf(0, pos)) = {pos}
  BY <1>1 DEF Block
<1>3. \A pos \in Positions(c) : Image(f, {pos}) = {pos}
  BY DEF Image
<1>4. \A pos \in Positions(c) :
         Cardinality(Image(f, Block(c, 0, SuperOf(0, pos)))) = TailRacks(c, 0)
  <2> TAKE pos \in Positions(c)
  <2>1. Image(f, Block(c, 0, SuperOf(0, pos))) = {pos}
    BY <1>2, <1>3
  <2>2. Cardinality({pos}) = 1
    BY FS_Singleton
  <2> QED BY <2>1, <2>2, TailRacksOfLevels
<1>5. \A j \in 0..0 : j = 0
  OBVIOUS
<1> QED BY <1>4, <1>5 DEF Counted, RootsWithin

(* A level keeps this: it joins classes of different halves only, in super-*)
(* stripes of its own.                                                     *)
LEMMA CountedStep ==
    ASSUME NEW c \in Configs, NEW l \in 1..MergeRounds(c), NEW f, Counted(c, l - 1, f)
    PROVE  Counted(c, l, JoinTails(c, l, f))
<1> DEFINE g == JoinTails(c, l, f)
<1>1. RootsWithin(c, l - 1, f)
  BY DEF Counted
<1>2. RootsWithin(c, l, g)
  BY <1>1, JoinWithin
<1>3. l \in 0..MergeRounds(c) /\ l - 1 \in 0..MergeRounds(c) /\ Positions(c) \subseteq Nat
      /\ IsFiniteSet(Positions(c))
  <2>1. IsFiniteSet(Positions(c))
    BY Batches, FS_Interval
  <2> QED BY <2>1, Batches, Levels
<1> HIDE DEF g
<1>4. ASSUME NEW j \in 0..(l - 1), NEW pos \in Positions(c)
      PROVE  Cardinality(Image(g, Block(c, j, SuperOf(j, pos)))) = TailRacks(c, j)
  <2> DEFINE P == Block(c, j, SuperOf(j, pos))
  <2>1. \A x, y \in P : f[x] = f[y] <=> g[x] = g[y]
    <3> SUFFICES ASSUME NEW x \in P, NEW y \in P PROVE f[x] = f[y] <=> g[x] = g[y]
      OBVIOUS
    <3>1. x \in Positions(c) /\ y \in Positions(c) /\ SuperOf(j, x) = SuperOf(j, y)
      BY DEF Block
    <3>2. SuperOf(l - 1, x) = SuperOf(l - 1, y)
      BY <1>3, <3>1, LargerBlocks
    <3> QED BY <1>1, <3>1, <3>2, JoinInHalf DEF g
  <2>2. IsFiniteSet(P)
    <3>1. P \subseteq Positions(c)
      BY DEF Block
    <3> HIDE DEF P
    <3> QED BY <1>3, <3>1, FS_Subset
  <2> HIDE DEF P
  <2>3. Cardinality(Image(f, P)) = Cardinality(Image(g, P))
    BY <2>1, <2>2, SameCount
  <2>4. Cardinality(Image(f, P)) = TailRacks(c, j)
    BY DEF Counted, P
  <2> QED BY <2>3, <2>4 DEF P
<1>5. ASSUME NEW pos \in Positions(c)
      PROVE  Cardinality(Image(g, Block(c, l, SuperOf(l, pos)))) = TailRacks(c, l)
  <2> DEFINE s == SuperOf(l, pos)
             left  == Cardinality(Image(f, Block(c, l - 1, 2 * s)))
             right == Cardinality(Image(f, Block(c, l - 1, 2 * s + 1)))
  <2>1. /\ left \in Nat /\ right \in Nat
        /\ Cardinality(Image(g, Block(c, l, s)))
             = left + right - (IF SharesTails(c, l) THEN 1 ELSE 0)
    BY <1>1, JoinCounts DEF g
  <2>2. left = TailRacks(c, l - 1) /\ right = TailRacks(c, l - 1)
    <3>1. /\ LeftTail(l, pos) \in Positions(c) /\ RightTail(l, pos) \in Positions(c)
          /\ SuperOf(l - 1, LeftTail(l, pos)) = 2 * s
          /\ SuperOf(l - 1, RightTail(l, pos)) = 2 * s + 1
      BY TwoHalves
    <3>2. l - 1 \in 0..(l - 1)
      BY <1>3
    <3>3. \A p \in Positions(c) :
             Cardinality(Image(f, Block(c, l - 1, SuperOf(l - 1, p)))) = TailRacks(c, l - 1)
      BY <3>2 DEF Counted
    <3> HIDE DEF s
    <3> QED BY <3>1, <3>3
  <2>3. TailRacks(c, l) = 2 * TailRacks(c, l - 1) - (IF SharesTails(c, l) THEN 1 ELSE 0)
    BY TailRacksOfLevels
  <2> HIDE DEF left, right
  <2> QED BY <2>1, <2>2, <2>3
<1>6. \A j \in 0..l : j = l \/ j \in 0..(l - 1)
  BY <1>3
<1>7. \A j \in 0..l : \A pos \in Positions(c) :
         Cardinality(Image(g, Block(c, j, SuperOf(j, pos)))) = TailRacks(c, j)
  BY <1>4, <1>5, <1>6
<1> QED BY <1>2, <1>7 DEF Counted, g

(* So the stripes of a super-stripe end with as many classes of tails as   *)
(* it has tail racks in each group: the levels above join none of them.    *)
LEMMA RootsCounted ==
    ASSUME NEW c \in Configs, NEW l \in 0..MergeRounds(c), NEW pos \in Positions(c)
    PROVE  Cardinality(Image(TailRoots(c), Block(c, l, SuperOf(l, pos)))) = TailRacks(c, l)
<1> DEFINE N == MergeRounds(c)
<1>1. N \in Nat
  BY Levels, DimensionsAssumption
<1>2. PICK f : /\ f[0] = [p \in Positions(c) |-> p]
               /\ \A m \in 1..N : f[m] = JoinTails(c, m, f[m - 1])
               /\ TailRoots(c) = f[N]
  BY RootsByLevel
<1> DEFINE S == {m \in 0..N : Counted(c, m, f[m])}
<1>3. 0 \in S
  BY <1>1, <1>2, CountedFirst
<1>4. ASSUME NEW m \in 1..N, m - 1 \in S PROVE m \in S
  BY <1>1, <1>2, <1>4, CountedStep
<1> HIDE DEF S
<1>5. 0..N \subseteq S
  BY <1>1, <1>3, <1>4, UpTo
<1>6. Counted(c, N, TailRoots(c))
  BY <1>1, <1>2, <1>5 DEF S
<1> QED BY <1>6 DEF Counted

-----------------------------------------------------------------------------
(***************************************************************************)
(* The columns the stripes of a super-stripe take.                         *)
(***************************************************************************)
Groups(c)    == 0..(c.z - 1)
FullRacks(c) == 0..(RacksPerGroup(c) - 2)

TailColumnsOf(c, P) == {TailCol(c, p, g) : p \in P, g \in Groups(c)}
FullColumnsOf(c, P) == {FullCol(c, p, g, t) : p \in P, g \in Groups(c), t \in FullRacks(c)}
ColumnsOf(c, P)     == {DataSlot(c, p, i).col : p \in P, i \in 0..(c.k - 1)}

(* There are z groups, with one rack fewer than RacksPerGroup to fill. *)
LEMMA GroupsCounted ==
    ASSUME NEW c \in Configs
    PROVE  /\ c.z \in Nat \ {0} /\ IsFiniteSet(Groups(c)) /\ Cardinality(Groups(c)) = c.z
           /\ RacksPerGroup(c) \in Nat \ {0} /\ IsFiniteSet(FullRacks(c))
           /\ Cardinality(FullRacks(c)) = RacksPerGroup(c) - 1
<1> DEFINE z == c.z
           q == RacksPerGroup(c)
<1>1. z \in Nat \ {0} /\ q \in Nat \ {0}
  BY Sizes, TailShare
<1> HIDE DEF z, q
<1>2. IsFiniteSet(0..(z - 1)) /\ Cardinality(0..(z - 1)) = z
  <2>1. z - 1 \in Int /\ 0 <= z - 1 /\ (z - 1) - 0 + 1 = z
    BY <1>1
  <2> QED BY <2>1, FS_Interval
<1>3. IsFiniteSet(0..(q - 2)) /\ Cardinality(0..(q - 2)) = q - 1
  <2>1. CASE q = 1
    <3>1. 0..(q - 2) = {} /\ q - 1 = 0
      BY <2>1
    <3> QED BY <3>1, FS_EmptySet
  <2>2. CASE q # 1
    <3>1. q - 2 \in Int /\ 0 <= q - 2 /\ (q - 2) - 0 + 1 = q - 1
      BY <1>1, <2>2
    <3> QED BY <3>1, FS_Interval
  <2> QED BY <2>1, <2>2
<1> QED BY <1>1, <1>2, <1>3 DEF z, q, Groups, FullRacks

(* Every rack of every group has a block. *)
LEMMA RackHasBlock ==
    ASSUME NEW c \in Configs, NEW g \in Groups(c), NEW t \in 0..(RacksPerGroup(c) - 1)
    PROVE  \E i \in 0..(c.k - 1) : GroupOf(c, i) = g /\ RackOf(c, i) = t
<1> DEFINE d == DataPerGroup(c)
           R == RackCapacity(c)
           q == RacksPerGroup(c)
           z == c.z
           tail == TailLoad(c)
           i == d * g + R * t
<1>1. /\ d \in Nat \ {0} /\ R \in Nat \ {0} /\ q \in Nat \ {0} /\ z \in Nat \ {0}
      /\ tail \in 1..R /\ d = (q - 1) * R + tail /\ c.k = z * d
  BY Sizes, TailShare
<1>2. g \in 0..(z - 1) /\ t \in 0..(q - 1)
  BY DEF Groups
<1>3. /\ GroupOf(c, i) = i \div d
      /\ RackOf(c, i) = (i % d) \div R
  BY DEF GroupOf, RackOf
<1> HIDE DEF d, R, q, z, tail, i
<1>4. R * t \in 0..(d - 1)
  <2>1. R * t <= R * (q - 1)
    BY <1>1, <1>2
  <2>2. R * (q - 1) = (q - 1) * R /\ R * t \in Nat /\ R * (q - 1) \in Nat
    BY <1>1, <1>2
  <2> QED BY <1>1, <2>1, <2>2
<1>5. i \in Nat /\ i = d * g + R * t
  BY <1>1, <1>2, <1>4 DEF i
<1>6. i \div d = g /\ i % d = R * t
  <2>1. g \in Nat
    BY <1>1, <1>2
  <2>2. \A n \in Nat : \A s \in 0..(d - 1) : n = d * g + s => n \div d = g /\ n % d = s
    BY <1>1, <2>1, DivUnique
  <2> QED BY <1>4, <1>5, <2>2
<1>7. (R * t) \div R = t
  <2> DEFINE x == R * t
  <2>1. x \in Nat /\ x = R * t + 0 /\ t \in Nat /\ 0 \in 0..(R - 1)
    BY <1>1, <1>2
  <2> HIDE DEF x
  <2>2. x \div R = t
    BY <1>1, <2>1, DivUnique
  <2> QED BY <2>2 DEF x
<1>8. i <= z * d - 1
  <2>1. d * g + d <= d * z
    BY <1>1, <1>2, LessMul
  <2>2. d * z = z * d /\ d * g \in Nat /\ z * d \in Nat
    BY <1>1, <1>2
  <2> QED BY <1>1, <1>4, <1>5, <2>1, <2>2
<1>9. i \in 0..(c.k - 1)
  <2> DEFINE n == z * d
  <2>1. n \in Nat /\ i <= n - 1 /\ c.k = n
    BY <1>1, <1>8
  <2> HIDE DEF n
  <2> QED BY <1>5, <2>1
<1> QED BY <1>3, <1>6, <1>7, <1>9

(* A stripe takes a tail column and the full columns of every group. *)
LEMMA ColumnsTaken ==
    ASSUME NEW c \in Configs, NEW P \in SUBSET Positions(c)
    PROVE  ColumnsOf(c, P) = TailColumnsOf(c, P) \cup FullColumnsOf(c, P)
<1> DEFINE q == RacksPerGroup(c)
<1>1. q \in Nat \ {0}
  BY TailShare
<1>2. ASSUME NEW p \in P, NEW i \in 0..(c.k - 1)
      PROVE  DataSlot(c, p, i).col \in TailColumnsOf(c, P) \cup FullColumnsOf(c, P)
  <2>1. GroupOf(c, i) \in Groups(c) /\ RackOf(c, i) \in 0..(q - 1)
    BY BlockNumbers DEF Groups
  <2>2. CASE RackOf(c, i) = q - 1
    <3>1. DataSlot(c, p, i).col = TailCol(c, p, GroupOf(c, i))
      BY <2>2, SlotFields
    <3> QED BY <2>1, <3>1 DEF TailColumnsOf
  <2>3. CASE RackOf(c, i) # q - 1
    <3>1. DataSlot(c, p, i).col = FullCol(c, p, GroupOf(c, i), RackOf(c, i))
      BY <2>3, SlotFields
    <3>2. RackOf(c, i) \in FullRacks(c)
      BY <1>1, <2>1, <2>3 DEF FullRacks
    <3> QED BY <2>1, <3>1, <3>2 DEF FullColumnsOf
  <2> QED BY <2>2, <2>3
<1>3. ASSUME NEW p \in P, NEW g \in Groups(c)
      PROVE  TailCol(c, p, g) \in ColumnsOf(c, P)
  <2>1. q - 1 \in 0..(q - 1)
    BY <1>1
  <2>2. PICK i \in 0..(c.k - 1) : GroupOf(c, i) = g /\ RackOf(c, i) = q - 1
    BY <2>1, RackHasBlock
  <2>3. DataSlot(c, p, i).col = TailCol(c, p, g)
    BY <2>2, SlotFields
  <2> QED BY <2>3 DEF ColumnsOf
<1>4. ASSUME NEW p \in P, NEW g \in Groups(c), NEW t \in FullRacks(c)
      PROVE  FullCol(c, p, g, t) \in ColumnsOf(c, P)
  <2>1. t \in 0..(q - 1) /\ t # q - 1
    BY <1>1 DEF FullRacks
  <2>2. PICK i \in 0..(c.k - 1) : GroupOf(c, i) = g /\ RackOf(c, i) = t
    BY <2>1, RackHasBlock
  <2>3. DataSlot(c, p, i).col = FullCol(c, p, g, t)
    BY <2>1, <2>2, SlotFields
  <2> QED BY <2>3 DEF ColumnsOf
<1>5. \A y \in ColumnsOf(c, P) : y \in TailColumnsOf(c, P) \cup FullColumnsOf(c, P)
  <2> SUFFICES ASSUME NEW y \in ColumnsOf(c, P)
               PROVE  y \in TailColumnsOf(c, P) \cup FullColumnsOf(c, P)
    OBVIOUS
  <2>1. PICK p \in P, i \in 0..(c.k - 1) : y = DataSlot(c, p, i).col
    BY DEF ColumnsOf
  <2> QED BY <1>2, <2>1
<1>6. \A y \in TailColumnsOf(c, P) : y \in ColumnsOf(c, P)
  <2> SUFFICES ASSUME NEW y \in TailColumnsOf(c, P) PROVE y \in ColumnsOf(c, P)
    OBVIOUS
  <2>1. PICK p \in P, g \in Groups(c) : y = TailCol(c, p, g)
    BY DEF TailColumnsOf
  <2> QED BY <1>3, <2>1
<1>7. \A y \in FullColumnsOf(c, P) : y \in ColumnsOf(c, P)
  <2> SUFFICES ASSUME NEW y \in FullColumnsOf(c, P) PROVE y \in ColumnsOf(c, P)
    OBVIOUS
  <2>1. PICK p \in P, g \in Groups(c), t \in FullRacks(c) : y = FullCol(c, p, g, t)
    BY DEF FullColumnsOf
  <2> QED BY <1>4, <2>1
<1> QED BY <1>5, <1>6, <1>7

(* One tail column for each class and group. *)
LEMMA TailColumnsCounted ==
    ASSUME NEW c \in Configs, NEW P \in SUBSET Positions(c), IsFiniteSet(P)
    PROVE  /\ IsFiniteSet(TailColumnsOf(c, P))
           /\ Cardinality(TailColumnsOf(c, P)) = Cardinality(Image(TailRoots(c), P)) * c.z
<1> DEFINE roots == TailRoots(c)
           G == Groups(c)
           S == Image(roots, P) \X G
           h == [x \in S |-> 2 + Cardinality({q \in RootSet(c) : q < x[1]}) * c.z + x[2]]
<1>1. \A p \in P : \A g \in G : <<roots[p], g>> \in S /\ h[<<roots[p], g>>] = TailCol(c, p, g)
  BY DEF TailCol, Image
<1>2. \A x \in S : \E p \in P : \E g \in G : x = <<roots[p], g>>
  BY DEF Image
<1>3. \A p, q \in P : \A g, i \in G :
         TailCol(c, p, g) = TailCol(c, q, i) => g = i /\ roots[p] = roots[q]
  BY TailColumns DEF Groups
<1>4. c.z \in Nat \ {0} /\ IsFiniteSet(G) /\ Cardinality(G) = c.z
  BY GroupsCounted
<1>5. IsFiniteSet(Image(roots, P))
  BY SameCount
<1>6. IsFiniteSet(S) /\ Cardinality(S) = Cardinality(Image(roots, P)) * c.z
  BY <1>4, <1>5, FS_Product
<1>7. h \in [S -> {h[x] : x \in S}]
  OBVIOUS
<1> HIDE DEF h, S, G, roots
<1>8. TailColumnsOf(c, P) = {h[x] : x \in S}
  <2>1. ASSUME NEW y \in TailColumnsOf(c, P) PROVE y \in {h[x] : x \in S}
    <3>1. PICK p \in P, g \in G : y = TailCol(c, p, g)
      BY DEF TailColumnsOf, G
    <3>2. <<roots[p], g>> \in S /\ h[<<roots[p], g>>] = y
      BY <1>1, <3>1
    <3> QED BY <3>2
  <2>2. \A x \in S : h[x] \in TailColumnsOf(c, P)
    BY <1>1, <1>2 DEF TailColumnsOf, G
  <2> QED BY <2>1, <2>2
<1>9. \A x, y \in S : h[x] = h[y] => x = y
  <2> SUFFICES ASSUME NEW x \in S, NEW y \in S, h[x] = h[y] PROVE x = y
    OBVIOUS
  <2>1. PICK p \in P, g \in G : x = <<roots[p], g>>
    BY <1>2
  <2>2. PICK q \in P, i \in G : y = <<roots[q], i>>
    BY <1>2
  <2>3. TailCol(c, p, g) = TailCol(c, q, i)
    BY <1>1, <2>1, <2>2
  <2> QED BY <1>3, <2>1, <2>2, <2>3
<1>10. Cardinality({h[x] : x \in S}) = Cardinality(S)
  BY <1>6, <1>7, <1>9, ValuesCounted
<1>11. IsFiniteSet({h[x] : x \in S})
  BY <1>6, SameCount DEF Image
<1> QED BY <1>6, <1>8, <1>10, <1>11 DEF roots

(* One full column for each stripe, group and full rack of it. *)
LEMMA FullColumnsCounted ==
    ASSUME NEW c \in Configs, NEW P \in SUBSET Positions(c), IsFiniteSet(P)
    PROVE  /\ IsFiniteSet(FullColumnsOf(c, P))
           /\ Cardinality(FullColumnsOf(c, P))
                = (Cardinality(P) * c.z) * (RacksPerGroup(c) - 1)
<1> DEFINE G == Groups(c)
           T == FullRacks(c)
           S == (P \X G) \X T
           h == [x \in S |-> FullCol(c, x[1][1], x[1][2], x[2])]
<1>1. \A p \in P : \A g \in G : \A t \in T :
         <<<<p, g>>, t>> \in S /\ h[<<<<p, g>>, t>>] = FullCol(c, p, g, t)
  OBVIOUS
<1>2. \A x \in S : \E p \in P : \E g \in G : \E t \in T : x = <<<<p, g>>, t>>
  OBVIOUS
<1>3. \A p, q \in P : \A g, i \in G : \A t, u \in T :
         FullCol(c, p, g, t) = FullCol(c, q, i, u) => p = q /\ g = i /\ t = u
  BY FullColumns DEF Groups, FullRacks
<1>4. c.z \in Nat \ {0} /\ IsFiniteSet(G) /\ Cardinality(G) = c.z
  BY GroupsCounted
<1>5. IsFiniteSet(T) /\ Cardinality(T) = RacksPerGroup(c) - 1
  BY GroupsCounted
<1>6. IsFiniteSet(S) /\ Cardinality(S) = (Cardinality(P) * c.z) * (RacksPerGroup(c) - 1)
  <2> HIDE DEF G, T
  <2>1. IsFiniteSet(P \X G) /\ Cardinality(P \X G) = Cardinality(P) * c.z
    BY <1>4, FS_Product
  <2> QED BY <1>5, <2>1, FS_Product
<1>7. h \in [S -> {h[x] : x \in S}]
  OBVIOUS
<1> HIDE DEF h, S, G, T
<1>8. FullColumnsOf(c, P) = {h[x] : x \in S}
  <2>1. ASSUME NEW y \in FullColumnsOf(c, P) PROVE y \in {h[x] : x \in S}
    <3>1. PICK p \in P, g \in G, t \in T : y = FullCol(c, p, g, t)
      BY DEF FullColumnsOf, G, T
    <3>2. <<<<p, g>>, t>> \in S /\ h[<<<<p, g>>, t>>] = y
      BY <1>1, <3>1
    <3> QED BY <3>2
  <2>2. \A x \in S : h[x] \in FullColumnsOf(c, P)
    BY <1>1, <1>2 DEF FullColumnsOf, G, T
  <2> QED BY <2>1, <2>2
<1>9. \A x, y \in S : h[x] = h[y] => x = y
  <2> SUFFICES ASSUME NEW x \in S, NEW y \in S, h[x] = h[y] PROVE x = y
    OBVIOUS
  <2>1. PICK p \in P, g \in G, t \in T : x = <<<<p, g>>, t>>
    BY <1>2
  <2>2. PICK q \in P, i \in G, u \in T : y = <<<<q, i>>, u>>
    BY <1>2
  <2>3. FullCol(c, p, g, t) = FullCol(c, q, i, u)
    BY <1>1, <2>1, <2>2
  <2> QED BY <1>3, <2>1, <2>2, <2>3
<1>10. Cardinality({h[x] : x \in S}) = Cardinality(S)
  BY <1>6, <1>7, <1>9, ValuesCounted
<1>11. IsFiniteSet({h[x] : x \in S})
  BY <1>6, SameCount DEF Image
<1> QED BY <1>6, <1>8, <1>10, <1>11

(* A super-stripe is an interval of 2^l positions of the batch. *)
LEMMA BlockInterval ==
    ASSUME NEW c \in Configs, NEW l \in 0..MergeRounds(c), NEW pos \in Positions(c)
    PROVE  LET w == 2^l
               s == SuperOf(l, pos)
           IN  /\ w \in Nat \ {0} /\ s \in Nat /\ w * s \in Nat /\ w * s + w <= BatchSize(c)
               /\ Block(c, l, s) = (w * s)..(w * s + w - 1)
               /\ IsFiniteSet(Block(c, l, s)) /\ Cardinality(Block(c, l, s)) = w
<1> DEFINE w == 2^l
           v == 2^(MergeRounds(c) - l)
           s == SuperOf(l, pos)
           B == BatchSize(c)
<1>1. w \in Nat \ {0} /\ v \in Nat \ {0} /\ B = w * v /\ B \in Nat \ {0}
  <2>1. 0 \in 0..l /\ l \in Nat /\ MergeRounds(c) \in Nat
    BY Levels, DimensionsAssumption
  <2>2. MergeRounds(c) \in 0..MergeRounds(c) /\ l \in 0..MergeRounds(c)
    BY <2>1
  <2> QED BY <2>2, PowersOfLevels, Batches
<1>2. Positions(c) = 0..(B - 1) /\ pos \in Nat /\ pos < w * v
  BY <1>1, Batches
<1>3. s = pos \div w /\ Block(c, l, s) = {x \in Positions(c) : x \div w = s}
  BY DEF SuperOf, Block
<1> HIDE DEF w, v, s, B
<1>4. s \in Nat /\ s < v
  BY <1>1, <1>2, <1>3, DivMod, DivBound
<1>5. w * s + w <= B /\ w * s \in Nat
  <2>1. w * s + w <= w * v
    BY <1>1, <1>4, LessMul
  <2> QED BY <1>1, <1>4, <2>1
<1>6. ASSUME NEW x \in Block(c, l, s) PROVE x \in (w * s)..(w * s + w - 1)
  <2>1. x \in Nat /\ x \div w = s
    BY <1>1, <1>2, <1>3
  <2>2. x \in (w * s)..(w * s + (w - 1))
    BY <1>1, <1>4, <2>1, DivInterval
  <2> QED BY <1>1, <1>5, <2>2
<1>7. ASSUME NEW x \in (w * s)..(w * s + w - 1) PROVE x \in Block(c, l, s)
  <2> DEFINE m == w * s
             y == x - m
  <2>1. m \in Nat
    BY <1>5
  <2> HIDE DEF m
  <2>2. x \in m..(m + w - 1)
    BY <1>7 DEF m
  <2>3. x \in Nat /\ y \in 0..(w - 1) /\ x = m + y
    BY <1>1, <2>1, <2>2
  <2> HIDE DEF y
  <2>4. x \div w = s
    BY <1>1, <1>4, <2>3, DivUnique DEF m
  <2>5. x \in Positions(c)
    BY <1>1, <1>2, <1>5, <2>2 DEF m
  <2> QED BY <1>3, <2>4, <2>5
<1>8. Block(c, l, s) = (w * s)..(w * s + w - 1)
  BY <1>6, <1>7
<1>9. /\ IsFiniteSet((w * s)..(w * s + w - 1))
      /\ Cardinality((w * s)..(w * s + w - 1)) = w
  <2> DEFINE m == w * s
  <2>1. m \in Nat
    BY <1>5
  <2> HIDE DEF m
  <2>2. /\ IsFiniteSet(m..(m + w - 1))
        /\ Cardinality(m..(m + w - 1)) = w
    <3>1. m + w - 1 \in Int /\ m <= m + w - 1 /\ (m + w - 1) - m + 1 = w
      BY <1>1, <2>1
    <3> QED BY <2>1, <3>1, FS_Interval
  <2> QED BY <2>2 DEF m
<1> QED BY <1>1, <1>4, <1>5, <1>8, <1>9 DEF w, s, B

(* Data take, of every group, the racks get_ddlrt_lrc_racks counts. *)
LEMMA ColumnsCounted ==
    ASSUME NEW c \in Configs, NEW l \in 0..MergeRounds(c), NEW pos \in Positions(c)
    PROVE  LET cols == ColumnsOf(c, Block(c, l, SuperOf(l, pos)))
           IN  IsFiniteSet(cols) /\ Cardinality(cols) + 1 = Racks(c, l)
<1> DEFINE P == Block(c, l, SuperOf(l, pos))
           T == TailColumnsOf(c, P)
           F == FullColumnsOf(c, P)
           w == 2^l
           z == c.z
           q == RacksPerGroup(c) - 1
           t == TailRacks(c, l)
           m == Cardinality(RootSet(c)) * z
<1>1. /\ w \in Nat /\ P \in SUBSET Positions(c) /\ IsFiniteSet(P)
      /\ Cardinality(P) = w
  <2>1. P \in SUBSET Positions(c)
    BY DEF Block
  <2> QED BY <2>1, BlockInterval
<1>2. z \in Nat /\ q \in Nat
  <2>1. RacksPerGroup(c) \in Nat \ {0}
    BY TailShare
  <2> QED BY <2>1, Sizes
<1>3. Cardinality(Image(TailRoots(c), P)) = t
  BY RootsCounted
<1> HIDE DEF P
<1>4. IsFiniteSet(T) /\ Cardinality(T) = t * z
  BY <1>1, <1>3, TailColumnsCounted
<1>5. IsFiniteSet(F) /\ Cardinality(F) = (w * z) * q
  BY <1>1, FullColumnsCounted
<1>6. T \cap F = {}
  <2>1. m \in Nat
    <3>1. Cardinality(RootSet(c)) \in Nat
      BY RanksOfRoots
    <3> QED BY <1>2, <3>1
  <2>2. ASSUME NEW x \in T PROVE x \in 2..(1 + m)
    <3>1. PICK p \in P, g \in Groups(c) : x = TailCol(c, p, g)
      BY DEF TailColumnsOf
    <3>2. p \in Positions(c) /\ g \in 0..(c.z - 1)
      BY <1>1, <3>1 DEF Groups
    <3> QED BY <3>1, <3>2, TailColumns
  <2>3. ASSUME NEW x \in F PROVE x \in (2 + m)..LogicalRacks(c)
    <3>1. PICK p \in P, g \in Groups(c), i \in FullRacks(c) : x = FullCol(c, p, g, i)
      BY DEF FullColumnsOf
    <3>2. p \in Positions(c) /\ g \in 0..(c.z - 1) /\ i \in 0..(RacksPerGroup(c) - 2)
      BY <1>1, <3>1 DEF Groups, FullRacks
    <3> QED BY <3>1, <3>2, FullColumns
  <2> HIDE DEF m, T, F
  <2>4. ASSUME NEW x \in T, x \in F PROVE FALSE
    <3>1. x \in 2..(1 + m) /\ x >= 2 + m
      BY <2>2, <2>3, <2>4
    <3> QED BY <2>1, <3>1
  <2> QED BY <2>4
<1>7. ColumnsOf(c, P) = T \cup F
  BY <1>1, ColumnsTaken
<1> HIDE DEF T, F, w, z, q, t
<1>8. IsFiniteSet(T \cup F) /\ Cardinality(T \cup F) = Cardinality(T) + Cardinality(F)
  <2>1. Cardinality(T) \in Nat /\ Cardinality(F) \in Nat
    BY <1>4, <1>5, FS_CardinalityType
  <2>2. Cardinality(T \cap F) = 0
    BY <1>6, FS_EmptySet
  <2>3. /\ IsFiniteSet(T \cup F)
        /\ Cardinality(T \cup F) = Cardinality(T) + Cardinality(F) - Cardinality(T \cap F)
    BY <1>4, <1>5, FS_Union
  <2> QED BY <2>1, <2>2, <2>3
<1>9. GroupRacks(c, l) \in Int /\ t = GroupRacks(c, l) - w * q /\ Racks(c, l) = GroupRacks(c, l) * z + 1
  <2>1. t = GroupRacks(c, l) - w * q
    BY DEF TailRacks, t, w, q
  <2>2. Racks(c, l) = GroupRacks(c, l) * z + 1
    BY DEF Racks, GroupRacks, z
  <2>3. GroupRacks(c, l) \in Int
    BY <1>1, Sizes DEF GroupRacks, CeilDiv, w
  <2> QED BY <2>1, <2>2, <2>3
<1> DEFINE G == GroupRacks(c, l)
<1> HIDE DEF G
<1>10. (G - w * q) * z + (w * z) * q = G * z
  <2>1. G \in Int
    BY <1>9 DEF G
  <2>2. (w * z) * q = (w * q) * z
    BY <1>1, <1>2
  <2> DEFINE u == w * q
  <2>3. u \in Nat
    BY <1>1, <1>2
  <2> HIDE DEF u
  <2>4. (G - u) * z + u * z = G * z
    BY <1>2, <2>1, <2>3
  <2> QED BY <2>2, <2>4 DEF u
<1>11. Cardinality(T \cup F) + 1 = Racks(c, l)
  BY <1>4, <1>5, <1>8, <1>9, <1>10 DEF G
<1> QED BY <1>7, <1>8, <1>11 DEF P

-----------------------------------------------------------------------------
(***************************************************************************)
(* The blocks of a stripe are all those of a run of uploads: the merged    *)
(* stripe named sid holds what the uploads from sid on wrote, 2^l of them. *)
(***************************************************************************)
RunOf(c, sid, s) ==
    \E l \in 0..MergeRounds(c) :
        /\ s.k = c.k * 2^l
        /\ DataIds(s) = (sid..(sid + 2^l - 1)) \X (0..(c.k - 1))

RunInv == LiveInv /\ \A sid \in DOMAIN stripes : RunOf(cfg, sid, stripes[sid])

(* The length of the run follows from the size of the stripe. *)
LEMMA RunLength ==
    ASSUME NEW c \in Configs, NEW sid, NEW s, RunOf(c, sid, s),
           NEW m \in 0..MergeRounds(c), s.k = c.k * 2^m
    PROVE  DataIds(s) = (sid..(sid + 2^m - 1)) \X (0..(c.k - 1))
<1>1. PICK l \in 0..MergeRounds(c) :
         /\ s.k = c.k * 2^l
         /\ DataIds(s) = (sid..(sid + 2^l - 1)) \X (0..(c.k - 1))
  BY DEF RunOf
<1> DEFINE x == 2^l
           y == 2^m
           k == c.k
<1>2. x \in Nat /\ y \in Nat /\ k \in Nat \ {0} /\ k * x = k * y
  BY <1>1, PowersOfLevels, Sizes
<1> HIDE DEF x, y, k
<1>3. x = y
  <2>1. k * (x - y) = 0 => x - y = 0
    BY <1>2
  <2>2. k * (x - y) = 0
    BY <1>2
  <2> QED BY <1>2, <2>1, <2>2
<1> QED BY <1>1, <1>3 DEF x, y

(* An upload writes a run of one. *)
LEMMA NewStripeRun ==
    ASSUME cfg \in Configs, nextId \in Nat
    PROVE  RunOf(cfg, nextId, NewStripe(nextId))
<1> DEFINE s == NewStripe(nextId)
           k == cfg.k
<1>1. k \in Nat \ {0} /\ 0 \in 0..MergeRounds(cfg) /\ 2^0 = 1
  BY Sizes, Levels, DimensionsAssumption
<1>2. s.k = k /\ \A n \in 1..k : s.data[n].id = <<nextId, n - 1>>
  BY DEF NewStripe, PlacedBlock
<1> HIDE DEF s, k
<1>3. s.k = k * 1
  BY <1>1, <1>2
<1>4. ASSUME NEW x \in DataIds(s) PROVE x \in {nextId} \X (0..(k - 1))
  <2>1. PICK n \in 1..k : x = <<nextId, n - 1>>
    BY <1>2 DEF DataIds
  <2>2. n - 1 \in 0..(k - 1)
    BY <1>1
  <2> QED BY <2>1, <2>2
<1>5. ASSUME NEW x \in {nextId} \X (0..(k - 1)) PROVE x \in DataIds(s)
  <2>1. PICK i \in 0..(k - 1) : x = <<nextId, i>>
    OBVIOUS
  <2>2. i + 1 \in 1..k /\ (i + 1) - 1 = i
    BY <1>1
  <2>3. s.data[i + 1].id = x
    BY <1>2, <2>1, <2>2
  <2> QED BY <1>2, <2>2, <2>3 DEF DataIds
<1>6. {nextId} = nextId..(nextId + 1 - 1)
  OBVIOUS
<1>7. DataIds(s) = (nextId..(nextId + 1 - 1)) \X (0..(k - 1))
  BY <1>4, <1>5, <1>6
<1>8. s.k = k * 2^0 /\ DataIds(s) = (nextId..(nextId + 2^0 - 1)) \X (0..(k - 1))
  BY <1>1, <1>3, <1>7
<1> QED BY <1>1, <1>8 DEF RunOf, s, k

(* A merge joins two runs, the right one right after the left. *)
LEMMA MergedRun ==
    ASSUME cfg \in Configs, nextId \in Nat,
           NEW sa \in Nat, NEW a, StripeOf(cfg, nextId, sa, a), RunOf(cfg, sa, a),
           NEW sb \in Nat, NEW b, StripeOf(cfg, nextId, sb, b), RunOf(cfg, sb, b),
           sa # sb => Apart(a, b),
           NEW round, RequestValid(a, b, round)
    PROVE  RunOf(cfg, sa, MergedStripe(a, b, Locations(a, b)))
<1> DEFINE s == MergedStripe(a, b, Locations(a, b))
           D == Combined(a, b)
           k == a.k
           w == 2^(round - 1)
           B == BatchSize(cfg)
           K == 0..(cfg.k - 1)
           N == MergeRounds(cfg)
<1>1. /\ round \in 1..N /\ b.k = k /\ k = cfg.k * w /\ a.batch = b.batch /\ a.pos + w = b.pos
  BY DEF RequestValid
<1>2. N \in Nat /\ round - 1 \in 0..N /\ round \in 0..N
  <2>1. N \in Nat
    BY Levels, DimensionsAssumption
  <2> HIDE DEF N
  <2> QED BY <1>1, <2>1
<1>3. w \in Nat \ {0} /\ 2^round = w * 2
  <2>1. round - 1 \in 0..round /\ round # 0
    BY <1>1, <1>2
  <2> QED BY <1>2, <2>1, PowersOfLevels
<1>4. DataIds(a) = (sa..(sa + w - 1)) \X K /\ DataIds(b) = (sb..(sb + w - 1)) \X K
  BY <1>1, <1>2, RunLength
<1>5. sb = sa + w
  <2>1. /\ a.batch = sa \div B /\ a.pos = sa % B /\ b.batch = sb \div B /\ b.pos = sb % B
    BY DEF StripeOf
  <2>2. B \in Nat \ {0}
    BY Batches
  <2> HIDE DEF B, w
  <2>3. /\ sa = B * (sa \div B) + (sa % B) /\ sb = B * (sb \div B) + (sb % B)
        /\ sa % B \in Nat /\ sb % B \in Nat /\ sa \div B \in Nat
    <3>1. ASSUME NEW n \in Nat
          PROVE  n = B * (n \div B) + (n % B) /\ n % B \in Nat /\ n \div B \in Nat
      <4>1. /\ n \div B \in Nat /\ n % B \in 0..(B - 1)
            /\ n = (B * (n \div B)) + (n % B)
        BY <2>2, DivMod
      <4> QED BY <4>1
    <3> QED BY <3>1
  <2> DEFINE q == sa \div B
             m == B * q
  <2>4. m \in Nat
    BY <2>2, <2>3
  <2>5. sa = m + (sa % B) /\ sb = m + (sb % B) /\ (sa % B) + w = sb % B
    BY <1>1, <2>1, <2>3
  <2> DEFINE x == sa % B
             y == sb % B
  <2>6. x \in Nat /\ y \in Nat /\ w \in Nat /\ sa = m + x /\ sb = m + y /\ x + w = y
    BY <1>3, <2>3, <2>5 DEF w
  <2> HIDE DEF m, x, y
  <2> QED BY <2>4, <2>6
<1>6. /\ MergePair(a, b) /\ k \in Nat \ {0}
      /\ \A n \in 1..k : D[n] = a.data[n] /\ D[n + k] = b.data[n]
      /\ s.k = 2 * k /\ s.data = D
  <2>1. MergePair(a, b)
    BY MergeablePair
  <2>2. k \in Nat \ {0}
    BY <2>1 DEF MergePair
  <2>3. \A n \in 1..k : D[n] = a.data[n] /\ D[n + k] = b.data[n]
    BY <2>1, CombinedBlocks
  <2>4. s.k = 2 * k
    BY DEF MergedStripe
  <2>5. s.data = D
    BY <2>1, MergedData
  <2> QED BY <2>1, <2>2, <2>3, <2>4, <2>5
<1> HIDE DEF s, D, w, K, N, B
<1>7. s.k = cfg.k * 2^round
  <2> DEFINE x == cfg.k
  <2>1. x \in Nat /\ k = x * w
    BY <1>1, Sizes
  <2> HIDE DEF x
  <2>2. 2 * (x * w) = x * (w * 2)
    BY <1>3, <2>1
  <2> QED BY <1>3, <1>6, <2>1, <2>2 DEF x
<1> HIDE DEF k
<1>8. ASSUME NEW x \in DataIds(s) PROVE x \in DataIds(a) \cup DataIds(b)
  <2>1. PICK n \in 1..(2 * k) : x = D[n].id
    BY <1>6 DEF DataIds
  <2>2. n \in 1..k \/ (n - k \in 1..k /\ (n - k) + k = n)
    BY <1>6
  <2>3. CASE n \in 1..k
    <3>1. x = a.data[n].id
      BY <1>6, <2>1, <2>3
    <3> QED BY <2>3, <3>1 DEF DataIds, k
  <2>4. CASE n - k \in 1..k /\ (n - k) + k = n
    <3>1. x = b.data[n - k].id
      BY <1>6, <2>1, <2>4
    <3> QED BY <1>1, <2>4, <3>1 DEF DataIds
  <2> QED BY <2>2, <2>3, <2>4
<1>9. ASSUME NEW x \in DataIds(a) \cup DataIds(b) PROVE x \in DataIds(s)
  <2>1. CASE x \in DataIds(a)
    <3>1. PICK n \in 1..k : x = a.data[n].id
      BY <2>1 DEF DataIds, k
    <3>2. n \in 1..(2 * k) /\ x = s.data[n].id
      BY <1>6, <3>1
    <3> QED BY <1>6, <3>2 DEF DataIds
  <2>2. CASE x \in DataIds(b)
    <3>1. PICK n \in 1..k : x = b.data[n].id
      BY <1>1, <2>2 DEF DataIds
    <3>2. n + k \in 1..(2 * k) /\ x = s.data[n + k].id
      BY <1>6, <3>1
    <3> QED BY <1>6, <3>2 DEF DataIds
  <2> QED BY <2>1, <2>2
<1>10. \A y : y \in sa..(sa + w * 2 - 1) <=> y \in sa..(sa + w - 1) \/ y \in sb..(sb + w - 1)
  BY <1>3, <1>5
<1>11. DataIds(s) = (sa..(sa + w * 2 - 1)) \X K
  <2> DEFINE X == sa..(sa + w - 1)
             Y == sb..(sb + w - 1)
             Z == sa..(sa + w * 2 - 1)
  <2>1. Z = X \cup Y
    BY <1>10
  <2>2. DataIds(s) = (X \X K) \cup (Y \X K)
    BY <1>4, <1>8, <1>9
  <2> HIDE DEF X, Y, Z
  <2>3. DataIds(s) = Z \X K
    BY <2>1, <2>2
  <2> QED BY <2>3 DEF Z
<1> QED BY <1>2, <1>3, <1>7, <1>11 DEF RunOf, s, K, N

(* The invariant with the runs holds in every state. *)
THEOREM RunInvariance == Spec => []RunInv
<1> DEFINE Runs == \A sid \in DOMAIN stripes : RunOf(cfg, sid, stripes[sid])
<1>1. Init => Runs
  BY DEF Init
<1>2. Runs /\ LiveInv /\ [Next]_vars => Runs'
  <2> SUFFICES ASSUME Runs, LiveInv, [Next]_vars PROVE Runs'
    OBVIOUS
  <2> SUFFICES ASSUME NEW sid \in DOMAIN stripes' PROVE RunOf(cfg', sid, stripes'[sid])
    OBVIOUS
  <2>1. cfg' = cfg /\ cfg \in Configs /\ nextId \in Nat
    <3>1. cfg' = cfg
      BY DEF Next, SetStripe, SetRefused, SetUnavailable, DeleteStripe, Merge, MergeStripes, vars
    <3> QED BY <3>1 DEF LiveInv
  <2> SUFFICES RunOf(cfg, sid, stripes'[sid])
    BY <2>1
  <2>2. CASE SetStripe
    <3>1. /\ DOMAIN stripes' = DOMAIN stripes \cup {nextId}
          /\ stripes'[sid] = IF sid = nextId THEN NewStripe(sid) ELSE stripes[sid]
      BY <2>2 DEF SetStripe
    <3>2. CASE sid = nextId
      BY <2>1, <3>1, <3>2, NewStripeRun
    <3>3. CASE sid # nextId
      BY <3>1, <3>3
    <3> QED BY <3>2, <3>3
  <2>3. CASE SetRefused \/ SetUnavailable \/ UNCHANGED vars
    <3>1. stripes' = stripes
      BY <2>3 DEF SetRefused, SetUnavailable, vars
    <3> QED BY <3>1
  <2>4. ASSUME NEW gone \in DOMAIN stripes, DeleteStripe(gone)
        PROVE  RunOf(cfg, sid, stripes'[sid])
    <3>1. sid \in DOMAIN stripes /\ stripes'[sid] = stripes[sid]
      BY <2>4 DEF DeleteStripe
    <3> QED BY <3>1
  <2>5. ASSUME NEW sa \in DOMAIN stripes, NEW sb \in DOMAIN stripes, NEW round,
               MergeStripes(sa, sb, round)
        PROVE  RunOf(cfg, sid, stripes'[sid])
    <3> DEFINE a == stripes[sa]
               b == stripes[sb]
               merged == MergedStripe(a, b, Locations(a, b))
    <3>1. /\ RequestValid(a, b, round) /\ sid \in DOMAIN stripes
          /\ stripes'[sid] = IF sid = sa THEN MergedStripe(a, b, MovePlan(a, b).loc)
                                         ELSE stripes[sid]
      BY <2>5 DEF MergeStripes
    <3>2. /\ sa \in Nat /\ sb \in Nat
          /\ StripeOf(cfg, nextId, sa, a) /\ StripeOf(cfg, nextId, sb, b)
          /\ (sa # sb => Apart(a, b))
          /\ RunOf(cfg, sa, a) /\ RunOf(cfg, sb, b)
      BY DEF LiveInv
    <3> HIDE DEF a, b
    <3>3. MovePlan(a, b).loc = Locations(a, b)
      <4>1. MergePair(a, b)
        BY <2>1, <3>1, <3>2, MergeablePair, Zenon
      <4> QED BY <2>1, <4>1, PlanKeeps
    <3>4. RunOf(cfg, sa, merged)
      BY <2>1, <3>1, <3>2, MergedRun
    <3> HIDE DEF merged
    <3>5. stripes'[sid] = IF sid = sa THEN merged ELSE stripes[sid]
      BY <3>1, <3>3 DEF merged
    <3>6. CASE sid = sa
      BY <3>4, <3>5, <3>6
    <3>7. CASE sid # sa
      BY <3>1, <3>5, <3>7
    <3> QED BY <3>6, <3>7
  <2> QED BY <2>2, <2>3, <2>4, <2>5 DEF Next, Merge
<1> HIDE DEF Runs
<1>3. LiveInv /\ Runs => RunInv
  BY DEF RunInv, Runs
<1> QED BY <1>1, <1>2, <1>3, Invariance, PTL DEF Spec

(* The stripes of an aligned run have the positions of one super-stripe. *)
LEMMA AlignedRun ==
    ASSUME NEW c \in Configs, NEW m \in 0..MergeRounds(c), NEW sid \in Nat,
           (sid % BatchSize(c)) % 2^m = 0
    PROVE  LET pos == sid % BatchSize(c)
               P   == Block(c, m, SuperOf(m, pos))
           IN  /\ pos \in Positions(c)
               /\ \A x \in sid..(sid + 2^m - 1) : x % BatchSize(c) \in P
               /\ \A p \in P : /\ sid + (p - pos) \in sid..(sid + 2^m - 1)
                               /\ (sid + (p - pos)) % BatchSize(c) = p
<1> DEFINE B == BatchSize(c)
           w == 2^m
           pos == sid % B
           q == SuperOf(m, pos)
           P == Block(c, m, q)
           u == sid \div B
<1>1. B \in Nat \ {0} /\ Positions(c) = 0..(B - 1)
  BY Batches
<1>2. pos \in Positions(c) /\ pos \in Nat /\ u \in Nat /\ sid = B * u + pos
  <2> HIDE DEF B
  <2>1. u \in Nat /\ sid % B \in 0..(B - 1) /\ sid = (B * u) + (sid % B)
    BY <1>1, DivMod
  <2> QED BY <1>1, <2>1
<1>3. /\ w \in Nat \ {0} /\ q \in Nat /\ w * q \in Nat /\ w * q + w <= B
      /\ P = (w * q)..(w * q + w - 1)
  BY <1>2, BlockInterval
<1>4. pos = w * q
  <2>1. pos % w = 0 /\ q = pos \div w
    BY DEF SuperOf
  <2> HIDE DEF pos, w, q
  <2>2. pos = (w * (pos \div w)) + (pos % w)
    BY <1>2, <1>3, DivMod
  <2> QED BY <1>2, <1>3, <2>1, <2>2
<1> HIDE DEF B, w, pos, q, P, u
<1>5. pos + w <= B /\ P = pos..(pos + w - 1)
  BY <1>3, <1>4
<1>6. ASSUME NEW x \in sid..(sid + w - 1) PROVE x % B = pos + (x - sid)
  <2> DEFINE y == pos + (x - sid)
             v == B * u
  <2>1. v \in Nat
    BY <1>1, <1>2
  <2>2. sid = v + pos
    BY <1>2
  <2> HIDE DEF v
  <2>3. x \in Nat /\ y \in 0..(B - 1) /\ x = v + y
    BY <1>1, <1>2, <1>3, <1>5, <2>1, <2>2
  <2> HIDE DEF y
  <2>4. x % B = y
    BY <1>1, <1>2, <2>3, DivUnique DEF v
  <2> QED BY <2>4 DEF y
<1>7. ASSUME NEW x \in sid..(sid + w - 1) PROVE x % B \in P
  <2>1. pos + (x - sid) \in pos..(pos + w - 1)
    BY <1>2, <1>3
  <2> QED BY <1>5, <1>6, <2>1
<1>8. ASSUME NEW p \in P
      PROVE  sid + (p - pos) \in sid..(sid + w - 1) /\ (sid + (p - pos)) % B = p
  <2> DEFINE x == sid + (p - pos)
  <2>1. x \in sid..(sid + w - 1) /\ pos + (x - sid) = p
    <3>1. p \in pos..(pos + w - 1)
      BY <1>5
    <3>2. pos \in Nat /\ sid \in Nat /\ w \in Nat \ {0}
      BY <1>2, <1>3
    <3> QED BY <3>1, <3>2
  <2> HIDE DEF x
  <2>2. x % B = p
    BY <1>6, <2>1
  <2> QED BY <2>1, <2>2 DEF x
<1> QED BY <1>2, <1>7, <1>8 DEF B, w, pos, q, P

(* So an aligned stripe takes the columns of one super-stripe. *)
LEMMA AlignedColumns ==
    ASSUME NEW c \in Configs, NEW uploads, NEW sid \in Nat, NEW s,
           StripeOf(c, uploads, sid, s), RunOf(c, sid, s),
           NEW m \in 0..MergeRounds(c), s.k = c.k * 2^m, s.pos % 2^m = 0
    PROVE  /\ s.pos \in Positions(c)
           /\ {s.data[n].col : n \in 1..s.k} = ColumnsOf(c, Block(c, m, SuperOf(m, s.pos)))
<1> DEFINE B == BatchSize(c)
           w == 2^m
           pos == sid % B
           P == Block(c, m, SuperOf(m, pos))
           K == 0..(c.k - 1)
           cols == {s.data[n].col : n \in 1..s.k}
<1>1. s.pos = pos
  BY DEF StripeOf
<1>2. /\ pos \in Positions(c)
      /\ \A x \in sid..(sid + w - 1) : x % B \in P
      /\ \A p \in P : sid + (p - pos) \in sid..(sid + w - 1) /\ (sid + (p - pos)) % B = p
  BY <1>1, AlignedRun
<1>3. DataIds(s) = (sid..(sid + w - 1)) \X K
  BY RunLength
<1>4. \A n \in 1..s.k : s.data[n].col = DataSlot(c, s.data[n].id[1] % B, s.data[n].id[2]).col
  BY DEF StripeOf, PlacedBy
<1> HIDE DEF P, w, pos, B, K
<1>5. ASSUME NEW y \in cols PROVE y \in ColumnsOf(c, P)
  <2>1. PICK n \in 1..s.k : y = s.data[n].col
    OBVIOUS
  <2>2. s.data[n].id \in DataIds(s)
    BY DEF DataIds
  <2>3. PICK x \in sid..(sid + w - 1), i \in K : s.data[n].id = <<x, i>>
    BY <1>3, <2>2
  <2>4. y = DataSlot(c, x % B, i).col /\ x % B \in P
    BY <1>2, <1>4, <2>1, <2>3
  <2> QED BY <2>4 DEF ColumnsOf, K
<1>6. ASSUME NEW y \in ColumnsOf(c, P) PROVE y \in cols
  <2>1. PICK p \in P, i \in K : y = DataSlot(c, p, i).col
    BY DEF ColumnsOf, K
  <2> DEFINE x == sid + (p - pos)
  <2>2. x \in sid..(sid + w - 1) /\ x % B = p
    BY <1>2
  <2> HIDE DEF x
  <2>3. <<x, i>> \in DataIds(s)
    BY <1>3, <2>2
  <2>4. PICK n \in 1..s.k : s.data[n].id = <<x, i>>
    BY <2>3 DEF DataIds
  <2>5. s.data[n].col = y
    BY <1>4, <2>1, <2>2, <2>4
  <2> QED BY <2>5
<1>7. cols = ColumnsOf(c, P)
  <2> HIDE DEF cols
  <2> QED BY <1>5, <1>6
<1> QED BY <1>1, <1>2, <1>7 DEF P, pos

(* A stripe merged from an aligned run of 2^l stripes occupies exactly the *)
(* racks get_ddlrt_lrc_racks(l) counts, whatever the configuration, the    *)
(* tables and the order of uploads, merges and deletions that made it.     *)
THEOREM RacksAlwaysMinimal == Spec => []RacksMinimal
<1>1. RunInv => RacksMinimal
  <2> SUFFICES ASSUME RunInv, NEW sid \in Live,
                      stripes[sid].pos % 2^Level(stripes[sid]) = 0
               PROVE  LET s == stripes[sid]
                      IN  Cardinality(DataClusters(s) \cup {ParityCluster(s)})
                            = Racks(cfg, Level(s))
    BY DEF RacksMinimal
  <2> DEFINE s == stripes[sid]
             m == Level(s)
             cols == {s.data[n].col : n \in 1..s.k}
             all == cols \cup {ParityCol}
             f == [x \in all |-> Cluster(s.batch, x)]
             T == {f[x] : x \in all}
  <2>1. /\ cfg \in Configs /\ nextId \in Nat /\ sid \in Nat
        /\ StripeOf(cfg, nextId, sid, s) /\ RunOf(cfg, sid, s)
    BY DEF RunInv, LiveInv, Live
  <2> HIDE DEF s
  <2>2. m \in 0..MergeRounds(cfg) /\ s.k = cfg.k * 2^m /\ s.pos % 2^m = 0
    <3>1. \E l \in 0..MergeRounds(cfg) : s.k = cfg.k * 2^l
      BY <2>1 DEF StripeOf
    <3> QED BY <3>1 DEF Level, s
  <2> HIDE DEF m
  <2>3. s.pos \in Positions(cfg) /\ cols = ColumnsOf(cfg, Block(cfg, m, SuperOf(m, s.pos)))
    BY <2>1, <2>2, AlignedColumns
  <2>4. IsFiniteSet(cols) /\ Cardinality(cols) + 1 = Racks(cfg, m)
    BY <2>1, <2>2, <2>3, ColumnsCounted
  <2>5. s.batch \in Nat
    <3> DEFINE B == BatchSize(cfg)
    <3>1. B \in Nat \ {0} /\ s.batch = sid \div B
      BY <2>1, Batches DEF StripeOf
    <3> HIDE DEF B
    <3> QED BY <2>1, <3>1, DivMod
  <2>6. \A n \in 1..s.k : s.data[n].col \in 2..17
    <3> SUFFICES ASSUME NEW n \in 1..s.k PROVE s.data[n].col \in 2..17
      OBVIOUS
    <3> DEFINE d == s.data[n]
    <3>1. d \in BlockType /\ Placed(s.batch, d)
      BY <2>1 DEF StripeOf, Placed
    <3> HIDE DEF d
    <3>2. d.col \in 2..17
      BY <2>1, <2>5, <3>1, PlacedApart
    <3> QED BY <3>2 DEF d
  <2>7. cols \subseteq 2..17 /\ ParityCol \notin cols /\ all \subseteq 1..17
    BY <2>6 DEF ParityCol
  <2>8. s.parity[1].col = ParityCol
    <3>1. cfg.r + cfg.z \in Nat /\ 1 \in 1..(cfg.r + cfg.z)
      BY <2>1, Sizes
    <3> QED BY <2>1, <3>1 DEF StripeOf
  <2>9. T = DataClusters(s) \cup {ParityCluster(s)}
    <3>1. \A n \in 1..s.k : s.data[n].col \in all /\ f[s.data[n].col] = BlockCluster(s, s.data[n])
      BY DEF BlockCluster
    <3>2. f[ParityCol] = ParityCluster(s) /\ ParityCol \in all
      BY <2>8 DEF ParityCluster, BlockCluster
    <3>3. \A x \in all : x = ParityCol \/ \E n \in 1..s.k : x = s.data[n].col
      OBVIOUS
    <3> HIDE DEF f, all
    <3> QED BY <3>1, <3>2, <3>3 DEF DataClusters
  <2>10. \A x, y \in all : f[x] = f[y] => x = y
    <3> SUFFICES ASSUME NEW x \in all, NEW y \in all, f[x] = f[y] PROVE x = y
      OBVIOUS
    <3>1. Cluster(s.batch, x) = Cluster(s.batch, y)
      OBVIOUS
    <3>2. x \in 1..17 /\ y \in 1..17
      BY <2>7
    <3> QED BY <2>5, <3>1, <3>2, PlacesApart
  <2>11. IsFiniteSet(all) /\ Cardinality(all) = Cardinality(cols) + 1
    <3> HIDE DEF cols
    <3> QED BY <2>4, <2>7, FS_AddElement
  <2>12. Cardinality(T) = Cardinality(all)
    <3>1. f \in [all -> T]
      OBVIOUS
    <3> HIDE DEF f, all
    <3> QED BY <2>10, <2>11, <3>1, ValuesCounted
  <2>13. Cardinality(DataClusters(s) \cup {ParityCluster(s)}) = Racks(cfg, m)
    <3> HIDE DEF T, all, cols
    <3> QED BY <2>4, <2>9, <2>11, <2>12
  <2> QED BY <2>13 DEF s, m
<1> QED BY <1>1, RunInvariance, PTL
=============================================================================
