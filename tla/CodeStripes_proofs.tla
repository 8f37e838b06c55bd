------------------------ MODULE CodeStripes_proofs --------------------------
(***************************************************************************)
(* Proofs about CodeStripes, for every number of clusters and nodes and    *)
(* every set of configurations.                                            *)
(***************************************************************************)
EXTENDS CodeStripes, RsStripes_proofs

-----------------------------------------------------------------------------
(***************************************************************************)
(* Division, as the placements use it.                                     *)
(***************************************************************************)

(* Rounding the quotient up: the smallest multiple that is not below n. *)
LEMMA CeilDivBounds ==
    ASSUME NEW n \in Nat, NEW d \in Nat \ {0}
    PROVE  /\ CeilDiv(n, d) \in Nat
           /\ d * CeilDiv(n, d) >= n
           /\ d * CeilDiv(n, d) < n + d
           /\ n > 0 => CeilDiv(n, d) > 0
           /\ n % d # 0 => CeilDiv(n, d) = (n \div d) + 1
<1> DEFINE q == CeilDiv(n, d)
           s == (n + d - 1) % d
<1>0. n + d - 1 \in Nat
  OBVIOUS
<1>1. q \in Nat /\ s \in 0..(d - 1) /\ n + d - 1 = (d * q) + s
  BY <1>0, DivMod, Zenon DEF CeilDiv
<1>2. d * q >= n /\ d * q < n + d
  BY <1>1, SMT
<1>3. ASSUME n > 0 PROVE q > 0
  <2> SUFFICES ASSUME q = 0 PROVE FALSE
    BY <1>1
  <2> QED BY <1>2, <1>3, SMT
<1>4. ASSUME n % d # 0 PROVE q = (n \div d) + 1
  <2>1. n \div d \in Nat /\ n % d \in 1..(d - 1) /\ n = (d * (n \div d)) + (n % d)
    BY <1>4, DivMod
  <2>2. n + d - 1 = d * ((n \div d) + 1) + ((n % d) - 1)
    BY <2>1, SMT
  <2>3. (n \div d) + 1 \in Nat /\ (n % d) - 1 \in 0..(d - 1)
    BY <2>1
  <2> QED BY <1>0, <2>2, <2>3, DivUnique, Zenon DEF CeilDiv
<1> QED BY <1>1, <1>2, <1>3, <1>4

(* Scaling dividend and divisor alike keeps the quotient rounded up. *)
LEMMA CeilDivScale ==
    ASSUME NEW n \in Nat, NEW d \in Nat \ {0}, NEW z \in Nat \ {0}
    PROVE  CeilDiv(z * n, z * d) = CeilDiv(n, d)
<1> DEFINE q == CeilDiv(n, d)
           s == (n + d - 1) % d
<1>0. n + d - 1 \in Nat
  OBVIOUS
<1>1. q \in Nat /\ s \in 0..(d - 1) /\ n + d - 1 = (d * q) + s
  BY <1>0, DivMod, Zenon DEF CeilDiv
<1> HIDE DEF q, s
<1>2. z * (n + d - 1) = z * (d * q) + z * s
  BY <1>1, SMT
<1>3. z * n + z * d - 1 = (z * d) * q + (z * s + (z - 1))
  BY <1>1, <1>2, SMT
<1>4. z * s + (z - 1) \in 0..(z * d - 1)
  <2>1. z * s + z <= z * d
    BY <1>1, LessMul
  <2> QED BY <2>1, <1>1, SMT
<1>5. z * n \in Nat /\ z * d \in Nat \ {0}
  BY SMT
<1>6. z * n + z * d - 1 \in Nat
  BY <1>5, SMT
<1>7. (z * n + z * d - 1) \div (z * d) = q
  BY <1>1, <1>3, <1>4, <1>5, <1>6, DivUnique
<1> QED BY <1>7 DEF CeilDiv, q

(* Racks are handed to groups one by one: with fewer groups than racks no  *)
(* two groups of a stripe share one.                                       *)
LEMMA Rotation ==
    ASSUME NEW n \in Nat \ {0}, NEW s \in Nat, NEW g \in 0..(n - 1), NEW h \in 0..(n - 1),
           ((s % n) + g) % n = ((s % n) + h) % n
    PROVE  g = h
<1>1. s % n \in 0..(n - 1)
  BY DivMod
<1> DEFINE t == s % n
<1> HIDE DEF t
<1>2. t \in 0..(n - 1) /\ (t + g) % n = (t + h) % n
  BY <1>1 DEF t
<1>3. \A x \in 0..(n - 1) : (t + x) % n = IF t + x < n THEN t + x ELSE t + x - n
  <2> TAKE x \in 0..(n - 1)
  <2>1. t + x \in Nat /\ 0 \in Nat /\ 1 \in Nat
    BY <1>2
  <2>2. ASSUME t + x < n PROVE (t + x) % n = t + x
    <3>1. t + x = n * 0 + (t + x) /\ t + x \in 0..(n - 1)
      BY <1>2, <2>2
    <3> QED BY <2>1, <3>1, DivUnique, Zenon
  <2>3. ASSUME t + x >= n PROVE (t + x) % n = t + x - n
    <3>1. t + x = n * 1 + (t + x - n) /\ t + x - n \in 0..(n - 1)
      BY <1>2, <2>3
    <3> QED BY <2>1, <3>1, DivUnique, Zenon
  <2> QED BY <1>2, <2>2, <2>3
<1> QED BY <1>2, <1>3, SMT

-----------------------------------------------------------------------------
(***************************************************************************)
(* The configurations and their blocks.                                    *)
(***************************************************************************)

(* Every LRC has data, globals and local parities. *)
LEMMA Sizes ==
    ASSUME NEW c \in Configs, c.code # "RS"
    PROVE  /\ c.k \in Nat \ {0} /\ c.r \in Nat \ {0} /\ c.z \in Nat \ {0}
           /\ c.code \in Codes
           /\ c.code \in {"AzureLRC", "OptimalLRC"} => c.k % c.z = 0
           /\ ClusterNum \in Nat \ {0} /\ DatanodeNumPerCluster \in Nat \ {0}
BY CodeAssumption DEF EqualGroups

(* A block is one of data, global or local parity, and only one. *)
LEMMA Kinds ==
    ASSUME NEW c \in Configs, c.code # "RS", NEW i \in Blocks(c)
    PROVE  /\ i \in Nat
           /\ i \in Data(c) \/ i \in Globals(c) \/ i \in Locals(c)
           /\ i \in Data(c) => i \notin Globals(c) /\ i \notin Locals(c)
           /\ i \in Globals(c) => i \notin Locals(c)
<1>1. c.k \in Nat /\ c.r \in Nat /\ c.z \in Nat
  BY Sizes
<1> QED BY <1>1 DEF Blocks, Data, Globals, Locals

(* UniLRC: z local groups of q data blocks and p globals, q+p = r. *)
LEMMA UniShape ==
    ASSUME NEW c \in Configs, c.code = "UniLRC", ConfigAccepted(c)
    PROVE  /\ c.k \div c.z \in Nat \ {0} /\ c.r \div c.z \in Nat \ {0}
           /\ c.k = (c.k \div c.z) * c.z /\ c.r = (c.r \div c.z) * c.z
           /\ (c.k \div c.z) + (c.r \div c.z) = c.r
           /\ DatanodeNumPerCluster > c.r + 1 /\ ClusterNum > c.z
<1> DEFINE k == c.k
           r == c.r
           z == c.z
           p == r \div z
           q == k \div z
<1>1. k \in Nat \ {0} /\ r \in Nat \ {0} /\ z \in Nat \ {0}
      /\ ClusterNum \in Nat /\ DatanodeNumPerCluster \in Nat
  BY Sizes
<1>2. /\ r % z = 0 /\ k = r * (z - 1)
      /\ DatanodeNumPerCluster > (k + r + z) \div z /\ ClusterNum > z
  BY DEF ConfigAccepted
<1> HIDE DEF k, r, z
<1>3. p \in Nat /\ r = z * p
  <2>1. p \in Nat /\ r = (z * p) + (r % z)
    BY <1>1, DivMod
  <2> QED BY <1>1, <1>2, <2>1
<1>4. p # 0
  BY <1>1, <1>3
<1> HIDE DEF p
<1>5. k = z * (p * (z - 1)) + 0 /\ p * (z - 1) \in Nat
  BY <1>1, <1>2, <1>3
<1>6. q = p * (z - 1)
  <2>1. 0 \in 0..(z - 1) /\ k \in Nat
    BY <1>1
  <2> QED BY <1>1, <1>5, <2>1, DivUnique, Zenon
<1>7. q # 0 /\ k = q * z
  BY <1>1, <1>5, <1>6
<1>8. q + p = r
  BY <1>1, <1>3, <1>6
<1>9. k + r + z = z * (r + 1) + 0
  BY <1>1, <1>2
<1>10. (k + r + z) \div z = r + 1
  BY <1>1, <1>9, DivUnique
<1> QED BY <1>1, <1>2, <1>3, <1>4, <1>5, <1>6, <1>7, <1>8, <1>10 DEF k, r, z, p

(* UniLRC: which group a block is in, and that there are z of them. *)
LEMMA UniGroups ==
    ASSUME NEW c \in Configs, c.code = "UniLRC", ConfigAccepted(c), NEW i \in Blocks(c)
    PROVE  /\ i \in Data(c) => Group(c, i) = i \div (c.k \div c.z)
           /\ i \in Globals(c) => Group(c, i) = (i - c.k) \div (c.r \div c.z)
           /\ i \in Locals(c) => Group(c, i) = i - c.k - c.r
           /\ Group(c, i) \in 0..(c.z - 1)
<1> DEFINE q == c.k \div c.z
           p == c.r \div c.z
<1>1. /\ c.k \in Nat \ {0} /\ c.r \in Nat \ {0} /\ c.z \in Nat \ {0}
      /\ q \in Nat \ {0} /\ p \in Nat \ {0} /\ c.k = q * c.z /\ c.r = p * c.z
  BY Sizes, UniShape
<1>2. /\ i \in Nat /\ (i \in Data(c) \/ i \in Globals(c) \/ i \in Locals(c))
      /\ i \in Data(c) => i \notin Globals(c) /\ i \notin Locals(c)
      /\ i \in Globals(c) => i \notin Locals(c)
  BY Kinds
<1>3. Group(c, i) = UniGroup(c, i)
  BY DEF Group
<1> HIDE DEF q, p
<1>4. ASSUME i \in Data(c) PROVE i \div q \in 0..(c.z - 1)
  <2>1. i < q * c.z
    BY <1>1, <1>4 DEF Data
  <2>2. i \div q < c.z /\ i \div q \in Nat
    BY <1>1, <1>2, <2>1, DivBound, DivMod, Zenon
  <2> QED BY <1>1, <2>2
<1>5. ASSUME i \in Globals(c) PROVE (i - c.k) \div p \in 0..(c.z - 1)
  <2>1. i - c.k \in Nat /\ i - c.k < p * c.z
    BY <1>1, <1>5 DEF Globals
  <2>2. (i - c.k) \div p < c.z /\ (i - c.k) \div p \in Nat
    BY <1>1, <2>1, DivBound, DivMod, Zenon
  <2> QED BY <1>1, <2>2
<1>6. ASSUME i \in Locals(c) PROVE i - c.k - c.r \in 0..(c.z - 1)
  BY <1>1, <1>6 DEF Locals
<1>7. /\ i \in Data(c) => Group(c, i) = i \div q
      /\ i \in Globals(c) => Group(c, i) = (i - c.k) \div p
      /\ i \in Locals(c) => Group(c, i) = i - c.k - c.r
  BY <1>2, <1>3 DEF UniGroup, q, p
<1> QED BY <1>2, <1>4, <1>5, <1>6, <1>7 DEF q, p

(* UniLRC: a group has at most r data and global blocks and one parity. *)
LEMMA UniLoad ==
    ASSUME NEW c \in Configs, c.code = "UniLRC", ConfigAccepted(c), NEW g \in 0..(c.z - 1)
    PROVE  /\ IsFiniteSet(InGroup(c, g)) /\ Cardinality(InGroup(c, g)) <= c.r + 1
           /\ Cardinality(InGroup(c, g)) \in Nat
           /\ IsFiniteSet(InGroup(c, g) \ Locals(c))
           /\ Cardinality(InGroup(c, g) \ Locals(c)) <= c.r
<1> DEFINE q == c.k \div c.z
           p == c.r \div c.z
           T == {i \in Data(c) : i \in InGroup(c, g)}
           U == {i \in Globals(c) : i \in InGroup(c, g)}
           M == InGroup(c, g) \ Locals(c)
<1>1. /\ c.k \in Nat \ {0} /\ c.r \in Nat \ {0} /\ c.z \in Nat \ {0}
      /\ q \in Nat \ {0} /\ p \in Nat \ {0} /\ q + p = c.r
  BY Sizes, UniShape
<1>2. T \subseteq (q * g)..(q * g + q - 1)
  <2> SUFFICES ASSUME NEW i \in T PROVE i \in (q * g)..(q * g + (q - 1))
    BY <1>1
  <2>1. i \in Nat /\ i \div q = g /\ g \in Nat
    BY UniGroups, Kinds DEF InGroup
  <2> QED BY <1>1, <2>1, DivInterval, Zenon
<1>3. U \subseteq (c.k + p * g)..(c.k + p * g + p - 1)
  <2> SUFFICES ASSUME NEW i \in U PROVE i \in (c.k + p * g)..(c.k + p * g + p - 1)
    OBVIOUS
  <2>1. i \in Nat /\ i - c.k \in Nat /\ (i - c.k) \div p = g /\ g \in Nat
    BY <1>1, UniGroups, Kinds DEF InGroup, Globals
  <2>2. i - c.k \in (p * g)..(p * g + (p - 1))
    BY <1>1, <2>1, DivInterval, Zenon
  <2> QED BY <1>1, <2>1, <2>2
<1>4. M \subseteq T \cup U
  BY Kinds DEF InGroup
<1>5. InGroup(c, g) \subseteq M \cup {c.k + c.r + g}
  <2> SUFFICES ASSUME NEW i \in InGroup(c, g), i \in Locals(c) PROVE i = c.k + c.r + g
    OBVIOUS
  <2>1. i - c.k - c.r = g /\ i \in Nat
    BY UniGroups, Kinds DEF InGroup
  <2> QED BY <1>1, <2>1
<1> HIDE DEF q, p, T, U, M
<1>6. /\ IsFiniteSet(T) /\ Cardinality(T) \in Nat /\ Cardinality(T) <= q
      /\ IsFiniteSet(U) /\ Cardinality(U) \in Nat /\ Cardinality(U) <= p
  <2>1. q * g \in Int /\ c.k + p * g \in Int /\ q \in Nat /\ p \in Nat
    BY <1>1
  <2> QED BY <1>2, <1>3, <2>1, IntervalBound
<1>7. IsFiniteSet(M) /\ Cardinality(M) \in Nat /\ Cardinality(M) <= c.r
  <2>1. IsFiniteSet(M) /\ Cardinality(M) \in Nat
        /\ Cardinality(M) <= Cardinality(T) + Cardinality(U)
    BY <1>4, <1>6, CoverBound
  <2> QED BY <1>1, <1>6, <2>1
<1>8. IsFiniteSet({c.k + c.r + g}) /\ Cardinality({c.k + c.r + g}) = 1
  BY FS_Singleton
<1>9. IsFiniteSet(InGroup(c, g)) /\ Cardinality(InGroup(c, g)) \in Nat
      /\ Cardinality(InGroup(c, g)) <= Cardinality(M) + 1
  BY <1>5, <1>7, <1>8, CoverBound
<1> QED BY <1>1, <1>7, <1>9 DEF M

(* AzureLRC: z local groups of k/z data blocks. *)
LEMMA AzureShape ==
    ASSUME NEW c \in Configs, c.code = "AzureLRC", ConfigAccepted(c)
    PROVE  /\ c.k \div c.z \in Nat \ {0} /\ c.k = (c.k \div c.z) * c.z
           /\ ClusterNum > c.z + 1
<1>1. /\ c.k \in Nat \ {0} /\ c.z \in Nat \ {0} /\ c.k % c.z = 0
      /\ ClusterNum \in Nat
  BY Sizes
<1>2. c.k \div c.z \in Nat /\ c.k = (c.z * (c.k \div c.z)) + (c.k % c.z)
  BY <1>1, DivMod
<1>3. ClusterNum > c.z + 1
  BY DEF ConfigAccepted
<1> DEFINE k == c.k
           z == c.z
           q == k \div z
<1> HIDE DEF k, z, q
<1>4. q \in Nat /\ k = z * q /\ k \in Nat \ {0} /\ z \in Nat \ {0}
  BY <1>1, <1>2 DEF k, z, q
<1>5. q # 0 /\ k = q * z
  BY <1>4
<1> QED BY <1>3, <1>4, <1>5 DEF k, z, q

(* AzureLRC: the groups are the z local ones and one of all globals. *)
LEMMA AzureGroups ==
    ASSUME NEW c \in Configs, c.code = "AzureLRC", ConfigAccepted(c), NEW i \in Blocks(c)
    PROVE  /\ i \in Data(c) => Group(c, i) = i \div (c.k \div c.z) /\ Group(c, i) < c.z
           /\ i \in Globals(c) => Group(c, i) = c.z
           /\ i \in Locals(c) => Group(c, i) = i - c.k - c.r /\ Group(c, i) < c.z
           /\ Group(c, i) \in 0..c.z
<1> DEFINE q == c.k \div c.z
<1>1. /\ c.k \in Nat \ {0} /\ c.r \in Nat \ {0} /\ c.z \in Nat \ {0}
      /\ q \in Nat \ {0} /\ c.k = q * c.z
  BY Sizes, AzureShape
<1>2. /\ i \in Nat /\ (i \in Data(c) \/ i \in Globals(c) \/ i \in Locals(c))
      /\ i \in Data(c) => i \notin Globals(c) /\ i \notin Locals(c)
      /\ i \in Globals(c) => i \notin Locals(c)
  BY Kinds
<1>3. Group(c, i) = AzureGroup(c, i)
  BY DEF Group
<1> HIDE DEF q
<1>4. ASSUME i \in Data(c) PROVE i \div q \in 0..(c.z - 1)
  <2>1. i < q * c.z
    BY <1>1, <1>4 DEF Data
  <2>2. i \div q < c.z /\ i \div q \in Nat
    BY <1>1, <1>2, <2>1, DivBound, DivMod, Zenon
  <2> QED BY <1>1, <2>2
<1>5. ASSUME i \in Locals(c) PROVE i - c.k - c.r \in 0..(c.z - 1)
  BY <1>1, <1>5 DEF Locals
<1>6. /\ i \in Data(c) => Group(c, i) = i \div q
      /\ i \in Globals(c) => Group(c, i) = c.z
      /\ i \in Locals(c) => Group(c, i) = i - c.k - c.r
  BY <1>2, <1>3 DEF AzureGroup, q
<1> QED BY <1>1, <1>2, <1>4, <1>5, <1>6 DEF q

(* AzureLRC: a group has at most k/z data blocks, or the r globals. *)
LEMMA AzureLoad ==
    ASSUME NEW c \in Configs, c.code = "AzureLRC", ConfigAccepted(c), NEW g \in 0..c.z
    PROVE  /\ IsFiniteSet(InGroup(c, g) \ Locals(c))
           /\ Cardinality(InGroup(c, g) \ Locals(c)) \in Nat
           /\ \/ Cardinality(InGroup(c, g) \ Locals(c)) <= c.r
              \/ Cardinality(InGroup(c, g) \ Locals(c)) <= c.k \div c.z
           /\ g < c.z => Cardinality(InGroup(c, g) \ Locals(c)) <= c.k \div c.z
<1> DEFINE q == c.k \div c.z
           M == InGroup(c, g) \ Locals(c)
<1>1. c.k \in Nat /\ c.r \in Nat /\ c.z \in Nat /\ q \in Nat \ {0}
  BY Sizes, AzureShape
<1>2. CASE g = c.z
  <2>1. M \subseteq c.k..(c.k + c.r - 1)
    BY <1>2, AzureGroups, Kinds DEF InGroup, Globals
  <2> HIDE DEF q, M
  <2>2. c.k \in Int /\ c.r \in Nat
    BY <1>1
  <2>3. IsFiniteSet(M) /\ Cardinality(M) \in Nat /\ Cardinality(M) <= c.r
    BY <2>1, <2>2, IntervalBound, Zenon
  <2>4. ~(g < c.z)
    BY <1>1, <1>2
  <2> QED BY <2>3, <2>4, Zenon DEF M
<1>3. CASE g # c.z
  <2>1. M \subseteq (q * g)..(q * g + (q - 1))
    <3> SUFFICES ASSUME NEW i \in M PROVE i \in (q * g)..(q * g + (q - 1))
      OBVIOUS
    <3>1. i \in Nat /\ i \div q = g /\ g \in Nat
      BY <1>3, AzureGroups, Kinds DEF InGroup
    <3> QED BY <1>1, <3>1, DivInterval, Zenon
  <2> HIDE DEF q, M
  <2>2. M \subseteq (q * g)..(q * g + q - 1) /\ q * g \in Int /\ q \in Nat
    BY <1>1, <2>1
  <2>3. IsFiniteSet(M) /\ Cardinality(M) \in Nat /\ Cardinality(M) <= q
    BY <2>2, IntervalBound
  <2> QED BY <2>3 DEF M, q
<1> QED BY <1>2, <1>3

(* OptimalLRC: each of z local groups of k/z data blocks has racks of r+1. *)
LEMMA OptimalShape ==
    ASSUME NEW c \in Configs, c.code = "OptimalLRC", ConfigAccepted(c)
    PROVE  /\ c.k \div c.z \in Nat \ {0} /\ c.k = (c.k \div c.z) * c.z
           /\ OptimalRacks(c) \in Nat \ {0}
           /\ (c.r + 1) * OptimalRacks(c) >= c.k \div c.z
           /\ (c.k \div c.z) % (c.r + 1) # 0 =>
                OptimalRacks(c) = ((c.k \div c.z) \div (c.r + 1)) + 1
           /\ DatanodeNumPerCluster > c.r + 1
           /\ ClusterNum > OptimalRacks(c) * c.z + 1
<1> DEFINE k == c.k
           z == c.z
           M == c.r + 1
           L == k \div z
<1>1. /\ k \in Nat \ {0} /\ c.r \in Nat \ {0} /\ z \in Nat \ {0} /\ k % z = 0
      /\ M \in Nat \ {0}
  BY Sizes
<1>2. L \in Nat /\ k = (z * L) + (k % z)
  BY <1>1, DivMod
<1>3. DatanodeNumPerCluster > M /\ ClusterNum > CeilDiv(k, z * M) * z + 1
  BY DEF ConfigAccepted, OptimalAccepted
<1>4. OptimalRacks(c) = CeilDiv(L, M)
  BY DEF OptimalRacks
<1> HIDE DEF k, z, M, L
<1>5. L \in Nat /\ k = z * L
  BY <1>1, <1>2
<1>6. L # 0 /\ k = L * z
  BY <1>1, <1>5
<1>7. CeilDiv(k, z * M) = CeilDiv(L, M)
  BY <1>1, <1>5, CeilDivScale
<1>8. /\ CeilDiv(L, M) \in Nat /\ M * CeilDiv(L, M) >= L
      /\ L > 0 => CeilDiv(L, M) > 0
      /\ L % M # 0 => CeilDiv(L, M) = (L \div M) + 1
  BY <1>1, <1>5, CeilDivBounds
<1>9. CeilDiv(L, M) \in Nat \ {0}
  BY <1>5, <1>6, <1>8
<1> QED BY <1>3, <1>4, <1>5, <1>6, <1>7, <1>8, <1>9 DEF k, z, M, L

(* OptimalLRC: rack j of local group a is group j + a*R; the globals' is   *)
(* the last; a local parity is on the last rack of its local group.        *)
LEMMA OptimalGroups ==
    ASSUME NEW c \in Configs, c.code = "OptimalLRC", ConfigAccepted(c), NEW i \in Blocks(c)
    PROVE  /\ i \in Data(c) =>
                /\ i \div (c.k \div c.z) \in 0..(c.z - 1)
                /\ (i % (c.k \div c.z)) \div (c.r + 1) \in 0..(OptimalRacks(c) - 1)
                /\ Group(c, i) = (OptimalRacks(c) * (i \div (c.k \div c.z)))
                                   + ((i % (c.k \div c.z)) \div (c.r + 1))
                /\ Group(c, i) < OptimalRacks(c) * c.z
           /\ i \in Globals(c) => Group(c, i) = OptimalRacks(c) * c.z
           /\ i \in Locals(c) =>
                /\ i - c.k - c.r \in 0..(c.z - 1)
                /\ Group(c, i) = (OptimalRacks(c) * (i - c.k - c.r)) + (OptimalRacks(c) - 1)
                /\ Group(c, i) < OptimalRacks(c) * c.z
           /\ Group(c, i) \in 0..(OptimalRacks(c) * c.z)
<1> DEFINE L == c.k \div c.z
           M == c.r + 1
           R == OptimalRacks(c)
           a == i \div L
           j == (i % L) \div M
           l == i - c.k - c.r
<1>1. /\ c.k \in Nat \ {0} /\ c.r \in Nat \ {0} /\ c.z \in Nat \ {0}
      /\ L \in Nat \ {0} /\ M \in Nat \ {0} /\ R \in Nat \ {0}
      /\ c.k = L * c.z /\ M * R >= L
  BY Sizes, OptimalShape
<1>2. /\ i \in Nat /\ (i \in Data(c) \/ i \in Globals(c) \/ i \in Locals(c))
      /\ i \in Data(c) => i \notin Globals(c) /\ i \notin Locals(c)
      /\ i \in Globals(c) => i \notin Locals(c)
  BY Kinds
<1>3. Group(c, i) = OptimalGroup(c, i)
  BY DEF Group
<1>4. /\ i \in Data(c) => Group(c, i) = j + a * R
      /\ i \in Globals(c) => Group(c, i) = c.z * R
      /\ i \in Locals(c) => Group(c, i) = (l + 1) * R - 1
  BY <1>2, <1>3 DEF OptimalGroup
<1> HIDE DEF L, M, R
<1>5. ASSUME i \in Data(c)
      PROVE  a \in 0..(c.z - 1) /\ j \in 0..(R - 1)
  <2>1. i < L * c.z /\ c.z \in Nat
    BY <1>1, <1>5 DEF Data
  <2>2. a < c.z /\ a \in Nat
    BY <1>1, <1>2, <2>1, DivBound, DivMod, Zenon
  <2>3. i % L \in 0..(L - 1)
    BY <1>1, <1>2, DivMod, Zenon
  <2>4. i % L \in Nat /\ i % L < M * R /\ R \in Nat
    BY <1>1, <2>3
  <2>5. j < R /\ j \in Nat
    BY <1>1, <2>4, DivBound, DivMod, Zenon
  <2> QED BY <1>1, <2>2, <2>5
<1>6. ASSUME i \in Locals(c) PROVE l \in 0..(c.z - 1)
  BY <1>1, <1>6 DEF Locals
<1> HIDE DEF a, j, l
<1>7. \A x \in 0..(c.z - 1) : \A y \in 0..(R - 1) :
         R * x + y < R * c.z /\ R * x + y \in Nat
  <2> TAKE x \in 0..(c.z - 1)
  <2> TAKE y \in 0..(R - 1)
  <2>1. R * x + R <= R * c.z
    BY <1>1, LessMul
  <2>2. R * x \in Nat
    BY <1>1
  <2> QED BY <1>1, <2>1, <2>2
<1>8. ASSUME i \in Data(c)
      PROVE Group(c, i) = R * a + j /\ Group(c, i) < R * c.z /\ Group(c, i) \in Nat
  <2>1. Group(c, i) = R * a + j
    BY <1>1, <1>4, <1>5, <1>8
  <2> QED BY <1>5, <1>7, <1>8, <2>1
<1>9. ASSUME i \in Locals(c)
      PROVE /\ Group(c, i) = R * l + (R - 1) /\ Group(c, i) < R * c.z
            /\ Group(c, i) \in Nat
  <2>1. Group(c, i) = R * l + (R - 1)
    BY <1>1, <1>4, <1>6, <1>9
  <2>2. R - 1 \in 0..(R - 1)
    BY <1>1
  <2> QED BY <1>6, <1>7, <1>9, <2>1, <2>2
<1>10. ASSUME i \in Globals(c) PROVE Group(c, i) = R * c.z /\ Group(c, i) \in Nat
  BY <1>1, <1>4, <1>10
<1>11. Group(c, i) \in 0..(R * c.z)
  <2>1. R * c.z \in Nat
    BY <1>1
  <2> QED BY <1>2, <1>8, <1>9, <1>10, <2>1
<1> QED BY <1>5, <1>6, <1>8, <1>9, <1>10, <1>11 DEF L, M, R, a, j, l

(* OptimalLRC: the data of rack j of local group a is M numbers in a row.  *)
LEMMA OptimalInterval ==
    ASSUME NEW L \in Nat \ {0}, NEW M \in Nat \ {0}, NEW i \in Nat, NEW a \in Nat, NEW j \in Nat,
           i \div L = a, (i % L) \div M = j
    PROVE  i \in (L * a + M * j)..(L * a + M * j + (M - 1)) /\ i <= L * a + (L - 1)
<1>1. i = (L * a) + (i % L) /\ i % L \in 0..(L - 1)
  BY DivMod
<1>2. i % L \in Nat
  BY <1>1
<1>3. i % L \in (M * j)..(M * j + (M - 1))
  BY <1>2, DivInterval, Zenon
<1> QED BY <1>1, <1>2, <1>3

(* OptimalLRC: a rack takes r+1 blocks of a local group, or the globals,   *)
(* and a local parity only beside at most r of them, unless the local      *)
(* groups fill their racks exactly.                                        *)
LEMMA OptimalLoad ==
    ASSUME NEW c \in Configs, c.code = "OptimalLRC", ConfigAccepted(c),
           NEW g \in 0..(OptimalRacks(c) * c.z)
    PROVE  /\ IsFiniteSet(InGroup(c, g)) /\ Cardinality(InGroup(c, g)) \in Nat
           /\ Cardinality(InGroup(c, g)) <= c.r + 2
           /\ (c.k \div c.z) % (c.r + 1) # 0 => Cardinality(InGroup(c, g)) <= c.r + 1
           /\ IsFiniteSet(InGroup(c, g) \ Locals(c))
           /\ Cardinality(InGroup(c, g) \ Locals(c)) \in Nat
           /\ Cardinality(InGroup(c, g) \ Locals(c)) <= c.r + 1
           /\ (c.k \div c.z) % (c.r + 1) # 0 =>
                \A i \in InGroup(c, g) \cap Locals(c) :
                   Cardinality(InGroup(c, g) \ Locals(c)) <= c.r
<1> DEFINE L == c.k \div c.z
           M == c.r + 1
           R == OptimalRacks(c)
           S == InGroup(c, g)
           D == InGroup(c, g) \ Locals(c)
           a == g \div R
           j == g % R
           l(i) == i - c.k - c.r
           e == c.k + c.r + a
           t == L % M
           u == L \div M
<1>1. /\ c.k \in Nat \ {0} /\ c.r \in Nat \ {0} /\ c.z \in Nat \ {0}
      /\ L \in Nat \ {0} /\ M \in Nat \ {0} /\ R \in Nat \ {0} /\ M = c.r + 1
      /\ t # 0 => R = u + 1
  BY Sizes, OptimalShape
<1>2. g \in Nat /\ a \in Nat /\ j \in 0..(R - 1)
  <2>1. g \in Nat
    BY <1>1
  <2> QED BY <1>1, <2>1, DivMod, Zenon
<1>3. u \in Nat /\ t \in 0..(M - 1) /\ L = (M * u) + t
  <2>1. L \in Nat
    BY <1>1
  <2> QED BY <1>1, <2>1, DivMod, Zenon
<1>4. \A i \in S : i \in Nat /\ (i \in Data(c) \/ i \in Globals(c) \/ i \in Locals(c))
  BY Kinds DEF InGroup
<1>5. \A i \in S :
        /\ i \in Data(c) => /\ i \div L \in Nat /\ (i % L) \div M \in 0..(R - 1)
                            /\ g = (R * (i \div L)) + ((i % L) \div M) /\ g < R * c.z
        /\ i \in Globals(c) => g = R * c.z
        /\ i \in Locals(c) => l(i) \in Nat /\ g = (R * l(i)) + (R - 1) /\ g < R * c.z
  BY <1>1, OptimalGroups DEF InGroup
<1> HIDE DEF L, M, R, a, j, l, t, u
<1>6. CASE g = R * c.z
  <2>1. S \subseteq c.k..(c.k + c.r - 1) /\ D \subseteq c.k..(c.k + c.r - 1)
    BY <1>1, <1>4, <1>5, <1>6 DEF Globals
  <2>2. c.k \in Int /\ c.r \in Nat
    BY <1>1
  <2> HIDE DEF S, D
  <2>3. /\ IsFiniteSet(S) /\ Cardinality(S) \in Nat /\ Cardinality(S) <= c.r
        /\ IsFiniteSet(D) /\ Cardinality(D) \in Nat /\ Cardinality(D) <= c.r
    BY <2>1, <2>2, IntervalBound, Zenon
  <2>4. /\ Cardinality(S) <= c.r + 2 /\ Cardinality(S) <= c.r + 1
        /\ Cardinality(D) <= c.r + 1
    BY <1>1, <2>3
  <2> QED BY <2>3, <2>4, Zenon DEF S, D
<1>7. CASE g # R * c.z
  <2>1. \A i \in S : i \in Data(c) => i \div L = a /\ (i % L) \div M = j
    <3> SUFFICES ASSUME NEW i \in S, i \in Data(c)
                 PROVE  i \div L = a /\ (i % L) \div M = j
      OBVIOUS
    <3>1. /\ i \div L \in Nat /\ (i % L) \div M \in 0..(R - 1)
          /\ g = (R * (i \div L)) + ((i % L) \div M)
      BY <1>5
    <3>2. g \in Nat /\ R \in Nat \ {0}
      BY <1>1, <1>2
    <3>3. g \div R = i \div L /\ g % R = (i % L) \div M
      BY <3>1, <3>2, DivUnique, Zenon
    <3> QED BY <3>3, Zenon DEF a, j
  <2>2. \A i \in S : i \in Locals(c) => i = e /\ j = R - 1
    <3> SUFFICES ASSUME NEW i \in S, i \in Locals(c) PROVE i = e /\ j = R - 1
      OBVIOUS
    <3>1. R - 1 \in 0..(R - 1)
      BY <1>1
    <3>2. l(i) \in Nat /\ g = (R * l(i)) + (R - 1)
      BY <1>5
    <3>3. a = l(i) /\ j = R - 1
      <4>1. g \in Nat /\ R \in Nat \ {0}
        BY <1>1, <1>2
      <4>2. g \div R = l(i) /\ g % R = R - 1
        BY <3>1, <3>2, <4>1, DivUnique, Zenon
      <4> QED BY <4>2 DEF a, j
    <3> QED BY <1>1, <1>4, <3>2, <3>3 DEF l
  <2>3. \A i \in D : /\ i \in (L * a + M * j)..(L * a + M * j + (M - 1))
                     /\ i <= L * a + (L - 1)
    <3> SUFFICES ASSUME NEW i \in D
                 PROVE  /\ i \in (L * a + M * j)..(L * a + M * j + (M - 1))
                        /\ i <= L * a + (L - 1)
      OBVIOUS
    <3>1. i \in Nat /\ i \div L = a /\ (i % L) \div M = j /\ j \in Nat
      BY <1>1, <1>2, <1>4, <1>5, <1>7, <2>1
    <3> QED BY <1>1, <1>2, <3>1, OptimalInterval, Zenon
  <2>4. S \subseteq D \cup {e} /\ (j # R - 1 => S = D)
    BY <2>2
  <2>5. M * j \in Nat /\ L * a \in Nat
    BY <1>1, <1>2
  <2>6. t # 0 /\ j = R - 1 => D \subseteq (L * a + M * j)..(L * a + M * j + t - 1)
    <3> SUFFICES ASSUME t # 0, j = R - 1, NEW i \in D
                 PROVE  i \in (L * a + M * j)..(L * a + M * j + t - 1)
      OBVIOUS
    <3>1. j = u
      BY <1>1, <1>3
    <3>2. L = (M * j) + t
      BY <1>3, <3>1
    <3> QED BY <1>1, <1>3, <2>3, <2>5, <3>2
  <2>7. t \in Nat /\ t < M
    BY <1>1, <1>3
  <2> HIDE DEF S, D, e
  <2>8. IsFiniteSet(D) /\ Cardinality(D) \in Nat /\ Cardinality(D) <= M
    <3>1. D \subseteq (L * a + M * j)..(L * a + M * j + M - 1)
          /\ L * a + M * j \in Int /\ M \in Nat
      BY <1>1, <2>3, <2>5
    <3> QED BY <3>1, IntervalBound
  <2>9. t # 0 /\ j = R - 1 => Cardinality(D) <= c.r
    <3> SUFFICES ASSUME t # 0, j = R - 1 PROVE Cardinality(D) <= t
      BY <1>1, <2>7, <2>8
    <3>1. L * a + M * j \in Int
      BY <2>5
    <3> QED BY <2>6, <2>7, <3>1, IntervalBound
  <2>10. /\ IsFiniteSet(S) /\ Cardinality(S) \in Nat
         /\ Cardinality(S) <= Cardinality(D) + 1
    <3>1. IsFiniteSet({e}) /\ Cardinality({e}) = 1
      BY FS_Singleton
    <3> QED BY <2>4, <2>8, <3>1, CoverBound
  <2>11. t # 0 => Cardinality(S) <= c.r + 1
    BY <1>1, <2>4, <2>8, <2>9, <2>10
  <2>12. \A i \in S \cap Locals(c) : j = R - 1
    BY <2>2
  <2>13. /\ Cardinality(S) <= c.r + 2 /\ Cardinality(D) <= c.r + 1
    BY <1>1, <2>8, <2>10
  <2> QED BY <2>8, <2>9, <2>10, <2>11, <2>12, <2>13, Zenon DEF S, D, L, M, t
<1> QED BY <1>6, <1>7

(* UniformLRC: the rows of the local groups follow each other. *)
LEMMA RowsInOrder ==
    ASSUME NEW c, UniformSmaller(c) \in Nat, NEW a \in Nat, NEW b \in Nat,
           NEW x \in Nat, NEW y \in Nat
    PROVE  /\ UniformBefore(c, x, a, b) \in Nat
           /\ UniformBefore(c, 0, a, b) = 0
           /\ x < y => UniformBefore(c, x, a, b) + (IF x < UniformSmaller(c) THEN a ELSE b)
                         <= UniformBefore(c, y, a, b)
<1> DEFINE e == UniformSmaller(c)
<1>1. /\ UniformBefore(c, x, a, b) = IF x <= e THEN x * a ELSE e * a + (x - e) * b
      /\ UniformBefore(c, y, a, b) = IF y <= e THEN y * a ELSE e * a + (y - e) * b
      /\ UniformBefore(c, 0, a, b) = 0
  BY SMT DEF UniformBefore
<1> HIDE DEF e
<1>2. e \in Nat
  BY DEF e
<1>3. ASSUME NEW d \in Nat, NEW u \in Nat, NEW v \in Nat, u < v
      PROVE  u * d + d <= v * d
  <2>1. (v - u) * d >= d
    BY <1>3, SMT
  <2> QED BY <1>3, <2>1, SMT
<1>4. UniformBefore(c, x, a, b) \in Nat
  BY <1>1, <1>2, SMT
<1>5. ASSUME x < y
      PROVE  UniformBefore(c, x, a, b) + (IF x < e THEN a ELSE b) <= UniformBefore(c, y, a, b)
  <2>1. CASE y <= e
    <3>1. x * a + a <= y * a
      BY <1>3, <1>5
    <3>2. x <= e /\ x < e
      BY <1>2, <1>5, <2>1
    <3> QED BY <1>1, <2>1, <3>1, <3>2, Zenon
  <2>2. CASE x < e /\ e < y
    <3>1. x * a + a <= e * a
      BY <1>2, <1>3, <2>2
    <3>2. (y - e) * b \in Nat /\ e * a \in Nat /\ x * a \in Nat
      BY <1>2, <2>2, SMT
    <3>3. ~(y <= e) /\ x <= e
      BY <1>2, <2>2
    <3>4. /\ UniformBefore(c, x, a, b) = x * a
          /\ UniformBefore(c, y, a, b) = e * a + (y - e) * b
      BY <1>1, <3>3, Zenon
    <3> QED BY <2>2, <3>1, <3>2, <3>4
  <2>3. CASE e <= x
    <3>1. (x - e) * b + b <= (y - e) * b
      <4>1. x - e \in Nat /\ y - e \in Nat /\ x - e < y - e
        BY <1>2, <1>5, <2>3
      <4> QED BY <1>3, <4>1
    <3>2. UniformBefore(c, x, a, b) = e * a + (x - e) * b
      <4>1. CASE x = e
        <5>1. (x - e) * b = 0 /\ e * a \in Nat
          BY <1>2, <4>1, SMT
        <5> QED BY <1>1, <4>1, <5>1
      <4>2. CASE x # e
        BY <1>1, <1>2, <2>3, <4>2
      <4> QED BY <4>1, <4>2
    <3>3. UniformBefore(c, y, a, b) = e * a + (y - e) * b /\ ~(x < e)
      BY <1>1, <1>2, <1>5, <2>3
    <3>4. (x - e) * b \in Int /\ (y - e) * b \in Int /\ e * a \in Int
      BY <1>2
    <3> QED BY <3>1, <3>2, <3>3, <3>4
  <2> QED BY <1>2, <1>5, <2>1, <2>2, <2>3
<1> QED BY <1>1, <1>4, <1>5 DEF e

(* UniformLRC: the z local groups make up the k+r blocks, and their racks  *)
(* are fewer than the clusters.                                            *)
LEMMA UniformShape ==
    ASSUME NEW c \in Configs, c.code = "UniformLRC", ConfigAccepted(c)
    PROVE  LET s == (c.k + c.r) \div c.z
               m == (c.k + c.r) % c.z
           IN  /\ s \in Nat \ {0} /\ m \in 0..(c.z - 1)
               /\ UniformSmaller(c) = c.z - m /\ UniformSmaller(c) \in 1..c.z
               /\ c.k + c.r = s * c.z + m
               /\ c.k + c.r = UniformSmaller(c) * s + m * (s + 1)
               /\ UniformFirst(c, c.z) = c.k + c.r
               /\ ClusterNum > UniformFirstRack(c, c.z)
<1> DEFINE z == c.z
           n == c.k + c.r
           s == n \div z
           m == n % z
           e == UniformSmaller(c)
<1>1. z \in Nat \ {0} /\ n \in Nat \ {0} /\ z <= n
  BY Sizes, CodeAssumption DEF NonemptyGroups
<1>2. s \in Nat /\ m \in 0..(z - 1) /\ n = z * s + m
  BY <1>1, DivMod
<1>3. e = z - m
  BY DEF UniformSmaller
<1>4. UniformFirst(c, z) = IF z <= e THEN z * s ELSE e * s + (z - e) * (s + 1)
  BY DEF UniformFirst, UniformBefore
<1>5. ClusterNum > UniformFirstRack(c, z)
  BY DEF ConfigAccepted
<1> HIDE DEF z, n, s, m, e
<1>6. s # 0
  <2> SUFFICES ASSUME s = 0 PROVE FALSE
    OBVIOUS
  <2>1. z * s = 0
    BY <1>1, SMT
  <2> QED BY <1>1, <1>2, <2>1
<1>7. e \in 1..z /\ z - e = m
  BY <1>1, <1>2, <1>3
<1>8. n = s * z + m /\ n = e * s + m * (s + 1)
  <2>1. z * s = s * z /\ (z - m) * s = z * s - m * s /\ m * (s + 1) = m * s + m
    BY <1>1, <1>2, SMT
  <2>2. z * s \in Nat /\ m * s \in Nat
    BY <1>1, <1>2, SMT
  <2> QED BY <1>1, <1>2, <1>3, <2>1, <2>2
<1>9. UniformFirst(c, z) = n
  <2>1. CASE z <= e
    <3>1. e = z /\ m = 0
      BY <1>1, <1>2, <1>3, <1>7, <2>1
    <3>2. z * s = s * z
      BY <1>1, <1>2, SMT
    <3> QED BY <1>1, <1>2, <1>4, <2>1, <3>1, <3>2
  <2>2. CASE ~(z <= e)
    BY <1>4, <1>7, <1>8, <2>2
  <2> QED BY <2>1, <2>2
<1> QED BY <1>2, <1>3, <1>5, <1>6, <1>7, <1>8, <1>9 DEF z, n, s, m, e

(* UniformLRC: the sizes of the rows, and where each starts. *)
LEMMA UniformRows ==
    ASSUME NEW c \in Configs, c.code = "UniformLRC", ConfigAccepted(c), NEW x \in Nat
    PROVE  /\ UniformSize(c, x) \in Nat \ {0} /\ UniformRacks(c, x) \in Nat \ {0}
           /\ (c.r + 1) * UniformRacks(c, x) >= UniformSize(c, x)
           /\ UniformSize(c, x) % (c.r + 1) # 0 =>
                UniformRacks(c, x) = (UniformSize(c, x) \div (c.r + 1)) + 1
           /\ UniformFirst(c, x) \in Nat /\ UniformFirstRack(c, x) \in Nat
           /\ \A y \in Nat : x < y =>
                /\ UniformFirst(c, x) + UniformSize(c, x) <= UniformFirst(c, y)
                /\ UniformFirstRack(c, x) + UniformRacks(c, x) <= UniformFirstRack(c, y)
<1> DEFINE s == (c.k + c.r) \div c.z
           M == c.r + 1
           e == UniformSmaller(c)
           A == CeilDiv(s, M)
           B == CeilDiv(s + 1, M)
<1>1. s \in Nat \ {0} /\ e \in 1..c.z /\ c.z \in Nat /\ M \in Nat \ {0}
  <2>1. s \in Nat \ {0} /\ e \in 1..c.z
    BY UniformShape, Zenon
  <2>2. c.r \in Nat /\ c.z \in Nat
    BY Sizes
  <2> QED BY <2>1, <2>2
<1>2. /\ UniformSize(c, x) = s + (IF x >= e THEN 1 ELSE 0)
      /\ UniformRacks(c, x) = CeilDiv(UniformSize(c, x), M)
      /\ \A y : UniformFirst(c, y) = UniformBefore(c, y, s, s + 1)
      /\ \A y : UniformFirstRack(c, y) = UniformBefore(c, y, A, B)
  BY DEF UniformSize, UniformRacks, UniformFirst, UniformFirstRack
<1> HIDE DEF s, M
<1>3. /\ UniformSize(c, x) \in Nat \ {0}
      /\ x < e => UniformSize(c, x) = s
      /\ ~(x < e) => UniformSize(c, x) = s + 1
  BY <1>1, <1>2
<1>4. A \in Nat /\ B \in Nat
  <2>1. s \in Nat /\ s + 1 \in Nat
    BY <1>1
  <2> QED BY <1>1, <2>1, CeilDivBounds, Zenon
<1>5. /\ x < e => UniformRacks(c, x) = A
      /\ ~(x < e) => UniformRacks(c, x) = B
  BY <1>2, <1>3, Zenon
<1> HIDE DEF A, B
<1>6. UniformSize(c, x) \in Nat
  BY <1>3
<1>7. /\ UniformRacks(c, x) \in Nat \ {0}
      /\ M * UniformRacks(c, x) >= UniformSize(c, x)
      /\ UniformSize(c, x) % M # 0 => UniformRacks(c, x) = (UniformSize(c, x) \div M) + 1
  <2>1. UniformSize(c, x) > 0
    BY <1>3
  <2>2. /\ CeilDiv(UniformSize(c, x), M) \in Nat
        /\ M * CeilDiv(UniformSize(c, x), M) >= UniformSize(c, x)
        /\ UniformSize(c, x) > 0 => CeilDiv(UniformSize(c, x), M) > 0
        /\ UniformSize(c, x) % M # 0 =>
             CeilDiv(UniformSize(c, x), M) = (UniformSize(c, x) \div M) + 1
    BY <1>1, <1>6, CeilDivBounds
  <2>3. UniformRacks(c, x) = CeilDiv(UniformSize(c, x), M)
    BY <1>2
  <2> HIDE DEF e
  <2> QED BY <2>1, <2>2, <2>3
<1>8. e \in Nat /\ s \in Nat /\ s + 1 \in Nat
  BY <1>1
<1>9. UniformFirst(c, x) \in Nat /\ UniformFirstRack(c, x) \in Nat
  <2>1. UniformBefore(c, x, s, s + 1) \in Nat
    BY <1>8, RowsInOrder, Zenon
  <2>2. UniformBefore(c, x, A, B) \in Nat
    BY <1>4, <1>8, RowsInOrder, Zenon
  <2> QED BY <1>2, <2>1, <2>2, Zenon
<1>10. ASSUME NEW y \in Nat, x < y
       PROVE  UniformFirst(c, x) + UniformSize(c, x) <= UniformFirst(c, y)
  <2>1. UniformBefore(c, x, s, s + 1) + (IF x < e THEN s ELSE s + 1)
          <= UniformBefore(c, y, s, s + 1)
    BY <1>8, <1>10, RowsInOrder
  <2>2. UniformSize(c, x) = IF x < e THEN s ELSE s + 1
    BY <1>3
  <2> QED BY <1>2, <2>1, <2>2, Zenon
<1>11. ASSUME NEW y \in Nat, x < y
       PROVE  UniformFirstRack(c, x) + UniformRacks(c, x) <= UniformFirstRack(c, y)
  <2>1. UniformBefore(c, x, A, B) + (IF x < e THEN A ELSE B) <= UniformBefore(c, y, A, B)
    BY <1>4, <1>8, <1>11, RowsInOrder
  <2>2. UniformRacks(c, x) = IF x < e THEN A ELSE B
    BY <1>5
  <2> QED BY <1>2, <2>1, <2>2, Zenon
<1> QED BY <1>3, <1>7, <1>9, <1>10, <1>11 DEF M

(* UniformLRC: the row of a data block or a global is the one it is in. *)
LEMMA UniformRowHolds ==
    ASSUME NEW c \in Configs, c.code = "UniformLRC", ConfigAccepted(c),
           NEW i \in Nat, i < c.k + c.r
    PROVE  /\ UniformRow(c, i) \in 0..(c.z - 1)
           /\ i >= UniformFirst(c, UniformRow(c, i))
           /\ i < UniformFirst(c, UniformRow(c, i)) + UniformSize(c, UniformRow(c, i))
<1> DEFINE s == (c.k + c.r) \div c.z
           m == (c.k + c.r) % c.z
           e == UniformSmaller(c)
           w == UniformRow(c, i)
<1>1. /\ s \in Nat \ {0} /\ m \in 0..(c.z - 1) /\ c.z \in Nat \ {0}
      /\ e = c.z - m /\ e \in 1..c.z
      /\ c.k + c.r = e * s + m * (s + 1)
  BY Sizes, UniformShape
<1>2. /\ w = IF i < e * s THEN i \div s ELSE e + ((i - e * s) \div (s + 1))
      /\ UniformFirst(c, w) = IF w <= e THEN w * s ELSE e * s + (w - e) * (s + 1)
      /\ UniformSize(c, w) = s + (IF w >= e THEN 1 ELSE 0)
  BY DEF UniformRow, UniformFirst, UniformBefore, UniformSize
<1> HIDE DEF s, m, e, w
<1>3. e * s \in Nat /\ e \in Nat /\ s \in Nat /\ s + 1 \in Nat \ {0}
  BY <1>1
<1>4. CASE i < e * s
  <2> DEFINE q == i \div s
             t == i % s
  <2>1. q \in Nat /\ t \in 0..(s - 1) /\ i = (s * q) + t
    BY <1>1, DivMod, Zenon
  <2>2. q < e
    <3>1. i < s * e
      BY <1>3, <1>4
    <3> QED BY <1>1, <1>3, <3>1, DivBound, Zenon
  <2>3. w = q
    BY <1>2, <1>4
  <2> HIDE DEF q, t
  <2>4. UniformFirst(c, w) = s * q
    BY <1>2, <1>3, <2>1, <2>2, <2>3
  <2>5. UniformSize(c, w) = s
    BY <1>2, <1>3, <2>1, <2>2, <2>3
  <2>6. s * q \in Nat
    BY <1>3, <2>1
  <2> QED BY <1>1, <2>1, <2>2, <2>3, <2>4, <2>5, <2>6 DEF w
<1>5. CASE ~(i < e * s)
  <2> DEFINE h == i - e * s
             q == h \div (s + 1)
             t == h % (s + 1)
  <2>1. h \in Nat /\ h < (s + 1) * m
    <3>1. m * (s + 1) = (s + 1) * m
      BY <1>1, SMT
    <3> QED BY <1>1, <1>3, <1>5, <3>1
  <2>2. w = e + q
    BY <1>2, <1>5
  <2>3. i = e * s + h
    BY <1>3
  <2> HIDE DEF h
  <2>4. q \in Nat /\ t \in 0..s /\ h = ((s + 1) * q) + t
    <3>1. t \in 0..((s + 1) - 1)
      BY <1>3, <2>1, DivMod, Zenon
    <3>2. (s + 1) - 1 = s
      BY <1>3
    <3> QED BY <1>3, <2>1, <3>1, <3>2, DivMod, Zenon
  <2>5. q < m
    <3>1. m \in Nat
      BY <1>1
    <3> QED BY <1>3, <2>1, <3>1, DivBound, Zenon
  <2> HIDE DEF q, t
  <2>6. UniformFirst(c, w) = e * s + (s + 1) * q
    <3>1. CASE q = 0
      <4>1. w = e /\ (s + 1) * q = 0
        BY <1>3, <2>2, <3>1, SMT
      <4> QED BY <1>2, <1>3, <4>1
    <3>2. CASE q # 0
      <4>1. ~(w <= e) /\ w - e = q
        BY <1>3, <2>2, <2>4, <3>2
      <4>2. q * (s + 1) = (s + 1) * q
        BY <1>3, <2>4, SMT
      <4> QED BY <1>2, <4>1, <4>2
    <3> QED BY <3>1, <3>2
  <2>7. UniformSize(c, w) = s + 1 /\ w \in 0..(c.z - 1)
    BY <1>1, <1>2, <2>2, <2>4, <2>5
  <2>8. (s + 1) * q \in Nat
    BY <1>3, <2>4
  <2> QED BY <1>3, <2>3, <2>4, <2>6, <2>7, <2>8 DEF w
<1> QED BY <1>4, <1>5

(* UniformLRC: a block's row, and the rack of that row it is on. *)
RowOf(c, i) == IF i \in Locals(c) THEN i - c.k - c.r ELSE UniformRow(c, i)
ColOf(c, i) == IF i \in Locals(c) THEN UniformRacks(c, RowOf(c, i)) - 1
               ELSE (i - UniformFirst(c, RowOf(c, i))) \div (c.r + 1)

(* UniformLRC: the racks of the rows follow each other. *)
LEMMA UniformGroups ==
    ASSUME NEW c \in Configs, c.code = "UniformLRC", ConfigAccepted(c), NEW i \in Blocks(c)
    PROVE  /\ RowOf(c, i) \in 0..(c.z - 1)
           /\ ColOf(c, i) \in 0..(UniformRacks(c, RowOf(c, i)) - 1)
           /\ Group(c, i) = UniformFirstRack(c, RowOf(c, i)) + ColOf(c, i)
           /\ Group(c, i) \in 0..(UniformFirstRack(c, c.z) - 1)
           /\ i \notin Locals(c) =>
                /\ i >= UniformFirst(c, RowOf(c, i))
                /\ i < UniformFirst(c, RowOf(c, i)) + UniformSize(c, RowOf(c, i))
<1> DEFINE w == RowOf(c, i)
           j == ColOf(c, i)
           R == UniformRacks(c, w)
           M == c.r + 1
           f == UniformFirst(c, w)
<1>1. c.k \in Nat \ {0} /\ c.r \in Nat \ {0} /\ c.z \in Nat \ {0} /\ i \in Nat /\ M \in Nat \ {0}
  BY Sizes, Kinds
<1>2. i \in Locals(c) => w \in 0..(c.z - 1)
  BY <1>1 DEF RowOf, Locals
<1>3. i \notin Locals(c) => i < c.k + c.r
  BY <1>1 DEF Blocks, Locals
<1>4. i \notin Locals(c) => /\ w \in 0..(c.z - 1)
                            /\ i >= f /\ i < f + UniformSize(c, w)
  BY <1>1, <1>3, UniformRowHolds DEF RowOf
<1>5. w \in 0..(c.z - 1) /\ w \in Nat /\ c.z \in Nat /\ w < c.z
  BY <1>1, <1>2, <1>4
<1>6. /\ UniformSize(c, w) \in Nat \ {0} /\ R \in Nat \ {0}
      /\ M * R >= UniformSize(c, w) /\ f \in Nat
      /\ UniformFirstRack(c, w) \in Nat /\ UniformFirstRack(c, c.z) \in Nat
      /\ UniformFirstRack(c, w) + R <= UniformFirstRack(c, c.z)
  BY <1>5, UniformRows
<1>7. Group(c, i) = UniformFirstRack(c, w) + j
  <2>1. CASE i \in Locals(c)
    <3>1. j = UniformRacks(c, i - c.k - c.r) - 1 /\ w = i - c.k - c.r
      BY <2>1 DEF ColOf, RowOf
    <3>2. Group(c, i) = UniformFirstRack(c, w) + UniformRacks(c, w) - 1
      BY <2>1, <3>1 DEF Group, UniformGroup
    <3> QED BY <1>6, <3>1, <3>2
  <2>2. CASE i \notin Locals(c)
    BY <2>2 DEF Group, UniformGroup, ColOf, RowOf
  <2> QED BY <2>1, <2>2
<1>8. j \in 0..(R - 1)
  <2>1. CASE i \in Locals(c)
    <3>1. j = R - 1
      BY <2>1 DEF ColOf
    <3> QED BY <1>6, <3>1
  <2>2. CASE i \notin Locals(c)
    <3>1. j = (i - f) \div M
      BY <2>2 DEF ColOf
    <3> HIDE DEF f, R, w, j, M
    <3>2. i - f \in Nat /\ i - f < M * R /\ R \in Nat
      BY <1>1, <1>4, <1>6, <2>2
    <3>3. (i - f) \div M \in Nat /\ (i - f) \div M < R
      BY <1>1, <3>2, DivBound, DivMod, Zenon
    <3> QED BY <1>6, <3>1, <3>3
  <2> QED BY <2>1, <2>2
<1> HIDE DEF w, j, R, f
<1>9. Group(c, i) \in 0..(UniformFirstRack(c, c.z) - 1)
  BY <1>6, <1>7, <1>8
<1> QED BY <1>4, <1>5, <1>7, <1>8, <1>9 DEF w, j, R, f

(* UniformLRC: blocks of one group are on one rack of one row. *)
LEMMA UniformTogether ==
    ASSUME NEW c \in Configs, c.code = "UniformLRC", ConfigAccepted(c),
           NEW h \in Blocks(c), NEW i \in Blocks(c), Group(c, h) = Group(c, i)
    PROVE  RowOf(c, h) = RowOf(c, i) /\ ColOf(c, h) = ColOf(c, i)
<1> DEFINE G(x) == UniformFirstRack(c, x)
           R(x) == UniformRacks(c, x)
           w == RowOf(c, h)
           v == RowOf(c, i)
           a == ColOf(c, h)
           b == ColOf(c, i)
<1>1. /\ w \in 0..(c.z - 1) /\ a \in 0..(R(w) - 1) /\ Group(c, h) = G(w) + a
      /\ v \in 0..(c.z - 1) /\ b \in 0..(R(v) - 1) /\ Group(c, i) = G(v) + b
      /\ c.z \in Nat
  BY UniformGroups, Sizes
<1>2. w \in Nat /\ v \in Nat
  BY <1>1
<1>3. /\ G(w) \in Nat /\ G(v) \in Nat /\ R(w) \in Nat /\ R(v) \in Nat
      /\ w < v => G(w) + R(w) <= G(v)
      /\ v < w => G(v) + R(v) <= G(w)
  BY <1>2, UniformRows
<1> HIDE DEF G, R, w, v, a, b
<1>4. ~(w < v) /\ ~(v < w)
  <2>1. a \in Nat /\ b \in Nat /\ a < R(w) /\ b < R(v)
    BY <1>1, <1>3
  <2>2. G(w) + a = G(v) + b
    BY <1>1
  <2> QED BY <1>2, <1>3, <2>1, <2>2
<1>5. w = v
  BY <1>2, <1>4
<1>6. G(w) + a = G(w) + b
  BY <1>1, <1>5
<1>7. a = b
  BY <1>1, <1>3, <1>5, <1>6
<1> QED BY <1>5, <1>7 DEF w, v, a, b

(* UniformLRC: a rack takes r+1 blocks of a row, and the row's parity only *)
(* beside at most r of them, unless the row fills its racks exactly.       *)
LEMMA UniformLoad ==
    ASSUME NEW c \in Configs, c.code = "UniformLRC", ConfigAccepted(c), NEW b \in Blocks(c)
    PROVE  LET D == InGroup(c, Group(c, b)) \ Locals(c)
           IN  /\ IsFiniteSet(D) /\ Cardinality(D) \in Nat /\ Cardinality(D) <= c.r + 1
               /\ UniformSize(c, RowOf(c, b)) % (c.r + 1) # 0 =>
                    \A i \in InGroup(c, Group(c, b)) \cap Locals(c) : Cardinality(D) <= c.r
<1> DEFINE D == InGroup(c, Group(c, b)) \ Locals(c)
           w == RowOf(c, b)
           j == ColOf(c, b)
           M == c.r + 1
           f == UniformFirst(c, w)
           L == UniformSize(c, w)
           R == UniformRacks(c, w)
           t == L % M
           u == L \div M
<1>1. c.r \in Nat \ {0} /\ M \in Nat \ {0} /\ M = c.r + 1 /\ c.z \in Nat
  BY Sizes
<1>2. w \in 0..(c.z - 1) /\ j \in 0..(R - 1)
  BY UniformGroups
<1>3. w \in Nat
  BY <1>2
<1>4. L \in Nat \ {0} /\ R \in Nat \ {0} /\ f \in Nat /\ (t # 0 => R = u + 1)
  BY <1>3, UniformRows
<1>5. j \in Nat
  BY <1>2, <1>4
<1>6. \A i \in InGroup(c, Group(c, b)) : RowOf(c, i) = w /\ ColOf(c, i) = j
  BY UniformTogether DEF InGroup
<1>7. \A i \in D : /\ i \in Nat /\ i >= f /\ i < f + L /\ (i - f) \div M = j
  <2> SUFFICES ASSUME NEW i \in D
               PROVE  i \in Nat /\ i >= f /\ i < f + L /\ (i - f) \div M = j
    OBVIOUS
  <2>1. i \in Blocks(c) /\ i \notin Locals(c) /\ RowOf(c, i) = w /\ ColOf(c, i) = j
    BY <1>6 DEF InGroup
  <2>2. i \in Nat
    BY <2>1, Kinds
  <2>3. i >= f /\ i < f + L
    BY <2>1, UniformGroups
  <2>4. (i - f) \div M = j
    BY <2>1 DEF ColOf
  <2> QED BY <2>2, <2>3, <2>4
<1> HIDE DEF D, w, j, M, f, L, R, t, u
<1>8. \A i \in D : i \in (f + M * j)..(f + M * j + (M - 1)) /\ i < f + L
  <2> SUFFICES ASSUME NEW i \in D PROVE i \in (f + M * j)..(f + M * j + (M - 1))
    BY <1>7
  <2>1. i - f \in Nat /\ i \in Nat /\ (i - f) \div M = j
    BY <1>4, <1>7
  <2>2. i - f \in (M * j)..(M * j + (M - 1))
    BY <1>1, <1>5, <2>1, DivInterval, Zenon
  <2>3. M * j \in Nat
    BY <1>1, <1>5
  <2> QED BY <1>1, <1>4, <2>1, <2>2, <2>3
<1>9. M * j \in Nat /\ f + M * j \in Int /\ M \in Nat
  BY <1>1, <1>4, <1>5
<1>10. IsFiniteSet(D) /\ Cardinality(D) \in Nat /\ Cardinality(D) <= M
  <2>1. D \subseteq (f + M * j)..(f + M * j + M - 1)
    BY <1>8, <1>9
  <2> QED BY <1>9, <2>1, IntervalBound
<1>11. ASSUME t # 0, NEW i \in InGroup(c, Group(c, b)) \cap Locals(c)
       PROVE  Cardinality(D) <= c.r
  <2>1. j = R - 1
    BY <1>6 DEF ColOf, R, w
  <2>2. j = u
    <3>1. R = u + 1 /\ u \in Int
      <4>1. L \in Nat
        BY <1>4
      <4>2. R = u + 1 /\ M \in Nat \ {0}
        BY <1>1, <1>4, <1>11
      <4>3. u \in Nat
        BY <4>1, <4>2, DivMod, Zenon DEF u
      <4> QED BY <4>2, <4>3
    <3> QED BY <2>1, <3>1
  <2>3. L = (M * j) + t /\ t \in 0..(M - 1)
    <3>1. L \in Nat
      BY <1>4
    <3> QED BY <1>1, <2>2, <3>1, DivMod, Zenon DEF u, t
  <2>4. t \in Nat /\ D \subseteq (f + M * j)..(f + M * j + t - 1)
    BY <1>1, <1>4, <1>8, <1>9, <2>3
  <2>5. Cardinality(D) <= t
    BY <1>9, <2>4, IntervalBound
  <2> QED BY <1>1, <1>10, <2>3, <2>5
<1> QED BY <1>1, <1>10, <1>11 DEF D, t, L, w, M

-----------------------------------------------------------------------------
(***************************************************************************)
(* Racks and nodes of a stripe.                                            *)
(***************************************************************************)
IsLrc(c) == c.code \in {"UniLRC", "AzureLRC", "OptimalLRC", "UniformLRC"}

(* What a repair of block b of a UniformLRC stripe needs to be in place.   *)
InPlace(c, b) == c.code = "UniformLRC" => Repairable(c, b)

(* There are no more groups than racks, ... *)
LEMMA GroupRange ==
    ASSUME NEW c \in Configs, IsLrc(c), ConfigAccepted(c), NEW i \in Blocks(c)
    PROVE  Group(c, i) \in 0..(ClusterNum - 1)
<1>1. /\ c.code # "RS" /\ c.z \in Nat \ {0} /\ ClusterNum \in Nat \ {0}
  BY Sizes DEF IsLrc
<1>2. CASE c.code = "UniLRC"
  BY <1>1, <1>2, UniGroups, UniShape
<1>3. CASE c.code = "AzureLRC"
  BY <1>1, <1>3, AzureGroups, AzureShape
<1>4. CASE c.code = "OptimalLRC"
  <2>1. OptimalRacks(c) * c.z \in Nat
    BY <1>1, <1>4, OptimalShape
  <2> QED BY <1>1, <1>4, <2>1, OptimalGroups, OptimalShape
<1>5. CASE c.code = "UniformLRC"
  <2>1. Group(c, i) \in 0..(UniformFirstRack(c, c.z) - 1)
    BY <1>5, UniformGroups
  <2>2. ClusterNum > UniformFirstRack(c, c.z)
    BY <1>5, UniformShape
  <2>3. c.z \in Nat
    BY <1>1
  <2>4. UniformFirstRack(c, c.z) \in Nat
    BY <1>5, <2>3, UniformRows
  <2> QED BY <1>1, <2>1, <2>2, <2>4
<1> QED BY <1>2, <1>3, <1>4, <1>5 DEF IsLrc

(* ... so two blocks of a stripe share a rack only within their group. *)
LEMMA RackIsGroup ==
    ASSUME NEW c \in Configs, IsLrc(c), ConfigAccepted(c), NEW sid \in Nat,
           NEW h \in Blocks(c), NEW i \in Blocks(c)
    PROVE  RackOf(c, sid, h) = RackOf(c, sid, i) <=> Group(c, h) = Group(c, i)
<1>1. ClusterNum \in Nat \ {0}
  BY CodeAssumption
<1>2. /\ Group(c, h) \in 0..(ClusterNum - 1) /\ Group(c, i) \in 0..(ClusterNum - 1)
  BY GroupRange
<1> QED BY <1>1, <1>2, Rotation, Zenon DEF RackOf

(* The blocks of a stripe on the rack of block b are those of its group. *)
LEMMA RackBlocks ==
    ASSUME NEW c \in Configs, IsLrc(c), ConfigAccepted(c), NEW sid \in Nat, NEW b \in Blocks(c)
    PROVE  {i \in Blocks(c) : Placement(c, sid)[i][1] = RackOf(c, sid, b)}
             = InGroup(c, Group(c, b))
<1>1. \A i \in Blocks(c) : Placement(c, sid)[i][1] = RackOf(c, sid, i)
  BY DEF Placement
<1>2. \A i \in Blocks(c) :
        RackOf(c, sid, i) = RackOf(c, sid, b) <=> Group(c, i) = Group(c, b)
  BY RackIsGroup
<1> QED BY <1>1, <1>2 DEF InGroup

(* UniLRC and OptimalLRC: the nodes of a rack suffice for its blocks. *)
LEMMA GroupFits ==
    ASSUME NEW c \in Configs, c.code \in {"UniLRC", "OptimalLRC"}, ConfigAccepted(c),
           NEW b \in Blocks(c)
    PROVE  /\ IsFiniteSet(InGroup(c, Group(c, b)))
           /\ Cardinality(InGroup(c, Group(c, b))) \in Nat
           /\ Cardinality(InGroup(c, Group(c, b))) <= DatanodeNumPerCluster
           /\ c.code = "UniLRC" \/ (c.k \div c.z) % (c.r + 1) # 0 =>
                Cardinality(InGroup(c, Group(c, b))) < DatanodeNumPerCluster
<1> DEFINE G == InGroup(c, Group(c, b))
<1>1. c.r \in Nat /\ DatanodeNumPerCluster \in Nat
  BY Sizes
<1>2. CASE c.code = "UniLRC"
  <2>1. Group(c, b) \in 0..(c.z - 1)
    BY <1>2, UniGroups
  <2>2. IsFiniteSet(G) /\ Cardinality(G) \in Nat /\ Cardinality(G) <= c.r + 1
    BY <1>2, <2>1, UniLoad
  <2>3. DatanodeNumPerCluster > c.r + 1
    BY <1>2, UniShape
  <2> QED BY <1>1, <2>2, <2>3
<1>3. CASE c.code = "OptimalLRC"
  <2>1. Group(c, b) \in 0..(OptimalRacks(c) * c.z)
    BY <1>3, OptimalGroups
  <2>2. /\ IsFiniteSet(G) /\ Cardinality(G) \in Nat /\ Cardinality(G) <= c.r + 2
        /\ (c.k \div c.z) % (c.r + 1) # 0 => Cardinality(G) <= c.r + 1
    BY <1>3, <2>1, OptimalLoad
  <2>3. DatanodeNumPerCluster > c.r + 1
    BY <1>3, OptimalShape
  <2> QED BY <1>1, <1>3, <2>2, <2>3
<1> QED BY <1>2, <1>3

(* UniLRC and OptimalLRC: every block of a new stripe finds a node. *)
LEMMA EveryNodeFound ==
    ASSUME NEW c \in Configs, c.code \in {"UniLRC", "OptimalLRC"}, ConfigAccepted(c),
           NEW sid \in Nat, NEW b \in Blocks(c)
    PROVE  NodeFound(c, sid, b)
<1> DEFINE G == InGroup(c, Group(c, b))
           H == G \ {b}
           E == Earlier(c, sid, b)
<1>1. /\ IsFiniteSet(G) /\ Cardinality(G) \in Nat /\ Cardinality(G) <= DatanodeNumPerCluster
      /\ DatanodeNumPerCluster \in Nat
  BY GroupFits, CodeAssumption
<1>2. b \in G
  BY DEF InGroup
<1>3. E \subseteq H
  <2> SUFFICES ASSUME NEW h \in E PROVE h \in H
    OBVIOUS
  <2>1. c.k \in Nat /\ c.r \in Nat /\ c.z \in Nat
    BY Sizes
  <2>2. h \in Blocks(c) /\ h # b /\ RackOf(c, sid, h) = RackOf(c, sid, b)
    BY <2>1 DEF Earlier, Blocks
  <2>3. Group(c, h) = Group(c, b)
    BY <2>2, RackIsGroup DEF IsLrc
  <2> QED BY <2>2, <2>3 DEF InGroup
<1> HIDE DEF G, E
<1>4. IsFiniteSet(H) /\ Cardinality(H) = Cardinality(G) - 1
  BY <1>1, <1>2, FS_RemoveElement
<1>5. IsFiniteSet(E) /\ Cardinality(E) <= Cardinality(H)
  BY <1>3, <1>4, FS_Subset
<1>6. Cardinality(E) \in Nat
  BY <1>5, FS_CardinalityType
<1> QED BY <1>1, <1>4, <1>5, <1>6 DEF NodeFound, E

-----------------------------------------------------------------------------
(***************************************************************************)
(* What a repair reads.                                                    *)
(***************************************************************************)

(* A finite set with two elements does not have one. *)
LEMMA TwoElements ==
    ASSUME NEW S, IsFiniteSet(S), NEW x \in S, NEW y \in S, x # y
    PROVE  Cardinality(S) # 1
BY FS_Singleton

(* OptimalLRC always plans more than one group: the globals' is another.   *)
LEMMA OptimalPlans ==
    ASSUME NEW c \in Configs, c.code = "OptimalLRC", ConfigAccepted(c), NEW b \in Blocks(c)
    PROVE  Cardinality(Plan(c, b)) # 1
<1> DEFINE R == OptimalRacks(c)
           W == (c.k \div c.z) \div (c.r + 1) + 1
           z == c.z
           a == IF b \in Locals(c) THEN b - c.k - c.r ELSE b \div (c.k \div z)
           x == (z * R + 1) \div z
<1>1. /\ c.k \in Nat /\ c.r \in Nat /\ z \in Nat \ {0} /\ R \in Nat \ {0}
      /\ c.k \div z \in Nat \ {0} /\ c.r + 1 \in Nat \ {0}
  BY Sizes, OptimalShape
<1>2. W \in Nat \ {0}
  <2>1. c.k \div z \in Nat
    BY <1>1
  <2>2. (c.k \div z) \div (c.r + 1) \in Nat
    BY <1>1, <2>1, DivMod, Zenon
  <2> QED BY <2>2
<1>3. Plan(c, b) = IF b \in Globals(c) THEN {z * R} \cup 0..(x - 1)
                   ELSE (a * W)..((a + 1) * W - 1) \cup {z * W}
  BY DEF Plan, OptimalPlan
<1>4. b \notin Globals(c) => a \in 0..(z - 1)
  BY OptimalGroups, Kinds
<1> HIDE DEF R, W, z, a
<1>5. CASE b \in Globals(c)
  <2>1. z * R + 1 \in Nat /\ z * R \in Nat /\ z * R # 0
    BY <1>1
  <2>2. x \in Nat /\ (z * R + 1) % z \in 0..(z - 1)
        /\ z * R + 1 = (z * x) + ((z * R + 1) % z)
    BY <1>1, <2>1, DivMod, Zenon
  <2>3. z * R >= z
    BY <1>1
  <2> HIDE DEF x
  <2>4. x # 0
    BY <1>1, <2>1, <2>2, <2>3
  <2>5. IsFiniteSet(0..(x - 1)) /\ IsFiniteSet({z * R})
    <3>1. 0 \in Int /\ x - 1 \in Int
      BY <2>2
    <3> QED BY <3>1, FS_Interval, FS_Singleton, Zenon
  <2>6. IsFiniteSet(Plan(c, b))
    BY <1>3, <1>5, <2>5, FS_Union
  <2>7. 0 \in Plan(c, b) /\ z * R \in Plan(c, b)
    BY <1>3, <1>5, <2>2, <2>4
  <2> QED BY <2>1, <2>6, <2>7, TwoElements
<1>6. CASE b \notin Globals(c)
  <2>1. a \in Nat /\ a < z /\ z \in Nat
    BY <1>1, <1>4, <1>6
  <2>2. W * a + W <= W * z
    BY <1>2, <2>1, LessMul
  <2>3. a * W \in Int /\ (a + 1) * W - 1 \in Int /\ (a + 1) * W = a * W + W /\ a * W # z * W
    BY <1>2, <2>1, <2>2
  <2>4. IsFiniteSet((a * W)..((a + 1) * W - 1)) /\ IsFiniteSet({z * W})
    BY <2>3, FS_Interval, FS_Singleton
  <2>5. IsFiniteSet(Plan(c, b))
    BY <1>3, <1>6, <2>4, FS_Union
  <2>6. a * W \in Plan(c, b) /\ z * W \in Plan(c, b)
    BY <1>2, <1>3, <1>6, <2>3
  <2> QED BY <2>3, <2>5, <2>6, TwoElements
<1> QED BY <1>5, <1>6

(* UniformLRC: where the plan counts as many racks as the placement and at *)
(* most one row is larger, it names the racks of the lost block's row.     *)
LEMMA UniformPlans ==
    ASSUME NEW c \in Configs, c.code = "UniformLRC", ConfigAccepted(c), NEW b \in Blocks(c),
           Repairable(c, b)
    PROVE  Plan(c, b) = UniformFirstRack(c, RowOf(c, b))
                          ..(UniformFirstRack(c, RowOf(c, b)) + UniformRacks(c, RowOf(c, b)) - 1)
<1> DEFINE w == RowOf(c, b)
           s == (c.k + c.r) \div c.z
           m == (c.k + c.r) % c.z
           e == UniformSmaller(c)
           A == CeilDiv(s, c.r)
           B == CeilDiv(s + 1, c.r)
           f == UniformBefore(c, w, A, B)
<1>1. m <= 1 /\ \A row \in 0..(c.z - 1) : UniformPlanRacks(c, row) = UniformRacks(c, row)
  BY DEF Repairable
<1>2. w \in 0..(c.z - 1) /\ c.z \in Nat \ {0}
  BY UniformGroups, Sizes
<1>3. s \in Nat /\ m \in Nat /\ e = c.z - m /\ e \in 1..c.z
  BY UniformShape
<1>4. Plan(c, b) = f..(f + UniformPlanRacks(c, w) - 1)
  BY DEF Plan, UniformPlan, RowOf
<1>5. A = CeilDiv(s, c.r + 1)
  <2>1. 0 \in 0..(c.z - 1) /\ ~(0 >= e)
    BY <1>2, <1>3
  <2>2. UniformSize(c, 0) = s
    BY <1>3, <2>1 DEF UniformSize
  <2>3. UniformPlanRacks(c, 0) = UniformRacks(c, 0)
    BY <1>1, <2>1
  <2> QED BY <2>2, <2>3, Zenon DEF UniformPlanRacks, UniformRacks
<1>6. w <= e
  BY <1>1, <1>2, <1>3
<1>7. f = w * A
  BY <1>6 DEF UniformBefore
<1>8. UniformFirstRack(c, w) = w * CeilDiv(s, c.r + 1)
  BY <1>6 DEF UniformFirstRack, UniformBefore
<1> HIDE DEF f, A, w, s
<1>9. f = UniformFirstRack(c, w) /\ UniformPlanRacks(c, w) = UniformRacks(c, w)
  BY <1>1, <1>2, <1>5, <1>7, <1>8, Zenon
<1> QED BY <1>4, <1>9 DEF w

(* UniformLRC: with at most one larger row, the encoder's quotient is the  *)
(* row of a data block; globals within the last row are of that row.       *)
LEMMA UniformQuotient ==
    ASSUME NEW c \in Configs, c.code = "UniformLRC", ConfigAccepted(c), NEW b \in Blocks(c),
           Repairable(c, b), NEW i \in Nat, i < c.k + c.r
    PROVE  /\ i < c.k => UniformRow(c, i) = i \div ((c.k + c.r) \div c.z)
           /\ i >= c.k => UniformRow(c, i) = c.z - 1
<1> DEFINE s == (c.k + c.r) \div c.z
           m == (c.k + c.r) % c.z
           e == UniformSmaller(c)
           w == UniformRow(c, i)
<1>1. m <= 1 /\ c.r <= UniformSize(c, c.z - 1)
  BY DEF Repairable
<1>2. /\ s \in Nat \ {0} /\ m \in Nat /\ e = c.z - m /\ e \in 1..c.z
      /\ c.k + c.r = e * s + m * (s + 1)
      /\ UniformFirst(c, c.z) = c.k + c.r
  BY UniformShape
<1>3. c.k \in Nat /\ c.r \in Nat \ {0} /\ c.z \in Nat \ {0}
  BY Sizes
<1>4. w = IF i < e * s THEN i \div s ELSE e + ((i - e * s) \div (s + 1))
  BY DEF UniformRow
<1>5. /\ w \in 0..(c.z - 1)
      /\ i < UniformFirst(c, w) + UniformSize(c, w)
  BY UniformRowHolds
<1> HIDE DEF s, m, e, w
<1>6. ASSUME i < c.k, ~(i < e * s)
      PROVE  w = c.z - 1 /\ i \div s = c.z - 1
  <2>1. m = 1 /\ e = c.z - 1
    <3>1. m # 0
      <4> SUFFICES ASSUME m = 0 PROVE FALSE
        OBVIOUS
      <4>1. m * (s + 1) = 0 /\ e * s \in Nat
        BY <1>2, SMT
      <4> QED BY <1>2, <1>3, <1>6, <4>1
    <3> QED BY <1>1, <1>2, <3>1
  <2>2. c.k + c.r = e * s + (s + 1) /\ e * s \in Nat
    <3>1. m * (s + 1) = s + 1
      BY <1>2, <2>1
    <3>2. e * s \in Nat
      BY <1>2, SMT
    <3> QED BY <1>2, <3>1, <3>2
  <2>3. i - e * s \in 0..(s - 1)
    <3> DEFINE p == e * s
    <3>1. c.k + c.r = p + (s + 1) /\ p \in Nat /\ ~(i < p)
      BY <1>6, <2>2
    <3>2. s \in Nat /\ i < c.k
      BY <1>2, <1>6
    <3> HIDE DEF p
    <3>3. i - p \in 0..(s - 1)
      BY <1>3, <3>1, <3>2
    <3> QED BY <3>3 DEF p
  <2>4. (i - e * s) \div (s + 1) = 0
    <3>1. i - e * s = (s + 1) * 0 + (i - e * s)
      BY <1>2, <2>3
    <3>2. i - e * s \in Nat /\ s + 1 \in Nat \ {0} /\ i - e * s \in 0..((s + 1) - 1) /\ 0 \in Nat
      BY <1>2, <2>3
    <3> QED BY <3>1, <3>2, DivUnique, Zenon
  <2>5. i \div s = e
    <3>1. i = s * e + (i - e * s)
      <4> DEFINE p == e * s
                 q == s * e
      <4>1. q = p /\ p \in Nat
        BY <1>2, <2>2, SMT
      <4> HIDE DEF p, q
      <4>2. i = q + (i - p)
        BY <4>1
      <4> QED BY <4>2 DEF p, q
    <3>2. e \in Nat /\ s \in Nat \ {0}
      BY <1>2
    <3> QED BY <2>3, <3>1, <3>2, DivUnique, Zenon
  <2> QED BY <1>2, <1>4, <1>6, <2>1, <2>4, <2>5
<1>7. ASSUME i < c.k PROVE w = i \div s
  BY <1>4, <1>6, <1>7
<1>8. ASSUME i >= c.k PROVE w = c.z - 1
  <2> SUFFICES ASSUME w < c.z - 1 PROVE FALSE
    BY <1>3, <1>5
  <2>1. c.z - 1 \in Nat /\ w \in Nat /\ c.z \in Nat /\ c.z - 1 < c.z
    BY <1>3, <1>5
  <2>2. UniformFirst(c, w) + UniformSize(c, w) <= UniformFirst(c, c.z - 1)
    BY <2>1, UniformRows
  <2>3. UniformFirst(c, c.z - 1) + UniformSize(c, c.z - 1) <= UniformFirst(c, c.z)
    BY <2>1, UniformRows
  <2>4. /\ UniformFirst(c, w) \in Nat /\ UniformSize(c, w) \in Nat
        /\ UniformFirst(c, c.z - 1) \in Nat /\ UniformSize(c, c.z - 1) \in Nat
    BY <2>1, UniformRows
  <2> QED BY <1>1, <1>2, <1>3, <1>5, <1>8, <2>2, <2>3, <2>4
<1> QED BY <1>7, <1>8 DEF w, s

(* UniformLRC: the repair then reads the rest of the row's equation. *)
LEMMA UniformReads ==
    ASSUME NEW c \in Configs, c.code = "UniformLRC", ConfigAccepted(c), NEW b \in Blocks(c),
           Repairable(c, b)
    PROVE  Reads(c, b) \cup {b} = Equation(c, RowOf(c, b)) /\ RowOf(c, b) \in 0..(c.z - 1)
<1> DEFINE w == RowOf(c, b)
           G(x) == UniformFirstRack(c, x)
           R(x) == UniformRacks(c, x)
           P == G(w)..(G(w) + R(w) - 1)
           s == (c.k + c.r) \div c.z
<1>1. c.k \in Nat \ {0} /\ c.r \in Nat \ {0} /\ c.z \in Nat \ {0}
  BY Sizes
<1>2. \A i \in Blocks(c) :
        /\ RowOf(c, i) \in 0..(c.z - 1) /\ ColOf(c, i) \in 0..(R(RowOf(c, i)) - 1)
        /\ Group(c, i) = G(RowOf(c, i)) + ColOf(c, i)
  BY UniformGroups
<1>3. w \in 0..(c.z - 1)
  BY <1>2
<1>4. \A x \in 0..(c.z - 1) :
        /\ G(x) \in Nat /\ R(x) \in Nat
        /\ x < w => G(x) + R(x) <= G(w)
        /\ w < x => G(w) + R(w) <= G(x)
  <2> SUFFICES ASSUME NEW x \in 0..(c.z - 1)
               PROVE  /\ G(x) \in Nat /\ R(x) \in Nat
                      /\ x < w => G(x) + R(x) <= G(w)
                      /\ w < x => G(w) + R(w) <= G(x)
    OBVIOUS
  <2>1. x \in Nat /\ w \in Nat
    BY <1>3
  <2> QED BY <2>1, UniformRows
<1>5. Plan(c, b) = P
  BY UniformPlans
<1> HIDE DEF G, R, w
<1>6. \A i \in Blocks(c) : Group(c, i) \in P <=> RowOf(c, i) = w
  <2> SUFFICES ASSUME NEW i \in Blocks(c) PROVE Group(c, i) \in P <=> RowOf(c, i) = w
    OBVIOUS
  <2> DEFINE x == RowOf(c, i)
             y == ColOf(c, i)
  <2>1. x \in 0..(c.z - 1) /\ y \in 0..(R(x) - 1) /\ Group(c, i) = G(x) + y
    BY <1>2
  <2> HIDE DEF x, y
  <2>2. /\ G(x) \in Nat /\ R(x) \in Nat /\ G(w) \in Nat /\ R(w) \in Nat
        /\ x < w => G(x) + R(x) <= G(w)
        /\ w < x => G(w) + R(w) <= G(x)
    BY <1>3, <1>4, <2>1
  <2>3. y \in Nat /\ y < R(x) /\ G(x) + y \in Nat
    BY <2>1, <2>2
  <2>4. ASSUME x = w PROVE Group(c, i) \in P
    BY <2>1, <2>2, <2>3, <2>4
  <2>5. ASSUME x < w PROVE Group(c, i) \notin P
    BY <2>1, <2>2, <2>3, <2>5
  <2>6. ASSUME w < x PROVE Group(c, i) \notin P
    BY <2>1, <2>2, <2>3, <2>6
  <2>7. x < w \/ w < x \/ x = w
    BY <1>3, <2>1
  <2> QED BY <2>4, <2>5, <2>6, <2>7 DEF x
<1> HIDE DEF P
<1>7. Group(c, b) \in P
  BY <1>6 DEF w
<1>8. Helpers(c, b) = P
  BY <1>5, <1>7 DEF Helpers
<1>9. \A g \in P : Sent(c, b, g) = InGroup(c, g) \ {b}
  BY DEF Sent
<1>10. Reads(c, b) = {i \in Blocks(c) : Group(c, i) \in P} \ {b}
  BY <1>8, <1>9 DEF Reads, InGroup
<1>11. \A i \in Blocks(c) : RowOf(c, i) = w <=>
         \/ i \in Data(c) /\ i \div s = w
         \/ i \in Globals(c) /\ w = c.z - 1
         \/ i = LocalParity(c, w)
  <2> SUFFICES ASSUME NEW i \in Blocks(c)
               PROVE  RowOf(c, i) = w <=> \/ i \in Data(c) /\ i \div s = w
                                          \/ i \in Globals(c) /\ w = c.z - 1
                                          \/ i = LocalParity(c, w)
    OBVIOUS
  <2>0. LocalParity(c, w) \in Locals(c)
    BY <1>1, <1>3 DEF LocalParity, Locals
  <2>1. CASE i \in Data(c)
    <3>1. i \notin Locals(c) /\ i \notin Globals(c) /\ i \in Nat
      BY <2>1, Kinds
    <3>2. i < c.k /\ i < c.k + c.r
      BY <1>1, <2>1, <3>1 DEF Data
    <3>3. RowOf(c, i) = i \div s
      BY <3>1, <3>2, UniformQuotient DEF RowOf
    <3> QED BY <2>0, <2>1, <3>1, <3>3
  <2>2. CASE i \in Globals(c)
    <3>1. i \notin Locals(c) /\ i \notin Data(c) /\ i \in Nat
      BY <2>2, Kinds
    <3>2. i >= c.k /\ i < c.k + c.r
      BY <1>1, <2>2, <3>1 DEF Globals
    <3>3. RowOf(c, i) = c.z - 1
      BY <3>1, <3>2, UniformQuotient DEF RowOf
    <3> QED BY <2>0, <2>2, <3>1, <3>3
  <2>3. CASE i \in Locals(c)
    <3>1. i \notin Globals(c) /\ i \notin Data(c) /\ i \in Nat
      BY <2>3, Kinds
    <3>2. RowOf(c, i) = i - c.k - c.r
      BY <2>3 DEF RowOf
    <3>3. i - c.k - c.r = w <=> i = LocalParity(c, w)
      BY <1>1, <1>3, <3>1 DEF LocalParity
    <3> QED BY <3>1, <3>2, <3>3
  <2> QED BY <2>1, <2>2, <2>3, Kinds
<1>12. Equation(c, w) = {i \in Data(c) : i \div s = w}
                          \cup (IF w = c.z - 1 THEN Globals(c) ELSE {}) \cup {LocalParity(c, w)}
  BY DEF Equation, Operands
<1>13. Data(c) \subseteq Blocks(c) /\ Globals(c) \subseteq Blocks(c)
  BY <1>1 DEF Data, Globals, Blocks
<1>14. LocalParity(c, w) \in Blocks(c)
  BY <1>1, <1>3 DEF LocalParity, Blocks
<1>15. Reads(c, b) \cup {b} = {i \in Blocks(c) : RowOf(c, i) = w}
  BY <1>6, <1>7, <1>10
<1>16. \A i : i \in {j \in Blocks(c) : RowOf(c, j) = w} <=> i \in Equation(c, w)
  <2> HIDE DEF s
  <2> QED BY <1>11, <1>12, <1>13, <1>14
<1>17. Reads(c, b) \cup {b} = Equation(c, w)
  BY <1>15, <1>16
<1> QED BY <1>3, <1>17 DEF w

(* A repair that plans one group plans the lost block's own. *)
LEMMA OwnGroup ==
    ASSUME NEW c \in Configs, IsLrc(c), ConfigAccepted(c), NEW b \in Blocks(c),
           Cardinality(Plan(c, b)) = 1, InPlace(c, b)
    PROVE  Plan(c, b) = {Group(c, b)}
<1>1. CASE c.code = "UniLRC"
  BY <1>1 DEF Plan, Group
<1>2. CASE c.code = "AzureLRC"
  <2>1. CASE b \notin Globals(c)
    BY <1>2, <2>1 DEF Plan, AzurePlan, Group
  <2>2. CASE b \in Globals(c)
    <3>1. Plan(c, b) = 1..c.z /\ c.z \in Nat \ {0}
      BY <1>2, <2>2, Sizes DEF Plan, AzurePlan
    <3>2. Cardinality(1..c.z) = c.z
      BY <3>1, FS_Interval
    <3>3. Group(c, b) = c.z
      BY <1>2, <2>2, AzureGroups
    <3> QED BY <3>1, <3>2, <3>3
  <2> QED BY <2>1, <2>2
<1>3. CASE c.code = "OptimalLRC"
  BY <1>3, OptimalPlans
<1>4. CASE c.code = "UniformLRC"
  <2> DEFINE G == UniformFirstRack(c, RowOf(c, b))
             R == UniformRacks(c, RowOf(c, b))
             j == ColOf(c, b)
  <2>1. Plan(c, b) = G..(G + R - 1)
    BY <1>4, UniformPlans DEF InPlace
  <2>2. RowOf(c, b) \in 0..(c.z - 1) /\ j \in 0..(R - 1) /\ Group(c, b) = G + j
    BY <1>4, UniformGroups
  <2>3. RowOf(c, b) \in Nat
    BY <2>2
  <2>4. G \in Nat /\ R \in Nat \ {0}
    BY <1>4, <2>3, UniformRows
  <2> HIDE DEF G, R, j
  <2>5. Cardinality(G..(G + R - 1)) = R
    BY <2>4, FS_Interval
  <2>6. R = 1
    BY <2>1, <2>5
  <2>7. Plan(c, b) = {G} /\ j = 0
    BY <2>1, <2>2, <2>4, <2>6
  <2> QED BY <2>2, <2>4, <2>7
<1> QED BY <1>1, <1>2, <1>3, <1>4 DEF IsLrc

(* It then reads the rest of that group. *)
LEMMA OwnGroupReads ==
    ASSUME NEW c \in Configs, IsLrc(c), ConfigAccepted(c), NEW b \in Blocks(c),
           Cardinality(Plan(c, b)) = 1, InPlace(c, b)
    PROVE  Reads(c, b) = InGroup(c, Group(c, b)) \ {b}
<1>1. Helpers(c, b) = {Group(c, b)}
  BY OwnGroup DEF Helpers
<1>2. Sent(c, b, Group(c, b)) = InGroup(c, Group(c, b)) \ {b}
  BY DEF Sent
<1> QED BY <1>1, <1>2 DEF Reads

(* UniLRC: a group is an equation. *)
LEMMA UniEquation ==
    ASSUME NEW c \in Configs, c.code = "UniLRC", ConfigAccepted(c), NEW g \in 0..(c.z - 1)
    PROVE  InGroup(c, g) = Equation(c, g)
<1>1. c.k \in Nat /\ c.r \in Nat /\ c.z \in Nat
  BY Sizes
<1>2. \A i \in Blocks(c) :
        /\ i \in Nat /\ (i \in Data(c) \/ i \in Globals(c) \/ i \in Locals(c))
        /\ i \in Data(c) => Group(c, i) = i \div (c.k \div c.z)
        /\ i \in Globals(c) => Group(c, i) = (i - c.k) \div (c.r \div c.z)
        /\ i \in Locals(c) => Group(c, i) = i - c.k - c.r
  BY Kinds, UniGroups
<1>3. Data(c) \subseteq Blocks(c) /\ Globals(c) \subseteq Blocks(c)
  BY <1>1 DEF Data, Globals, Blocks
<1>4. LocalParity(c, g) \in Locals(c) /\ LocalParity(c, g) \in Blocks(c)
  BY <1>1 DEF LocalParity, Locals, Blocks
<1>5. \A i \in Locals(c) : i - c.k - c.r = g <=> i = LocalParity(c, g)
  BY <1>1 DEF LocalParity, Locals
<1>6. Equation(c, g) =
        {i \in Data(c) : i \div (c.k \div c.z) = g}
          \cup {i \in Globals(c) : (i - c.k) \div (c.r \div c.z) = g}
          \cup {LocalParity(c, g)}
  BY DEF Equation, Operands
<1> QED BY <1>2, <1>3, <1>4, <1>5, <1>6 DEF InGroup

(* AzureLRC: a local group is an equation. *)
LEMMA AzureEquation ==
    ASSUME NEW c \in Configs, c.code = "AzureLRC", ConfigAccepted(c), NEW g \in 0..(c.z - 1)
    PROVE  InGroup(c, g) = Equation(c, g)
<1>1. c.k \in Nat /\ c.r \in Nat /\ c.z \in Nat
  BY Sizes
<1>2. \A i \in Blocks(c) :
        /\ i \in Nat /\ (i \in Data(c) \/ i \in Globals(c) \/ i \in Locals(c))
        /\ i \in Data(c) => Group(c, i) = i \div (c.k \div c.z)
        /\ i \in Globals(c) => Group(c, i) = c.z
        /\ i \in Locals(c) => Group(c, i) = i - c.k - c.r
  BY Kinds, AzureGroups
<1>3. Data(c) \subseteq Blocks(c) /\ g # c.z
  BY <1>1 DEF Data, Blocks
<1>4. LocalParity(c, g) \in Locals(c) /\ LocalParity(c, g) \in Blocks(c)
  BY <1>1 DEF LocalParity, Locals, Blocks
<1>5. \A i \in Locals(c) : i - c.k - c.r = g <=> i = LocalParity(c, g)
  BY <1>1 DEF LocalParity, Locals
<1>6. Equation(c, g) = {i \in Data(c) : i \div (c.k \div c.z) = g} \cup {LocalParity(c, g)}
  BY DEF Equation, Operands
<1> QED BY <1>2, <1>3, <1>4, <1>5, <1>6 DEF InGroup

(* OptimalLRC: the repair of a local parity reads the racks of its local   *)
(* group and the globals, which is the rest of its equation.               *)
LEMMA OptimalLocalReads ==
    ASSUME NEW c \in Configs, c.code = "OptimalLRC", ConfigAccepted(c),
           NEW b \in Locals(c), (c.k \div c.z) % (c.r + 1) # 0
    PROVE  /\ Reads(c, b) \cup {b} = Equation(c, b - c.k - c.r)
           /\ b - c.k - c.r \in 0..(c.z - 1) /\ b \in Blocks(c)
           /\ \A i \in Reads(c, b) : i \notin Locals(c)
<1> DEFINE L == c.k \div c.z
           M == c.r + 1
           R == OptimalRacks(c)
           z == c.z
           a == b - c.k - c.r
           P == (R * a)..(R * a + R - 1) \cup {R * z}
<1>1. /\ c.k \in Nat \ {0} /\ c.r \in Nat \ {0} /\ z \in Nat \ {0}
      /\ R \in Nat \ {0} /\ R = (L \div M) + 1 /\ L \in Nat \ {0} /\ c.k = L * z
  BY Sizes, OptimalShape
<1>2. b \in Blocks(c) /\ b \notin Globals(c) /\ b \notin Data(c) /\ a \in 0..(z - 1)
      /\ b = LocalParity(c, a)
  BY <1>1 DEF Locals, Blocks, Globals, Data, LocalParity
<1>3. Plan(c, b) = (a * R)..((a + 1) * R - 1) \cup {z * R}
  BY <1>1, <1>2 DEF Plan, OptimalPlan
<1>4. Group(c, b) = R * a + (R - 1)
  BY <1>2, OptimalGroups
<1> HIDE DEF L, M, R, z, a
<1>5. Plan(c, b) = P /\ Group(c, b) \in P /\ R * a \in Nat /\ R * z \in Nat
  <2>1. a * R = R * a /\ (a + 1) * R - 1 = R * a + R - 1 /\ z * R = R * z
    BY <1>1, <1>2
  <2>2. R * a \in Nat /\ R * z \in Nat
    BY <1>1, <1>2
  <2>3. R * a + (R - 1) \in (R * a)..(R * a + R - 1)
    BY <1>1, <2>2
  <2> QED BY <1>3, <1>4, <2>1, <2>2, <2>3
<1> HIDE DEF P
<1>6. Helpers(c, b) = P
  BY <1>2, <1>5, OptimalPlans DEF Helpers
<1>7. \A g \in P : Sent(c, b, g) = InGroup(c, g) \ {b}
  BY DEF Sent
<1>8. Reads(c, b) = {i \in Blocks(c) : Group(c, i) \in P} \ {b}
  BY <1>6, <1>7 DEF Reads, InGroup
<1>9. \A i \in Blocks(c) : Group(c, i) \in P <=>
        \/ i \in Data(c) /\ i \div L = a
        \/ i \in Globals(c)
        \/ i = b
  <2> SUFFICES ASSUME NEW i \in Blocks(c)
               PROVE  Group(c, i) \in P <=> \/ i \in Data(c) /\ i \div L = a
                                            \/ i \in Globals(c)
                                            \/ i = b
    OBVIOUS
  <2>1. \A x \in 0..(z - 1) : \A y \in 0..(R - 1) :
          R * x + y \in (R * a)..(R * a + R - 1) <=> x = a
    <3> SUFFICES ASSUME NEW x \in 0..(z - 1), NEW y \in 0..(R - 1)
                 PROVE  R * x + y \in (R * a)..(R * a + R - 1) <=> x = a
      OBVIOUS
    <3>1. x < a => R * x + R <= R * a
      BY <1>1, <1>2, LessMul
    <3>2. a < x => R * a + R <= R * x
      BY <1>1, <1>2, LessMul
    <3>3. R * x \in Nat /\ R * a \in Nat
      BY <1>1, <1>5
    <3> QED BY <1>1, <1>2, <3>1, <3>2, <3>3
  <2>2. CASE i \in Data(c)
    <3>1. i \div L \in 0..(z - 1) /\ \E y \in 0..(R - 1) : Group(c, i) = R * (i \div L) + y
      BY <2>2, OptimalGroups DEF R, L, z
    <3>2. Group(c, i) < R * z
      BY <2>2, OptimalGroups DEF R, z
    <3>3. Group(c, i) # R * z
      BY <1>5, <3>2, OptimalGroups DEF R, z
    <3>4. i \notin Globals(c) /\ i # b
      BY <1>2, <2>2, Kinds
    <3> QED BY <2>1, <2>2, <3>1, <3>3, <3>4 DEF P
  <2>3. CASE i \in Globals(c)
    BY <2>3, OptimalGroups DEF P, R, z
  <2>4. CASE i \in Locals(c)
    <3>1. i - c.k - c.r \in 0..(z - 1) /\ Group(c, i) = R * (i - c.k - c.r) + (R - 1)
          /\ Group(c, i) < R * z
      BY <2>4, OptimalGroups DEF R, z
    <3>2. R - 1 \in 0..(R - 1) /\ Group(c, i) # R * z
      BY <1>1, <1>5, <3>1, OptimalGroups DEF R, z
    <3>3. i - c.k - c.r = a <=> i = b
      BY <1>1, <2>4 DEF a, Locals
    <3>4. i \notin Data(c) /\ i \notin Globals(c)
      BY <2>4, Kinds
    <3> QED BY <2>1, <3>1, <3>2, <3>3, <3>4 DEF P
  <2> QED BY <2>2, <2>3, <2>4, Kinds
<1>10. Equation(c, a) = {i \in Data(c) : i \div L = a} \cup Globals(c) \cup {b}
  BY <1>2 DEF Equation, Operands, L, z
<1>11. Data(c) \subseteq Blocks(c) /\ Globals(c) \subseteq Blocks(c)
  BY <1>1 DEF Data, Globals, Blocks, z
<1>12. Reads(c, b) \cup {b} = Equation(c, a)
  BY <1>2, <1>8, <1>9, <1>10, <1>11
<1>13. \A i \in Reads(c, b) : i \in Data(c) \/ i \in Globals(c)
  BY <1>8, <1>9
<1> QED BY <1>2, <1>8, <1>12, <1>13, Kinds DEF a, z

(* The first n of at most n blocks are all of them. *)
LEMMA FirstAll ==
    ASSUME NEW S \in SUBSET Int, IsFiniteSet(S), NEW n \in Nat, Cardinality(S) <= n
    PROVE  FirstOf(S, n) = S
<1> SUFFICES ASSUME NEW i \in S PROVE Cardinality({h \in S : h < i}) < n
  BY DEF FirstOf
<1> DEFINE B == {h \in S : h < i}
<1>1. IsFiniteSet(S \ {i}) /\ Cardinality(S \ {i}) = Cardinality(S) - 1
  BY FS_RemoveElement
<1>2. B \subseteq S \ {i}
  OBVIOUS
<1> HIDE DEF B
<1>3. IsFiniteSet(B) /\ Cardinality(B) <= Cardinality(S \ {i})
  BY <1>1, <1>2, FS_Subset
<1>4. Cardinality(B) \in Nat /\ Cardinality(S) \in Nat
  BY <1>3, FS_CardinalityType
<1> QED BY <1>1, <1>3, <1>4 DEF B

(* The first n numbers of an interval that lacks one of them. *)
Skipping(lo, b, n) == IF b < lo + n THEN (lo..(lo + n)) \ {b} ELSE lo..(lo + n - 1)

LEMMA FirstWithout ==
    ASSUME NEW lo \in Nat, NEW hi \in Nat, NEW b \in lo..hi, NEW n \in Nat, n <= hi - lo
    PROVE  /\ FirstOf((lo..hi) \ {b}, n) = Skipping(lo, b, n)
           /\ Cardinality(FirstOf((lo..hi) \ {b}, n)) = n
<1> DEFINE S == (lo..hi) \ {b}
           B(i) == {h \in S : h < i}
           F == IF b < lo + n THEN (lo..(lo + n)) \ {b} ELSE lo..(lo + n - 1)
<1>1. \A i \in S : Cardinality(B(i)) = IF i < b THEN i - lo ELSE i - lo - 1
  <2> SUFFICES ASSUME NEW i \in S
               PROVE  Cardinality(B(i)) = IF i < b THEN i - lo ELSE i - lo - 1
    OBVIOUS
  <2>1. lo \in Int /\ i - 1 \in Int /\ i >= lo /\ i # b
    OBVIOUS
  <2>2. IsFiniteSet(lo..(i - 1)) /\ Cardinality(lo..(i - 1)) = i - lo
    <3>1. IsFiniteSet(lo..(i - 1))
          /\ Cardinality(lo..(i - 1)) = IF lo > i - 1 THEN 0 ELSE (i - 1) - lo + 1
      BY <2>1, FS_Interval, Zenon
    <3> QED BY <2>1, <3>1
  <2>3. ASSUME i < b PROVE Cardinality(B(i)) = i - lo
    <3>1. B(i) = lo..(i - 1)
      BY <2>3
    <3> QED BY <2>2, <3>1
  <2>4. ASSUME i > b PROVE Cardinality(B(i)) = i - lo - 1
    <3>1. B(i) = (lo..(i - 1)) \ {b} /\ b \in lo..(i - 1)
      BY <2>4
    <3>2. Cardinality((lo..(i - 1)) \ {b}) = Cardinality(lo..(i - 1)) - 1
      BY <2>2, <3>1, FS_RemoveElement, Zenon
    <3> QED BY <2>2, <3>1, <3>2, Zenon
  <2> HIDE DEF B
  <2> QED BY <2>1, <2>3, <2>4
<1>2. FirstOf(S, n) = {i \in S : Cardinality(B(i)) < n}
  BY DEF FirstOf
<1> HIDE DEF B
<1>3. FirstOf(S, n) = F
  <2>1. \A i \in S : Cardinality(B(i)) < n <=> i \in F
    <3> SUFFICES ASSUME NEW i \in S PROVE Cardinality(B(i)) < n <=> i \in F
      OBVIOUS
    <3>1. Cardinality(B(i)) = IF i < b THEN i - lo ELSE i - lo - 1
      BY <1>1
    <3> QED BY <3>1
  <2>2. F \subseteq S
    OBVIOUS
  <2> HIDE DEF F, S
  <2> QED BY <1>2, <2>1, <2>2
<1>4. Cardinality(F) = n
  <2>1. CASE b < lo + n
    <3>1. lo \in Int /\ lo + n \in Int /\ ~(lo > lo + n)
      OBVIOUS
    <3>2. IsFiniteSet(lo..(lo + n)) /\ Cardinality(lo..(lo + n)) = (lo + n) - lo + 1
      BY <3>1, FS_Interval, Zenon
    <3>3. b \in lo..(lo + n)
      BY <2>1
    <3>4. Cardinality((lo..(lo + n)) \ {b}) = Cardinality(lo..(lo + n)) - 1
      BY <3>2, <3>3, FS_RemoveElement, Zenon
    <3> QED BY <2>1, <3>2, <3>4
  <2>2. CASE ~(b < lo + n)
    <3>1. lo \in Int /\ lo + n - 1 \in Int
      OBVIOUS
    <3>2. Cardinality(lo..(lo + n - 1)) = IF lo > lo + n - 1 THEN 0 ELSE (lo + n - 1) - lo + 1
      BY <3>1, FS_Interval, Zenon
    <3> QED BY <2>2, <3>2
  <2> QED BY <2>1, <2>2
<1> QED BY <1>3, <1>4 DEF Skipping

(* AzureLRC: the repair of a global parity reads the k rows its decoder    *)
(* inverts.                                                                *)
LEMMA AzureGlobalReads ==
    ASSUME NEW c \in Configs, c.code = "AzureLRC", ConfigAccepted(c), NEW b \in Globals(c),
           c.k \div c.z <= c.r - 1, c.z = 1 => c.k = c.r - 1
    PROVE  Reads(c, b) = RepairRows(c, b) /\ Cardinality(RepairRows(c, b)) = c.k
<1> DEFINE k == c.k
           r == c.r
           z == c.z
           L == k \div z
           D(g) == InGroup(c, g) \ Locals(c)
<1>1. /\ k \in Nat \ {0} /\ r \in Nat \ {0} /\ z \in Nat \ {0}
      /\ L \in Nat \ {0} /\ k = L * z /\ L <= r - 1 /\ (z = 1 => k = r - 1)
  BY Sizes, AzureShape
<1>2. b \in Blocks(c) /\ b \in k..(k + r - 1)
  BY <1>1 DEF Globals, Blocks
<1>3. InGroup(c, z) = k..(k + r - 1) /\ Group(c, b) = z
  <2>1. Globals(c) \subseteq Blocks(c)
    BY <1>1 DEF Globals, Blocks
  <2>2. \A i \in Blocks(c) : Group(c, i) = z <=> i \in Globals(c)
    <3> SUFFICES ASSUME NEW i \in Blocks(c) PROVE Group(c, i) = z <=> i \in Globals(c)
      OBVIOUS
    <3>1. Group(c, i) \in Int /\ (i \in Data(c) \/ i \in Globals(c) \/ i \in Locals(c))
      BY AzureGroups, Kinds
    <3> QED BY <1>1, <3>1, AzureGroups
  <2> QED BY <1>2, <2>1, <2>2 DEF InGroup, Globals
<1>4. Plan(c, b) = 1..z /\ Cardinality(1..z) = z
  <2>1. Plan(c, b) = 1..z
    BY DEF Plan, AzurePlan
  <2>2. Cardinality(1..z) = z
    BY <1>1, FS_Interval
  <2> QED BY <2>1, <2>2
<1> HIDE DEF k, r, z, L
<1>5. RepairRows(c, b) = FirstOf((L..(k + r - 1)) \ {b}, k)
  BY DEF RepairRows, L, k, r, z
<1>6. L <= k
  BY <1>1
<1>7. /\ RepairRows(c, b) = Skipping(L, b, k)
      /\ Cardinality(RepairRows(c, b)) = k
  <2> DEFINE hi == k + r - 1
  <2>1. L \in Nat /\ hi \in Nat /\ k \in Nat /\ b \in L..hi /\ k <= hi - L
    BY <1>1, <1>2, <1>6
  <2>2. RepairRows(c, b) = FirstOf((L..hi) \ {b}, k)
    BY <1>5
  <2> HIDE DEF hi
  <2>3. /\ FirstOf((L..hi) \ {b}, k) = Skipping(L, b, k)
        /\ Cardinality(FirstOf((L..hi) \ {b}, k)) = k
    BY <2>1, FirstWithout, Zenon
  <2> QED BY <2>2, <2>3
<1>8. CASE z = 1
  <2>1. Reads(c, b) = (k..(k + r - 1)) \ {b}
    <3>1. Cardinality(Plan(c, b)) = 1
      BY <1>4, <1>8
    <3> QED BY <1>2, <1>3, <3>1, OwnGroupReads DEF IsLrc, InPlace
  <2>2. L = k /\ k = r - 1
    BY <1>1, <1>8
  <2> QED BY <1>1, <1>2, <1>7, <2>1, <2>2 DEF Skipping, k
<1>9. CASE z # 1
  <2>1. Helpers(c, b) = 1..z
    <3>1. Cardinality(Plan(c, b)) # 1
      BY <1>4, <1>9
    <3>2. (1..z) \cup {z} = 1..z
      BY <1>1
    <3> QED BY <1>3, <1>4, <3>1, <3>2 DEF Helpers
  <2>2. \A g \in 1..(z - 1) : Sent(c, b, g) = D(g)
    <3> SUFFICES ASSUME NEW g \in 1..(z - 1) PROVE Sent(c, b, g) = D(g)
      OBVIOUS
    <3>1. g \in 0..z /\ g < z /\ g # z
      BY <1>1
    <3>2. Sent(c, b, g) = FirstOf((InGroup(c, g) \ {b}) \ Locals(c), L)
      BY <1>3, <1>4, <1>9, <3>1 DEF Sent, L, k, z
    <3>3. (InGroup(c, g) \ {b}) \ Locals(c) = D(g)
      BY <1>3, <3>1 DEF InGroup
    <3>4. IsFiniteSet(D(g)) /\ Cardinality(D(g)) <= L
      BY <3>1, AzureLoad DEF L, k, z
    <3>5. D(g) \in SUBSET Int
      BY Kinds DEF InGroup
    <3> HIDE DEF D
    <3> QED BY <1>1, <3>2, <3>3, <3>4, <3>5, FirstAll
  <2>3. Sent(c, b, z) = FirstOf((k..(k + r - 1)) \ {b}, L)
    BY <1>3, <1>4, <1>9 DEF Sent, L, k, z
  <2>4. Sent(c, b, z) = Skipping(k, b, L)
    <3> DEFINE hi == k + r - 1
    <3>1. k \in Nat /\ hi \in Nat /\ L \in Nat /\ b \in k..hi /\ L <= hi - k
      BY <1>1, <1>2
    <3>2. Sent(c, b, z) = FirstOf((k..hi) \ {b}, L)
      BY <2>3
    <3> HIDE DEF hi
    <3> QED BY <3>1, <3>2, FirstWithout, Zenon
  <2>5. UNION {D(g) : g \in 1..(z - 1)} = L..(k - 1)
    <3>1. \A i \in Blocks(c) : i \notin Locals(c) /\ Group(c, i) \in 1..(z - 1) <=>
                                 i \in L..(k - 1)
      <4> SUFFICES ASSUME NEW i \in Blocks(c)
                   PROVE  i \notin Locals(c) /\ Group(c, i) \in 1..(z - 1) <=> i \in L..(k - 1)
        OBVIOUS
      <4>1. CASE i \in Data(c)
        <5>1. Group(c, i) = i \div L /\ Group(c, i) < z /\ i \in Nat /\ i < k /\ i \notin Locals(c)
          BY <1>1, <4>1, AzureGroups, Kinds DEF L, k, z, Data
        <5>2. i \div L \in Nat /\ i % L \in 0..(L - 1) /\ i = (L * (i \div L)) + (i % L)
          BY <1>1, <5>1, DivMod, Zenon
        <5> DEFINE d == i \div L
                   m == i % L
        <5> HIDE DEF d, m
        <5>3. d \in Nat /\ m \in 0..(L - 1) /\ i = L * d + m /\ Group(c, i) = d /\ d < z
          BY <5>1, <5>2 DEF d, m
        <5>4. d >= 1 <=> i >= L
          BY <1>1, <5>3
        <5> QED BY <1>1, <5>1, <5>3, <5>4
      <4>2. CASE i \in Globals(c)
        <5>1. Group(c, i) = z /\ i >= k
          BY <1>1, <4>2, AzureGroups DEF Globals, k, z
        <5> QED BY <1>1, <5>1
      <4>3. CASE i \in Locals(c)
        BY <1>1, <4>3 DEF Locals, k, r, z
      <4> QED BY <4>1, <4>2, <4>3, Kinds
    <3>2. L..(k - 1) \subseteq Blocks(c)
      BY <1>1 DEF Blocks, k, r, z
    <3>3. UNION {D(g) : g \in 1..(z - 1)} =
            {i \in Blocks(c) : i \notin Locals(c) /\ Group(c, i) \in 1..(z - 1)}
      BY DEF InGroup
    <3> QED BY <3>1, <3>2, <3>3
  <2>6. Reads(c, b) = (UNION {D(g) : g \in 1..(z - 1)}) \cup Sent(c, b, z)
    <3>1. 1..z = 1..(z - 1) \cup {z}
      BY <1>1
    <3>2. Reads(c, b) = (UNION {Sent(c, b, g) : g \in 1..(z - 1)}) \cup Sent(c, b, z)
      BY <2>1, <3>1 DEF Reads
    <3> HIDE DEF D
    <3> QED BY <2>2, <3>2
  <2>7. Reads(c, b) = (L..(k - 1)) \cup Skipping(k, b, L)
    BY <2>4, <2>5, <2>6, Zenon
  <2> HIDE DEF D
  <2>8. Reads(c, b) = RepairRows(c, b)
    BY <1>1, <1>2, <1>6, <1>7, <2>7 DEF Skipping
  <2> QED BY <1>7, <2>8 DEF k
<1> QED BY <1>8, <1>9

(* Where the code's three computations agree, a repair sends its decoder   *)
(* exactly the blocks it needs.                                            *)
LEMMA ReadsFit ==
    ASSUME NEW c \in Configs, IsLrc(c), ConfigAccepted(c), NEW b \in Blocks(c), Repairable(c, b)
    PROVE  DecoderFits(c, b, Reads(c, b))
<1>1. ASSUME NEW g \in 0..(c.z - 1), Plan(c, b) = {Group(c, b)}, Group(c, b) = g,
             InGroup(c, g) = Equation(c, g)
      PROVE  Reads(c, b) \cup {b} \in EquationsOf(c, b)
  <2>1. Cardinality(Plan(c, b)) = 1
    BY <1>1, FS_Singleton
  <2>2. Reads(c, b) = InGroup(c, g) \ {b}
    BY <1>1, <2>1, OwnGroupReads DEF InPlace
  <2>3. b \in InGroup(c, g)
    BY <1>1 DEF InGroup
  <2> QED BY <1>1, <2>2, <2>3 DEF EquationsOf
<1>2. CASE c.code = "UniLRC"
  <2>1. Plan(c, b) = {Group(c, b)}
    BY <1>2 DEF Plan, Group
  <2>2. Group(c, b) \in 0..(c.z - 1)
    BY <1>2, UniGroups
  <2>3. Reads(c, b) \cup {b} \in EquationsOf(c, b)
    BY <1>1, <1>2, <2>1, <2>2, UniEquation
  <2> QED BY <1>2, <2>3 DEF DecoderFits
<1>3. CASE c.code = "AzureLRC" /\ b \notin Globals(c)
  <2>1. Plan(c, b) = {Group(c, b)}
    BY <1>3 DEF Plan, AzurePlan, Group
  <2>2. Group(c, b) \in 0..(c.z - 1)
    <3>1. Group(c, b) < c.z /\ Group(c, b) \in 0..c.z
      BY <1>3, AzureGroups, Kinds DEF IsLrc
    <3>2. c.z \in Nat
      BY <1>3, Sizes
    <3> QED BY <3>1, <3>2
  <2>3. Reads(c, b) \cup {b} \in EquationsOf(c, b)
    BY <1>1, <1>3, <2>1, <2>2, AzureEquation
  <2> QED BY <1>3, <2>3 DEF DecoderFits
<1>4. CASE c.code = "AzureLRC" /\ b \in Globals(c)
  <2>1. c.k \div c.z <= c.r - 1 /\ (c.z = 1 => c.k = c.r - 1)
    BY <1>4 DEF Repairable
  <2> QED BY <1>4, <2>1, AzureGlobalReads DEF DecoderFits
<1>5. CASE c.code = "OptimalLRC"
  <2>1. b \in Locals(c) /\ (c.k \div c.z) % (c.r + 1) # 0
    BY <1>5 DEF Repairable
  <2> DEFINE g == b - c.k - c.r
  <2>2. /\ Reads(c, b) \cup {b} = Equation(c, g) /\ g \in 0..(c.z - 1)
        /\ \A i \in Reads(c, b) : i \notin Locals(c)
    BY <1>5, <2>1, OptimalLocalReads
  <2> HIDE DEF g
  <2>3. Reads(c, b) \cup {b} \in EquationsOf(c, b)
    BY <2>2 DEF EquationsOf
  <2>4. ASSUME NEW h \in Groups(c), NEW x \in Reads(c, b) \cap InGroup(c, h), x \in Data(c),
               NEW y \in Reads(c, b) \cap InGroup(c, h)
        PROVE  y \in Data(c)
    <3>1. x \in Blocks(c) /\ y \in Blocks(c) /\ Group(c, x) = Group(c, y)
      BY DEF InGroup
    <3>2. OptimalRacks(c) * c.z \in Nat /\ Group(c, x) \in Nat
      BY <1>5, <3>1, Sizes, OptimalShape, OptimalGroups
    <3>3. y \notin Globals(c)
      BY <1>5, <2>4, <3>1, <3>2, OptimalGroups
    <3> QED BY <1>5, <2>2, <3>1, <3>3, Kinds
  <2>5. \A h \in Groups(c) : LET list == Reads(c, b) \cap InGroup(c, h)
                             IN  list \cap Data(c) = {} \/ list \subseteq Data(c)
    BY <2>4
  <2> QED BY <1>5, <2>3, <2>5 DEF DecoderFits
<1>6. CASE c.code = "UniformLRC"
  <2> DEFINE g == RowOf(c, b)
  <2>1. Reads(c, b) \cup {b} = Equation(c, g) /\ g \in 0..(c.z - 1)
    BY <1>6, UniformReads
  <2> HIDE DEF g
  <2>2. Reads(c, b) \cup {b} \in EquationsOf(c, b)
    BY <2>1 DEF EquationsOf
  <2> QED BY <1>6, <2>2 DEF DecoderFits
<1> QED BY <1>2, <1>3, <1>4, <1>5, <1>6 DEF IsLrc

(* The rack a repair picks for the new copy is the lost block's, where the *)
(* plan of UniformLRC names the racks of the lost block's row.             *)
LEMMA RepairInPlace ==
    ASSUME cfg \in Configs, IsLrc(cfg), ConfigAccepted(cfg), NEW sid \in Nat,
           placed[sid] = Placement(cfg, sid), NEW b \in Blocks(cfg), InPlace(cfg, b)
    PROVE  RepairRack(sid, b) = RackOf(cfg, sid, b)
<1>1. \A i \in Blocks(cfg) : placed[sid][i][1] = RackOf(cfg, sid, i)
  BY DEF Placement
<1>2. CASE Cardinality(Plan(cfg, b)) # 1
  BY <1>1, <1>2 DEF RepairRack
<1>3. CASE Cardinality(Plan(cfg, b)) = 1
  <2> DEFINE g == Group(cfg, b)
             source == CHOOSE i \in InGroup(cfg, g) : TRUE
  <2>1. Plan(cfg, b) = {g}
    BY <1>3, OwnGroup
  <2>2. g \in Int
    BY GroupRange
  <2>3. Min(Plan(cfg, b)) = g
    BY <2>1, <2>2 DEF Min
  <2>4. b \in InGroup(cfg, g)
    BY DEF InGroup
  <2>5. source \in InGroup(cfg, g)
    BY <2>4
  <2>6. source \in Blocks(cfg) /\ Group(cfg, source) = g
    BY <2>5 DEF InGroup
  <2>7. RepairRack(sid, b) = placed[sid][source][1]
    BY <1>3, <2>3 DEF RepairRack
  <2>8. RackOf(cfg, sid, source) = RackOf(cfg, sid, b)
    BY <2>6 DEF RackOf
  <2> QED BY <1>1, <2>6, <2>7, <2>8
<1> QED BY <1>2, <1>3

(* UniLRC and, unless the local groups fill their racks exactly,           *)
(* OptimalLRC: the rack of a lost block has a node free of the stripe.     *)
LEMMA SpareForRepair ==
    ASSUME cfg \in Configs, cfg.code \in {"UniLRC", "OptimalLRC"}, ConfigAccepted(cfg),
           cfg.code = "UniLRC" \/ (cfg.k \div cfg.z) % (cfg.r + 1) # 0,
           NEW sid \in Nat, placed[sid] = Placement(cfg, sid), NEW b \in Blocks(cfg)
    PROVE  SpareNode(sid, RepairRack(sid, b))
<1>1. RepairRack(sid, b) = RackOf(cfg, sid, b)
  BY RepairInPlace DEF IsLrc, InPlace
<1>2. {i \in Blocks(cfg) : placed[sid][i][1] = RackOf(cfg, sid, b)}
        = InGroup(cfg, Group(cfg, b))
  BY RackBlocks DEF IsLrc
<1>3. Cardinality(InGroup(cfg, Group(cfg, b))) < DatanodeNumPerCluster
  BY GroupFits
<1> QED BY <1>1, <1>2, <1>3 DEF SpareNode

(* A stripe survives the loss of the rack of any of its blocks. *)
LEMMA RackLoss ==
    ASSUME NEW c \in Configs, IsLrc(c), ConfigAccepted(c), NEW b \in Blocks(c),
           ToleratesRackLoss(c)
    PROVE  LET lost == InGroup(c, Group(c, b))
               mds  == lost \ Locals(c)
           IN  \/ Cardinality(mds) <= c.r
               \/ /\ Cardinality(mds) <= c.r + 1
                  /\ \E g \in 0..(c.z - 1) : /\ LocalParity(c, g) \notin lost
                                             /\ Operands(c, g) \cap mds # {}
<1> DEFINE lost == InGroup(c, Group(c, b))
           mds  == lost \ Locals(c)
<1>1. c.k \in Nat /\ c.r \in Nat /\ c.z \in Nat \ {0}
  BY Sizes DEF IsLrc
<1>2. CASE c.code = "UniLRC"
  <2>1. Group(c, b) \in 0..(c.z - 1)
    BY <1>2, UniGroups
  <2>2. Cardinality(mds) <= c.r
    BY <1>2, <2>1, UniLoad
  <2> QED BY <2>2
<1>3. CASE c.code = "AzureLRC"
  <2>1. Group(c, b) \in 0..c.z
    BY <1>3, AzureGroups
  <2>2. Cardinality(mds) \in Nat
        /\ (Cardinality(mds) <= c.r \/ Cardinality(mds) <= c.k \div c.z)
    BY <1>3, <2>1, AzureLoad
  <2>3. c.k \div c.z <= c.r /\ c.k \div c.z \in Nat
    BY <1>3, AzureShape DEF ToleratesRackLoss
  <2>4. Cardinality(mds) <= c.r
    BY <1>1, <2>2, <2>3
  <2> QED BY <2>4
<1>4. CASE c.code = "OptimalLRC"
  <2>1. Group(c, b) \in 0..(OptimalRacks(c) * c.z)
    BY <1>4, OptimalGroups
  <2>2. (c.k \div c.z) % (c.r + 1) # 0
    BY <1>4 DEF ToleratesRackLoss
  <2>3. /\ Cardinality(mds) <= c.r + 1
        /\ \A i \in lost \cap Locals(c) : Cardinality(mds) <= c.r
    BY <1>4, <2>1, <2>2, OptimalLoad
  <2>4. CASE lost \cap Locals(c) # {}
    BY <2>3, <2>4
  <2>5. CASE lost \cap Locals(c) = {}
    <3>1. b \in mds
      BY <2>5 DEF InGroup
    <3>2. \A g \in 0..(c.z - 1) : LocalParity(c, g) \notin lost
      BY <1>1, <2>5 DEF LocalParity, Locals
    <3>3. \E g \in 0..(c.z - 1) : b \in Operands(c, g)
      <4>1. CASE b \in Data(c)
        <5>1. b \div (c.k \div c.z) \in 0..(c.z - 1)
          BY <1>4, <4>1, OptimalGroups
        <5> QED BY <1>4, <4>1, <5>1 DEF Operands
      <4>2. CASE b \in Globals(c)
        <5>1. 0 \in 0..(c.z - 1)
          BY <1>1
        <5> QED BY <1>4, <4>2, <5>1 DEF Operands
      <4> QED BY <3>1, <4>1, <4>2, Kinds DEF IsLrc
    <3> HIDE DEF lost, mds
    <3> QED BY <2>3, <3>1, <3>2, <3>3 DEF lost, mds
  <2> QED BY <2>4, <2>5
<1>5. CASE c.code = "UniformLRC"
  <2> DEFINE s == (c.k + c.r) \div c.z
             m == (c.k + c.r) % c.z
  <2>1. RowOf(c, b) \in 0..(c.z - 1)
    BY <1>5, UniformGroups
  <2>2. m <= c.r /\ UniformSize(c, RowOf(c, b)) % (c.r + 1) # 0
    BY <1>5, <2>1 DEF ToleratesRackLoss
  <2>3. /\ Cardinality(mds) <= c.r + 1
        /\ \A i \in lost \cap Locals(c) : Cardinality(mds) <= c.r
    BY <1>5, <2>2, UniformLoad
  <2>4. CASE lost \cap Locals(c) # {}
    BY <2>3, <2>4
  <2>5. CASE lost \cap Locals(c) = {}
    <3>1. b \in mds
      BY <2>5 DEF InGroup
    <3>2. \A g \in 0..(c.z - 1) : LocalParity(c, g) \notin lost
      BY <1>1, <2>5 DEF LocalParity, Locals
    <3>3. \E g \in 0..(c.z - 1) : b \in Operands(c, g)
      <4>1. CASE b \in Data(c)
        <5>1. s \in Nat \ {0} /\ m \in Nat /\ c.k + c.r = s * c.z + m
          BY <1>5, UniformShape
        <5>2. b \in Nat /\ b < c.k
          BY <1>1, <4>1 DEF Data
        <5> HIDE DEF s, m
        <5>3. b < s * c.z
          <6> DEFINE p == s * c.z
          <6>1. p \in Nat /\ c.k + c.r = p + m /\ m \in Nat
            BY <1>1, <5>1
          <6> HIDE DEF p
          <6>2. b < p
            BY <1>1, <2>2, <5>2, <6>1
          <6> QED BY <6>2 DEF p
        <5>4. c.z \in Nat
          BY <1>1
        <5>5. b \div s \in Nat /\ b \div s < c.z
          BY <5>1, <5>2, <5>3, <5>4, DivBound, DivMod, Zenon
        <5>6. b \div s \in 0..(c.z - 1)
          BY <1>1, <5>5
        <5> QED BY <1>5, <4>1, <5>6 DEF Operands, s
      <4>2. CASE b \in Globals(c)
        <5>1. c.z - 1 \in 0..(c.z - 1)
          BY <1>1
        <5> QED BY <1>5, <4>2, <5>1 DEF Operands
      <4> QED BY <3>1, <4>1, <4>2, Kinds DEF IsLrc
    <3> HIDE DEF lost, mds
    <3> QED BY <2>3, <3>1, <3>2, <3>3 DEF lost, mds
  <2> QED BY <2>4, <2>5
<1> QED BY <1>2, <1>3, <1>4, <1>5 DEF IsLrc

-----------------------------------------------------------------------------
(***************************************************************************)
(* The inductive invariant: what the table and the repairs hold is what    *)
(* the placement and the plan compute from the configuration.              *)
(***************************************************************************)
Recorded ==
    /\ nextId \in Nat /\ DOMAIN placed \subseteq Nat
    /\ \A sid \in DOMAIN placed : placed[sid] = Placement(cfg, sid)
    /\ \A rep \in repaired :
         /\ rep.stripe \in DOMAIN placed /\ rep.block \in Blocks(cfg)
         /\ rep.reads = Reads(cfg, rep.block)
         /\ InPlace(cfg, rep.block) => rep.rack = RackOf(cfg, rep.stripe, rep.block)

IInv ==
    /\ cfg \in Configs /\ ConfigAccepted(cfg)
    /\ cfg.code = "RS" => placed = <<>> /\ repaired = {} /\ spinning = {}
    /\ IsLrc(cfg) => Recorded
    /\ PlacementEnds

(* It holds of a deployment that has just started. *)
LEMMA InitInv == Init => IInv
<1> SUFFICES ASSUME Init PROVE IInv
  OBVIOUS
<1>1. cfg \in Configs /\ ConfigAccepted(cfg)
  BY DEF Init
<1>2. nextId = 0 /\ placed = <<>> /\ repaired = {} /\ spinning = {}
  BY DEF Init, LrcInit
<1>3. DOMAIN placed = {}
  BY <1>2
<1> QED BY <1>1, <1>2, <1>3 DEF IInv, Recorded, PlacementEnds

(* An RS deployment never touches what the LRC handlers keep. *)
LEMMA RsStepInv ==
    ASSUME IInv, cfg.code = "RS", RsNext, UNCHANGED lrcVars
    PROVE  IInv'
<1>1. cfg' = cfg
  BY DEF RsNext, RsSetStripe, RsSetUnavailable, RsDelete, StartMerge, MergePair, MergeHurt,
         MergeRefused, MergeWith, rsVars
<1>2. placed' = placed /\ repaired' = repaired /\ spinning' = spinning
  BY DEF lrcVars
<1>3. placed = <<>> /\ repaired = {} /\ spinning = {} /\ cfg \in Configs /\ ConfigAccepted(cfg)
  BY DEF IInv
<1>4. ~IsLrc(cfg)
  BY DEF IsLrc
<1> QED BY <1>1, <1>2, <1>3, <1>4 DEF IInv, PlacementEnds, IsLrc

(* An upload records the placement of the id it spends. *)
LEMMA SetStripeInv ==
    ASSUME IInv, cfg.code # "RS", LrcSetStripe
    PROVE  IInv'
<1>1. /\ cfg' = cfg /\ repaired' = repaired /\ spinning' = spinning /\ nextId' = nextId + 1
      /\ placed' = [sid \in DOMAIN placed \cup {nextId} |->
                      IF sid = nextId THEN Placement(cfg, nextId) ELSE placed[sid]]
  BY DEF LrcSetStripe
<1>2. ASSUME IsLrc(cfg) PROVE Recorded'
  <2>1. Recorded
    BY <1>2 DEF IInv
  <2>2. /\ nextId' \in Nat /\ DOMAIN placed' \subseteq Nat /\ DOMAIN placed \subseteq DOMAIN placed'
        /\ \A sid \in DOMAIN placed' : placed'[sid] = Placement(cfg, sid)
    BY <1>1, <2>1 DEF Recorded
  <2> QED BY <1>1, <2>1, <2>2 DEF Recorded
<1>3. cfg \in Configs /\ ConfigAccepted(cfg) /\ PlacementEnds
  BY DEF IInv
<1> QED BY <1>1, <1>2, <1>3 DEF IInv, PlacementEnds, IsLrc

(* An upload spins only where the configuration lets it. *)
LEMMA SetSpinsInv ==
    ASSUME IInv, cfg.code # "RS", LrcSetSpins
    PROVE  IInv'
<1>1. /\ cfg' = cfg /\ placed' = placed /\ repaired' = repaired /\ nextId' = nextId + 1
      /\ spinning' = spinning \cup {[op |-> "set", stripe |-> nextId]}
  BY DEF LrcSetSpins
<1>2. cfg \in Configs /\ ConfigAccepted(cfg) /\ PlacementEnds
  BY DEF IInv
<1>3. ASSUME IsLrc(cfg) PROVE Recorded'
  <2>1. Recorded
    BY <1>3 DEF IInv
  <2> QED BY <1>1, <2>1 DEF Recorded
<1>4. cfg.code \in {"AzureLRC", "UniformLRC"}
  <2>1. PICK i \in Blocks(cfg) : ~NodeFound(cfg, nextId, i)
    BY DEF LrcSetSpins
  <2>2. CASE IsLrc(cfg)
    <3>1. nextId \in Nat
      BY <2>2 DEF IInv, Recorded
    <3>2. cfg.code \notin {"UniLRC", "OptimalLRC"}
      BY <1>2, <2>1, <3>1, EveryNodeFound
    <3> QED BY <2>2, <3>2 DEF IsLrc
  <2>3. IsLrc(cfg)
    BY <1>2, Sizes DEF IsLrc, Codes
  <2> QED BY <2>2, <2>3
<1> QED BY <1>1, <1>2, <1>3, <1>4 DEF IInv, PlacementEnds, IsLrc

(* A failed upload only spends its id. *)
LEMMA SetUnavailableInv ==
    ASSUME IInv, cfg.code # "RS", LrcSetUnavailable
    PROVE  IInv'
<1>1. /\ cfg' = cfg /\ placed' = placed /\ repaired' = repaired /\ spinning' = spinning
      /\ nextId' = nextId + 1
  BY DEF LrcSetUnavailable
<1> QED BY <1>1 DEF IInv, Recorded, PlacementEnds, IsLrc

(* A repair reads the planned groups of a placed stripe and finds a node,  *)
(* or spins where the configuration lets it.                               *)
LEMMA RepairInv ==
    ASSUME IInv, cfg.code # "RS", NEW sid \in DOMAIN placed, NEW b \in Blocks(cfg),
           Repair(sid, b)
    PROVE  IInv'
<1>1. cfg' = cfg /\ placed' = placed /\ nextId' = nextId
  BY DEF Repair
<1>2. cfg \in Configs /\ ConfigAccepted(cfg) /\ PlacementEnds
  BY DEF IInv
<1>3. ASSUME IsLrc(cfg)
      PROVE  /\ Recorded /\ sid \in Nat /\ placed[sid] = Placement(cfg, sid)
             /\ InPlace(cfg, b) => RepairRack(sid, b) = RackOf(cfg, sid, b)
  <2>1. Recorded /\ sid \in Nat /\ placed[sid] = Placement(cfg, sid)
    BY <1>3 DEF IInv, Recorded
  <2> QED BY <1>2, <1>3, <2>1, RepairInPlace
<1>4. CASE SpareNode(sid, RepairRack(sid, b))
  <2>1. /\ spinning' = spinning
        /\ repaired' = repaired \cup {[stripe |-> sid, block |-> b, reads |-> Reads(cfg, b),
                                       rack |-> RepairRack(sid, b)]}
    BY <1>4 DEF Repair
  <2>2. ASSUME IsLrc(cfg) PROVE Recorded'
    BY <1>1, <1>3, <2>1, <2>2 DEF Recorded
  <2> QED BY <1>1, <1>2, <2>1, <2>2 DEF IInv, PlacementEnds, IsLrc
<1>5. CASE ~SpareNode(sid, RepairRack(sid, b))
  <2>1. /\ repaired' = repaired
        /\ spinning' = spinning \cup {[op |-> "repair", stripe |-> sid]}
    BY <1>5 DEF Repair
  <2>2. ASSUME IsLrc(cfg) PROVE Recorded'
    BY <1>1, <1>3, <2>1, <2>2 DEF Recorded
  <2>3. \/ cfg.code \in {"AzureLRC", "UniformLRC"}
        \/ cfg.code = "OptimalLRC" /\ (cfg.k \div cfg.z) % (cfg.r + 1) = 0
    <3>1. CASE IsLrc(cfg)
      <4>1. ~(/\ cfg.code \in {"UniLRC", "OptimalLRC"}
              /\ cfg.code = "UniLRC" \/ (cfg.k \div cfg.z) % (cfg.r + 1) # 0)
        BY <1>2, <1>3, <1>5, <3>1, SpareForRepair
      <4> QED BY <3>1, <4>1 DEF IsLrc
    <3>2. IsLrc(cfg)
      BY <1>2, Sizes DEF IsLrc, Codes
    <3> QED BY <3>1, <3>2
  <2> QED BY <1>1, <1>2, <2>1, <2>2, <2>3 DEF IInv, PlacementEnds, IsLrc
<1> QED BY <1>4, <1>5

(* IInv is an invariant of every deployment. *)
LEMMA Invariance == Spec => []IInv
<1>1. ASSUME IInv, [Next]_vars PROVE IInv'
  <2>1. CASE cfg.code = "RS" /\ RsNext /\ UNCHANGED lrcVars
    BY <1>1, <2>1, RsStepInv
  <2>2. ASSUME cfg.code # "RS", LrcNext PROVE IInv'
    <3>1. CASE LrcSetStripe
      BY <1>1, <2>2, <3>1, SetStripeInv
    <3>2. CASE LrcSetSpins
      BY <1>1, <2>2, <3>2, SetSpinsInv
    <3>3. CASE LrcSetUnavailable
      BY <1>1, <2>2, <3>3, SetUnavailableInv
    <3>4. CASE \E sid \in DOMAIN placed : \E b \in Blocks(cfg) : Repair(sid, b)
      BY <1>1, <2>2, <3>4, RepairInv
    <3> QED BY <2>2, <3>1, <3>2, <3>3, <3>4 DEF LrcNext
  <2>3. CASE UNCHANGED vars
    BY <1>1, <2>3 DEF vars, lrcVars, IInv, Recorded, PlacementEnds, IsLrc
  <2> QED BY <1>1, <2>1, <2>2, <2>3 DEF Next
<1> QED BY <1>1, InitInv, PTL DEF Spec

-----------------------------------------------------------------------------
(***************************************************************************)
(* The properties.                                                         *)
(***************************************************************************)

(* validateConfig's node counts: randomly_select_a_node always returns for *)
(* UniLRC, and for OptimalLRC except for a repair in a configuration whose *)
(* local groups fill their racks exactly; RS never calls it.               *)
THEOREM HandlersEnd == Spec => []PlacementEnds
<1>1. IInv => PlacementEnds
  BY DEF IInv
<1> QED BY <1>1, Invariance, PTL

(* The placements of the four LRCs survive the loss of any rack, in every  *)
(* configuration the property promises it of.                              *)
THEOREM StripesSurviveRackLoss == Spec => []LrcRackTolerance
<1>1. IInv => LrcRackTolerance
  <2> SUFFICES ASSUME IInv, NEW sid \in DOMAIN placed,
                      ToleratesRackLoss(cfg), NEW b \in Blocks(cfg)
               PROVE  LET rack == placed[sid][b][1]
                          lost == {i \in Blocks(cfg) : placed[sid][i][1] = rack}
                          mds  == lost \ Locals(cfg)
                      IN  \/ Cardinality(mds) <= cfg.r
                          \/ /\ Cardinality(mds) <= cfg.r + 1
                             /\ \E g \in 0..(cfg.z - 1) : /\ LocalParity(cfg, g) \notin lost
                                                          /\ Operands(cfg, g) \cap mds # {}
    BY DEF LrcRackTolerance
  <2>1. cfg \in Configs /\ ConfigAccepted(cfg)
    BY DEF IInv
  <2>2. cfg.code # "RS"
    <3> SUFFICES ASSUME placed = <<>> PROVE FALSE
      BY DEF IInv
    <3>1. DOMAIN placed = {}
      OBVIOUS
    <3> QED BY <3>1
  <2>3. IsLrc(cfg)
    BY <2>1, <2>2, Sizes DEF IsLrc, Codes
  <2>4. sid \in Nat /\ placed[sid] = Placement(cfg, sid)
    BY <2>3 DEF IInv, Recorded
  <2>5. placed[sid][b][1] = RackOf(cfg, sid, b)
    BY <2>4 DEF Placement
  <2>6. {i \in Blocks(cfg) : placed[sid][i][1] = placed[sid][b][1]}
          = InGroup(cfg, Group(cfg, b))
    BY <2>1, <2>3, <2>4, <2>5, RackBlocks
  <2> QED BY <2>1, <2>3, <2>6, RackLoss
<1> QED BY <1>1, Invariance, PTL

(* A repair of a stripe of any of the four LRCs sends its decoder what it  *)
(* needs and puts the block back on its rack, wherever the property says   *)
(* the code's three computations agree.                                    *)
THEOREM RepairsAreExact == Spec => []RepairExact
<1>1. IInv => RepairExact
  <2> SUFFICES ASSUME IInv, NEW rep \in repaired,
                      Repairable(cfg, rep.block)
               PROVE  /\ DecoderFits(cfg, rep.block, rep.reads)
                      /\ rep.rack = placed[rep.stripe][rep.block][1]
    BY DEF RepairExact
  <2>1. cfg \in Configs /\ ConfigAccepted(cfg)
    BY DEF IInv
  <2>2. IsLrc(cfg)
    BY <2>1, Sizes DEF IInv, IsLrc, Codes
  <2>3. /\ rep.stripe \in DOMAIN placed /\ rep.block \in Blocks(cfg)
        /\ rep.reads = Reads(cfg, rep.block)
        /\ rep.rack = RackOf(cfg, rep.stripe, rep.block)
        /\ placed[rep.stripe] = Placement(cfg, rep.stripe)
    BY <2>2 DEF IInv, Recorded, InPlace
  <2>4. DecoderFits(cfg, rep.block, rep.reads)
    BY <2>1, <2>2, <2>3, ReadsFit
  <2>5. placed[rep.stripe][rep.block][1] = RackOf(cfg, rep.stripe, rep.block)
    BY <2>3 DEF Placement
  <2> QED BY <2>3, <2>4, <2>5
<1> QED BY <1>1, Invariance, PTL

-----------------------------------------------------------------------------
(***************************************************************************)
(* Types.  The records of RS stripes are typed by the invariants of        *)
(* RsStripes_proofs, the placements of the LRCs by IInv and by the nodes   *)
(* their uploads found; the rest is in its range by itself.                *)
(***************************************************************************)

Ranges ==
    /\ nextId \in 0..MaxIds /\ losses \in 0..MaxLosses
    /\ round \in 1..(RsRounds(cfg) + 1) /\ faults \in 0..MaxFaults
    /\ DOMAIN placed \subseteq 0..(nextId - 1)
    /\ \A sid \in DOMAIN placed :
          placed[sid] = Placement(cfg, sid) /\ \A i \in Blocks(cfg) : NodeFound(cfg, sid, i)
    /\ \A t \in spinning : t.op \in {"set", "repair"} /\ t.stripe \in 0..(nextId - 1)

(* They hold of a deployment that has just started. *)
LEMMA InitRanges == Init => Ranges
<1> SUFFICES ASSUME Init PROVE Ranges
  OBVIOUS
<1>1. /\ nextId = 0 /\ losses = 0 /\ round = 1 /\ faults = 0
      /\ DOMAIN placed = {} /\ spinning = {}
  BY DEF Init, RsInit, LrcInit
<1>2. RsRounds(cfg) \in Nat
  BY Rounds, CodeAssumption
<1> QED BY <1>1, <1>2, BoundsAssumption, FaultsAssumption DEF Ranges

(* A step of either kind keeps every variable in its range. *)
LEMMA NextRanges ==
    ASSUME Ranges, [Next]_vars
    PROVE  Ranges'
<1>1. nextId \in Nat /\ losses \in Nat /\ faults \in Nat /\ MaxIds \in Nat
      /\ MaxLosses \in Nat /\ MaxFaults \in Nat
  BY BoundsAssumption, FaultsAssumption DEF Ranges
<1>2. CASE UNCHANGED vars
  BY <1>2 DEF vars, rsVars, lrcVars, Ranges
<1>3. ASSUME RsNext, UNCHANGED lrcVars PROVE Ranges'
  <2>1. /\ UNCHANGED <<cfg, placed, spinning>>
        /\ nextId' = nextId \/ (nextId < MaxIds /\ nextId' = nextId + 1)
        /\ losses' = losses \/ (losses < MaxLosses /\ losses' = losses + 1)
        /\ faults' = faults \/ (faults < MaxFaults /\ faults' = faults + 1)
        /\ round' = round \/ round' \in 1..(RsRounds(cfg) + 1)
    BY <1>3 DEF RsNext, RsSetStripe, RsSetUnavailable, RsDelete, StartMerge, MergePair,
                MergeHurt, MergeRefused, MergeWith, rsVars, lrcVars
  <2>2. \A x \in 0..(nextId - 1) : x \in 0..(nextId' - 1)
    BY <1>1, <2>1
  <2>3. /\ nextId' \in 0..MaxIds /\ losses' \in 0..MaxLosses /\ faults' \in 0..MaxFaults
        /\ round' \in 1..(RsRounds(cfg) + 1)
    BY <1>1, <2>1 DEF Ranges
  <2> QED BY <2>1, <2>2, <2>3 DEF Ranges
<1>4. ASSUME LrcNext, UNCHANGED rsVars PROVE Ranges'
  <2>1. /\ UNCHANGED <<cfg, round, faults>>
        /\ nextId' = nextId \/ (nextId < MaxIds /\ nextId' = nextId + 1)
        /\ losses' = losses \/ (losses < MaxLosses /\ losses' = losses + 1)
    BY <1>4 DEF LrcNext, LrcSetStripe, LrcSetSpins, LrcSetUnavailable, Repair, rsVars
  <2>2. /\ \A x \in 0..(nextId - 1) : x \in 0..(nextId' - 1)
        /\ nextId' # nextId => nextId \in 0..(nextId' - 1)
    BY <1>1, <2>1
  <2>3. nextId' \in 0..MaxIds /\ losses' \in 0..MaxLosses
    BY <1>1, <2>1 DEF Ranges
  <2>4. /\ DOMAIN placed' \subseteq 0..(nextId' - 1)
        /\ \A sid \in DOMAIN placed' :
              placed'[sid] = Placement(cfg, sid) /\ \A i \in Blocks(cfg) : NodeFound(cfg, sid, i)
    <3>1. CASE LrcSetStripe
      <4>1. /\ nextId' = nextId + 1
            /\ placed' = [sid \in DOMAIN placed \cup {nextId} |->
                            IF sid = nextId THEN Placement(cfg, nextId) ELSE placed[sid]]
            /\ \A i \in Blocks(cfg) : NodeFound(cfg, nextId, i)
        BY <3>1 DEF LrcSetStripe
      <4>2. nextId' # nextId
        BY <1>1, <4>1
      <4> QED BY <2>2, <4>1, <4>2 DEF Ranges
    <3>2. CASE UNCHANGED placed
      BY <2>2, <3>2 DEF Ranges
    <3> QED BY <1>4, <3>1, <3>2 DEF LrcNext, LrcSetSpins, LrcSetUnavailable, Repair
  <2>5. \A t \in spinning' : t.op \in {"set", "repair"} /\ t.stripe \in 0..(nextId' - 1)
    <3>1. CASE LrcSetSpins
      <4>1. /\ nextId' = nextId + 1
            /\ spinning' = spinning \cup {[op |-> "set", stripe |-> nextId]}
        BY <3>1 DEF LrcSetSpins
      <4>2. nextId' # nextId
        BY <1>1, <4>1
      <4> QED BY <2>2, <4>1, <4>2 DEF Ranges
    <3>2. ASSUME NEW sid \in DOMAIN placed, NEW b \in Blocks(cfg), Repair(sid, b)
          PROVE  \A t \in spinning' : /\ t.op \in {"set", "repair"}
                                       /\ t.stripe \in 0..(nextId' - 1)
      <4>1. \A t \in spinning' : t \in spinning \/ t = [op |-> "repair", stripe |-> sid]
        BY <3>2 DEF Repair
      <4>2. sid \in 0..(nextId - 1)
        BY DEF Ranges
      <4> QED BY <2>2, <4>1, <4>2 DEF Ranges
    <3>3. CASE UNCHANGED spinning
      BY <2>2, <3>3 DEF Ranges
    <3> QED BY <1>4, <3>1, <3>2, <3>3 DEF LrcNext, LrcSetStripe, LrcSetUnavailable
  <2> QED BY <2>1, <2>3, <2>4, <2>5 DEF Ranges
<1> QED BY <1>2, <1>3, <1>4 DEF Next

(* An LRC's placement is on racks and nodes that exist. *)
LEMMA PlacementTyped ==
    ASSUME NEW c \in Configs, IsLrc(c), ConfigAccepted(c), NEW sid \in Nat,
           \A i \in Blocks(c) : NodeFound(c, sid, i)
    PROVE  Placement(c, sid) \in [Blocks(c) -> (0..(ClusterNum - 1))
                                               \X (0..(DatanodeNumPerCluster - 1))]
<1>1. ASSUME NEW i \in Blocks(c)
      PROVE  /\ RackOf(c, sid, i) \in 0..(ClusterNum - 1)
             /\ Cardinality(Earlier(c, sid, i)) \in 0..(DatanodeNumPerCluster - 1)
  <2>1. RackOf(c, sid, i) \in 0..(ClusterNum - 1)
    <3>1. /\ Group(c, i) \in Nat /\ ClusterNum \in Nat \ {0}
          /\ (sid % ClusterNum) \in Nat
      <4>1. ClusterNum \in Nat \ {0} /\ Group(c, i) \in 0..(ClusterNum - 1)
        BY GroupRange, CodeAssumption
      <4> QED BY <4>1, DivMod
    <3>2. (sid % ClusterNum) + Group(c, i) \in Nat
      BY <3>1
    <3> QED BY <3>1, <3>2, DivMod DEF RackOf
  <2>2. Cardinality(Earlier(c, sid, i)) \in Nat
    <3>1. IsFiniteSet(0..(i - 1))
      <4> DEFINE e == i - 1
                 z == 0
      <4>1. e \in Int /\ z \in Int
        BY Sizes DEF Blocks, IsLrc
      <4> HIDE DEF e, z
      <4>2. IsFiniteSet(z..e)
        BY <4>1, FS_Interval
      <4> QED BY <4>2 DEF e, z
    <3>2. Earlier(c, sid, i) \subseteq 0..(i - 1)
      BY DEF Earlier
    <3> QED BY <3>1, <3>2, FS_Subset, FS_CardinalityType
  <2>3. Cardinality(Earlier(c, sid, i)) < DatanodeNumPerCluster
    BY DEF NodeFound
  <2>4. DatanodeNumPerCluster \in Nat
    BY CodeAssumption
  <2> QED BY <2>1, <2>2, <2>3, <2>4
<1> QED BY <1>1 DEF Placement

(* The records of the RS stripes: their nodes exist. *)
LEMMA RecordsTyped ==
    ASSUME RsInv, PlacedInv, NEW sid \in DOMAIN stripes
    PROVE  LET s == stripes[sid]
           IN  /\ DOMAIN s.data = 1..s.k /\ DOMAIN s.parity = 1..cfg.r
               /\ \A node \in {d.node : d \in ToSet(s.data)} \cup ToSet(s.parity) :
                     node \in (0..(ClusterNum - 1)) \X (0..(DatanodeNumPerCluster - 1))
<1> DEFINE s == stripes[sid]
           P == (0..(ClusterNum - 1)) \X (0..(DatanodeNumPerCluster - 1))
<1>1. cfg.code = "RS" /\ IsRs(cfg) /\ Shaped(s) /\ Placed(s)
  BY DEF RsInv, PlacedInv, Fine, IsRs
<1> HIDE DEF s
<1>2. \A d \in ToSet(s.data) : d.node \in P
  <2>1. ToSet(s.data) = {s.data[n] : n \in 1..s.k}
    BY <1>1, DataSet
  <2>2. \A n \in 1..s.k : s.data[n].node \in P
    BY <1>1 DEF Placed
  <2> QED BY <2>1, <2>2
<1>3. DOMAIN s.data = 1..s.k /\ DOMAIN s.parity = 1..cfg.r
  BY <1>1 DEF Shaped
<1>4. ASSUME NEW j \in 1..cfg.r PROVE s.parity[j] \in P
  <2>1. cfg.r \in Nat /\ cfg.k \in Nat /\ First(s) \in Nat
    BY <1>1, RsSizes, DataSet
  <2>2. cfg.k + j - 1 \in 0..(cfg.k + cfg.r - 1)
    BY <2>1
  <2>3. s.parity[j] = PlaceOf(cfg, First(s), cfg.k + j - 1)
    BY <1>1 DEF Shaped
  <2> QED BY <1>1, <2>1, <2>2, <2>3, PlaceRange
<1>5. \A node \in ToSet(s.parity) : node \in P
  BY <1>3, <1>4 DEF ToSet
<1> QED BY <1>2, <1>3, <1>5 DEF s

(* Every variable of a deployment has its type, whatever its code: every   *)
(* record, those that failed merges leave too, is on existing racks and    *)
(* nodes, and ids are never handed out beyond the counter.                 *)
THEOREM RecordsAlwaysTyped == Spec => []TypeOK
<1>1. Spec => []Ranges
  BY InitRanges, NextRanges, PTL DEF Spec
<1>2. Ranges /\ IInv /\ RsInv /\ PlacedInv => TypeOK
  <2> SUFFICES ASSUME Ranges, IInv, RsInv, PlacedInv PROVE TypeOK
    OBVIOUS
  <2>1. RsTypeOK
    <3>1. \A p \in DOMAIN pairs : {pairs[p].a, pairs[p].b} \subseteq DOMAIN stripes
      <4> DEFINE R == [a : Nat, b : Nat, target : Nat]
      <4>1. pairs \in Seq(R) /\ \A p \in 1..Len(pairs) : Ids(pairs[p]) \subseteq DOMAIN stripes
        BY DEF RsInv, Requests
      <4> HIDE DEF R
      <4>2. DOMAIN pairs = 1..Len(pairs)
        BY <4>1
      <4> QED BY <4>1, <4>2 DEF Ids
    <3>2. DOMAIN stripes \subseteq 0..(nextId - 1)
      BY DEF RsInv
    <3>3. round \in 1..(RsRounds(cfg) + 1) /\ faults \in 0..MaxFaults
      BY DEF Ranges
    <3> QED BY <3>1, <3>2, <3>3, RecordsTyped DEF RsTypeOK
  <2>2. LrcTypeOK
    <3>1. ASSUME NEW sid \in DOMAIN placed
          PROVE  placed[sid] \in [Blocks(cfg) -> (0..(ClusterNum - 1))
                                                    \X (0..(DatanodeNumPerCluster - 1))]
      <4>1. cfg \in Configs /\ ConfigAccepted(cfg) /\ sid \in Nat
        BY DEF IInv, Ranges
      <4>2. cfg.code # "RS"
        <5> SUFFICES ASSUME placed = <<>> PROVE FALSE
          BY DEF IInv
        <5> QED OBVIOUS
      <4>3. IsLrc(cfg)
        BY <4>1, <4>2, Sizes DEF IsLrc, Codes
      <4> QED BY <4>1, <4>3, PlacementTyped DEF Ranges
    <3> QED BY <3>1 DEF LrcTypeOK, Ranges
  <2> QED BY <2>1, <2>2 DEF TypeOK, IInv, Ranges
<1> QED BY <1>1, <1>2, Invariance, AlwaysFine, PTL
=============================================================================
