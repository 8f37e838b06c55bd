--------------------------- MODULE PlacementLemmas ---------------------------
(***************************************************************************)
(* Arithmetic and counting that the proofs about placements share: the     *)
(* quotient and remainder that turn a block's number into a rack and a     *)
(* node, the sizes of sets of blocks, and least elements, which stand in   *)
(* for induction.                                                          *)
(***************************************************************************)
EXTENDS Integers, Sequences, Sorting, TLAPS, FiniteSetTheorems, WellFoundedInduction

-----------------------------------------------------------------------------
(***************************************************************************)
(* Division.                                                               *)
(***************************************************************************)

(* A number is its quotient times the divisor, plus the remainder. *)
LEMMA DivMod ==
    ASSUME NEW n \in Nat, NEW d \in Nat \ {0}
    PROVE  /\ n \div d \in Nat /\ n % d \in 0..(d - 1)
           /\ n = (d * (n \div d)) + (n % d)
BY SMT

(* Consecutive multiples are a divisor apart. *)
LEMMA LessMul ==
    ASSUME NEW a \in Int, NEW b \in Int, NEW d \in Nat \ {0}, a < b
    PROVE  d * a + d <= d * b
<1>1. d * (b - a) >= d
  BY SMT
<1> QED BY <1>1, SMT

(* Quotient and remainder are the only numbers of that form. *)
LEMMA DivUnique ==
    ASSUME NEW n \in Nat, NEW d \in Nat \ {0}, NEW q \in Nat, NEW s \in 0..(d - 1),
           n = d * q + s
    PROVE  n \div d = q /\ n % d = s
BY SMT

(* A quotient is below z exactly when the number is below z divisors. *)
LEMMA DivBound ==
    ASSUME NEW n \in Nat, NEW d \in Nat \ {0}, NEW z \in Nat, n < d * z
    PROVE  n \div d < z
<1>1. n \div d \in Nat /\ n = (d * (n \div d)) + (n % d) /\ n % d \in 0..(d - 1)
  BY DivMod
<1> SUFFICES ASSUME n \div d >= z PROVE FALSE
  BY <1>1
<1>2. d * (n \div d) >= d * z
  BY <1>1, LessMul
<1> QED BY <1>1, <1>2, SMT

(* The numbers with quotient g are the interval of the g-th divisor. *)
LEMMA DivInterval ==
    ASSUME NEW n \in Nat, NEW d \in Nat \ {0}, NEW g \in Nat, n \div d = g
    PROVE  n \in (d * g)..(d * g + (d - 1))
BY DivMod, SMT

(* Dividing in two steps is dividing by the product. *)
LEMMA DivTwice ==
    ASSUME NEW x \in Nat, NEW a \in Nat \ {0}, NEW b \in Nat \ {0}
    PROVE  x \div (a * b) = (x \div a) \div b
<1> DEFINE q == x \div a
           v == x % a
           d == q \div b
           u == q % b
<1>1. q \in Nat /\ v \in 0..(a - 1) /\ x = (a * q) + v
  BY DivMod, Zenon
<1> HIDE DEF q, v
<1>2. d \in Nat /\ u \in 0..(b - 1) /\ q = (b * d) + u
  BY <1>1, DivMod, Zenon
<1> HIDE DEF d, u
<1>3. x = (a * b) * d + (a * u + v)
  BY <1>1, <1>2, SMT
<1>4. a * u + v \in 0..(a * b - 1)
  <2>1. a * u + a <= a * b
    BY <1>2, LessMul
  <2>2. a * u \in Nat /\ a * b \in Nat
    BY <1>2, SMT
  <2> QED BY <1>1, <2>1, <2>2, SMT
<1>5. a * b \in Nat \ {0}
  BY SMT
<1> DEFINE w == a * b
           s == a * u + v
<1>6. x = w * d + s /\ s \in 0..(w - 1) /\ w \in Nat \ {0}
  BY <1>3, <1>4, <1>5
<1> HIDE DEF w, s
<1>7. x \div w = d
  BY <1>2, <1>6, DivUnique
<1> QED BY <1>7 DEF d, q, w

(* A greater number has no smaller quotient. *)
LEMMA DivMonotone ==
    ASSUME NEW a \in Nat, NEW b \in Nat, NEW d \in Nat \ {0}, a <= b
    PROVE  a \div d <= b \div d
<1> DEFINE p == a \div d
           q == b \div d
           v == b % d
           u == a % d
<1>1. /\ p \in Nat /\ u \in 0..(d - 1) /\ a = (d * p) + u
      /\ q \in Nat /\ v \in 0..(d - 1) /\ b = (d * q) + v
  BY DivMod
<1> HIDE DEF p, q, u, v
<1> SUFFICES ASSUME q < p PROVE FALSE
  BY <1>1 DEF p, q
<1>2. d * q + d <= d * p
  BY <1>1, LessMul
<1> DEFINE x == d * p
           y == d * q
<1>3. x \in Nat /\ y \in Nat
  BY <1>1, SMT
<1> HIDE DEF x, y
<1>4. y + d <= x /\ a = x + u /\ b = y + v
  BY <1>1, <1>2 DEF x, y
<1> QED BY <1>1, <1>3, <1>4

-----------------------------------------------------------------------------
(***************************************************************************)
(* Sizes of sets.                                                          *)
(***************************************************************************)

(* A set within an interval is finite and no larger than it. *)
LEMMA IntervalBound ==
    ASSUME NEW a \in Int, NEW n \in Nat, NEW S, S \subseteq a..(a + n - 1)
    PROVE  IsFiniteSet(S) /\ Cardinality(S) \in Nat /\ Cardinality(S) <= n
<1>1. IsFiniteSet(a..(a + n - 1)) /\ Cardinality(a..(a + n - 1)) = n
  BY FS_Interval
<1>2. IsFiniteSet(S) /\ Cardinality(S) <= n
  BY <1>1, FS_Subset
<1> QED BY <1>2, FS_CardinalityType

(* A set covered by two others is no larger than they are together. *)
LEMMA CoverBound ==
    ASSUME NEW S, NEW T, NEW U, IsFiniteSet(T), IsFiniteSet(U), S \subseteq T \cup U
    PROVE  /\ IsFiniteSet(S) /\ Cardinality(S) \in Nat
           /\ Cardinality(S) <= Cardinality(T) + Cardinality(U)
<1>1. IsFiniteSet(T \cup U)
      /\ Cardinality(T \cup U) = Cardinality(T) + Cardinality(U) - Cardinality(T \cap U)
  BY FS_Union
<1>2. IsFiniteSet(T \cap U)
  BY FS_Subset
<1>3. /\ Cardinality(T) \in Nat /\ Cardinality(U) \in Nat
      /\ Cardinality(T \cap U) \in Nat /\ Cardinality(T \cup U) \in Nat
  BY <1>1, <1>2, FS_CardinalityType
<1>4. IsFiniteSet(S) /\ Cardinality(S) <= Cardinality(T \cup U)
  BY <1>1, FS_Subset
<1> QED BY <1>1, <1>3, <1>4, FS_CardinalityType

(* A map that takes the members of a finite set apart keeps its size. *)
LEMMA ValuesCounted ==
    ASSUME NEW S, IsFiniteSet(S), NEW f, f \in [S -> {f[x] : x \in S}],
           \A x, y \in S : f[x] = f[y] => x = y
    PROVE  Cardinality({f[x] : x \in S}) = Cardinality(S)
<1> DEFINE T == {f[x] : x \in S}
<1>1. f \in Bijection(S, T)
  BY DEF Bijection, Injection, IsInjective, Surjection
<1> HIDE DEF T
<1>2. ExistsBijection(S, T)
  BY <1>1 DEF ExistsBijection
<1>3. Cardinality(T) = Cardinality(S)
  BY <1>2, FS_Bijection, Zenon
<1> QED BY <1>3 DEF T

(* A map makes no more of a finite set than it has. *)
LEMMA ImageBound ==
    ASSUME NEW S, IsFiniteSet(S), NEW f
    PROVE  /\ IsFiniteSet({f[x] : x \in S}) /\ Cardinality({f[x] : x \in S}) \in Nat
           /\ Cardinality({f[x] : x \in S}) <= Cardinality(S)
<1> DEFINE g == [x \in S |-> f[x]]
           T == {f[x] : x \in S}
<1>1. g \in Surjection(S, T)
  BY DEF Surjection
<1> HIDE DEF g, T
<1>2. IsFiniteSet(T) /\ Cardinality(T) <= Cardinality(S)
  BY <1>1, FS_Surjection
<1> QED BY <1>2, FS_CardinalityType DEF T

(* Two sets numbered apart by numbers below r have at most r members.      *)
LEMMA TwoCounts ==
    ASSUME NEW S, NEW T, IsFiniteSet(S), IsFiniteSet(T), NEW r \in Nat, NEW f, NEW g,
           \A x \in S : f[x] \in 0..(r - 1), \A x \in T : g[x] \in 0..(r - 1),
           \A x, y \in S : f[x] = f[y] => x = y, \A x, y \in T : g[x] = g[y] => x = y,
           \A x \in S : \A y \in T : f[x] # g[y]
    PROVE  Cardinality(S) + Cardinality(T) <= r
<1> DEFINE u == [x \in S |-> f[x]]
           v == [x \in T |-> g[x]]
           U == {u[x] : x \in S}
           V == {v[x] : x \in T}
<1>1. /\ u \in [S -> U] /\ \A x, y \in S : u[x] = u[y] => x = y
      /\ v \in [T -> V] /\ \A x, y \in T : v[x] = v[y] => x = y
  OBVIOUS
<1> DEFINE a == 0
<1>2. U \subseteq a..(a + r - 1) /\ V \subseteq a..(a + r - 1) /\ U \cap V = {} /\ a \in Int
  OBVIOUS
<1>3. Cardinality(U) = Cardinality(S) /\ Cardinality(V) = Cardinality(T)
  <2> HIDE DEF u, v
  <2> QED BY <1>1, ValuesCounted
<1> HIDE DEF U, V, a
<1>4. IsFiniteSet(U) /\ IsFiniteSet(V) /\ U \cup V \subseteq a..(a + r - 1)
  BY <1>2, IntervalBound
<1>5. Cardinality(U \cup V) <= r
  BY <1>2, <1>4, IntervalBound
<1>6. Cardinality(U \cup V) = Cardinality(U) + Cardinality(V) - Cardinality(U \cap V)
  BY <1>4, FS_Union
<1>7. Cardinality(U \cap V) = 0 /\ Cardinality(U) \in Nat /\ Cardinality(V) \in Nat
  BY <1>2, <1>4, FS_EmptySet, FS_CardinalityType
<1> QED BY <1>3, <1>5, <1>6, <1>7

(* What a map makes of a set. *)
Image(f, S) == {f[x] : x \in S}

(* Maps that identify the same members of a finite set have images of one  *)
(* size.                                                                   *)
LEMMA SameCount ==
    ASSUME NEW S, IsFiniteSet(S), NEW f, NEW g,
           \A x, y \in S : f[x] = f[y] <=> g[x] = g[y]
    PROVE  /\ IsFiniteSet(Image(f, S)) /\ IsFiniteSet(Image(g, S))
           /\ Cardinality(Image(f, S)) = Cardinality(Image(g, S))
<1> USE DEF Image
<1> DEFINE F == Image(f, S)
           G == Image(g, S)
           h == [y \in F |-> g[CHOOSE x \in S : f[x] = y]]
           e == [x \in S |-> f[x]]
<1>1. IsFiniteSet(F)
  <2>1. e \in Surjection(S, F)
    BY DEF Surjection
  <2> HIDE DEF e, F
  <2> QED BY <2>1, FS_Surjection
<1>2. \A x \in S : h[f[x]] = g[x]
  <2> SUFFICES ASSUME NEW x \in S PROVE h[f[x]] = g[x]
    OBVIOUS
  <2>1. (CHOOSE t \in S : f[t] = f[x]) \in S /\ f[CHOOSE t \in S : f[t] = f[x]] = f[x]
    OBVIOUS
  <2> QED BY <2>1
<1>3. \A y \in F : \E x \in S : y = f[x]
  OBVIOUS
<1>4. h \in Bijection(F, G)
  <2>1. h \in [F -> G]
    <3>1. \A y \in F : g[CHOOSE x \in S : f[x] = y] \in G
      BY <1>2, <1>3, Zenon
    <3> HIDE DEF F, G
    <3> QED BY <3>1
  <2>2. \A z \in G : \E y \in F : h[y] = z
    BY <1>2
  <2>3. \A y, z \in F : h[y] = h[z] => y = z
    <3> HIDE DEF h, F
    <3> QED BY <1>2, <1>3
  <2> HIDE DEF h, F, G
  <2> QED BY <2>1, <2>2, <2>3 DEF Bijection, Injection, IsInjective, Surjection
<1> HIDE DEF F, G, h
<1>5. ExistsBijection(F, G)
  BY <1>4 DEF ExistsBijection
<1>6. IsFiniteSet(G) /\ Cardinality(G) = Cardinality(F)
  BY <1>1, <1>5, FS_Bijection, Zenon
<1> QED BY <1>1, <1>6 DEF F, G

-----------------------------------------------------------------------------
(***************************************************************************)
(* Least and greatest elements.                                            *)
(***************************************************************************)

(* A set of naturals that is not empty has a least element. *)
LEMMA Least ==
    ASSUME NEW T \in SUBSET Nat, T # {}
    PROVE  \E x \in T : \A y \in T : x <= y
<1>1. PICK x \in T : \A y \in T : ~(<<y, x>> \in OpToRel(<, Nat))
  BY WFMin, NatLessThanWellFounded, Zenon
<1>2. \A y \in T : ~(y < x)
  BY <1>1 DEF OpToRel
<1> QED BY <1>2

(* A set of naturals that holds 0 and is closed under successor up to n    *)
(* holds everything up to n.                                               *)
LEMMA UpTo ==
    ASSUME NEW n \in Nat, NEW S, 0 \in S,
           \A i \in 1..n : i - 1 \in S => i \in S
    PROVE  0..n \subseteq S
<1> DEFINE T == (0..n) \ S
<1> SUFFICES ASSUME T # {} PROVE FALSE
  OBVIOUS
<1>1. PICK x \in T : \A y \in T : x <= y
  <2>1. T \in SUBSET Nat
    OBVIOUS
  <2> HIDE DEF T
  <2> QED BY <2>1, Least
<1>2. x \in 1..n /\ x - 1 \in 0..n
  OBVIOUS
<1>3. x - 1 \in S
  BY <1>1, <1>2
<1> QED BY <1>2, <1>3

(* A bounded set of naturals that is not empty has a greatest element. *)
LEMMA Greatest ==
    ASSUME NEW n \in Nat, NEW T \in SUBSET (0..n), T # {}
    PROVE  \E x \in T : \A y \in T : x >= y
<1> DEFINE U == {i \in 0..n : n - i \in T}
<1>1. U \in SUBSET Nat /\ U # {}
  <2>1. PICK x \in T : TRUE
    OBVIOUS
  <2>2. n - x \in 0..n /\ n - (n - x) = x
    OBVIOUS
  <2>3. n - x \in U
    BY <2>2
  <2>4. U \in SUBSET Nat
    OBVIOUS
  <2> HIDE DEF U
  <2> QED BY <2>3, <2>4
<1>2. PICK u \in U : \A v \in U : u <= v
  <2> HIDE DEF U
  <2> QED BY <1>1, Least
<1>3. \A y \in T : n - u >= y
  <2> SUFFICES ASSUME NEW y \in T PROVE n - u >= y
    OBVIOUS
  <2>1. n - y \in 0..n /\ n - (n - y) = y
    OBVIOUS
  <2>2. u <= n - y
    BY <1>2, <2>1
  <2> QED BY <2>2, <2>1
<1> QED BY <1>2, <1>3

-----------------------------------------------------------------------------
(***************************************************************************)
(* A set of numbers in ascending order, each element by the number of      *)
(* those below it.                                                         *)
(***************************************************************************)
CountBelow(D, n) == Cardinality({m \in D : m < n})

(* The count of what is below is bounded by the number and grows with it. *)
LEMMA CountFacts ==
    ASSUME NEW D \in SUBSET Nat, IsFiniteSet(D), NEW n \in Nat
    PROVE  /\ CountBelow(D, n) \in Nat /\ CountBelow(D, n) <= n
           /\ \A m \in Nat : m <= n => CountBelow(D, m) <= CountBelow(D, n)
<1> DEFINE Below(m) == {x \in D : x < m}
<1>1. \A m \in Nat : Below(m) \subseteq D /\ IsFiniteSet(Below(m))
                     /\ Cardinality(Below(m)) \in Nat
  <2> TAKE m \in Nat
  <2>1. Below(m) \subseteq D
    OBVIOUS
  <2> HIDE DEF Below
  <2>2. IsFiniteSet(Below(m))
    BY <2>1, FS_Subset
  <2> QED BY <2>1, <2>2, FS_CardinalityType
<1>2. Cardinality(Below(n)) <= n
  <2>1. Below(n) \subseteq 0..(n - 1)
    <3>1. \A x \in D : x \in Nat /\ (x < n => x \in 0..(n - 1))
      OBVIOUS
    <3> QED BY <3>1
  <2>2. IsFiniteSet(0..(n - 1)) /\ Cardinality(0..(n - 1)) = n
    <3>1. Cardinality(0..(n - 1)) = IF 0 > n - 1 THEN 0 ELSE (n - 1) - 0 + 1
      BY FS_Interval
    <3> QED BY <3>1, FS_Interval
  <2> HIDE DEF Below
  <2>3. Cardinality(Below(n)) <= Cardinality(0..(n - 1))
    BY <2>1, <2>2, FS_Subset
  <2> QED BY <2>2, <2>3
<1>3. \A m \in Nat : m <= n => Cardinality(Below(m)) <= Cardinality(Below(n))
  <2> SUFFICES ASSUME NEW m \in Nat, m <= n
               PROVE  Cardinality(Below(m)) <= Cardinality(Below(n))
    OBVIOUS
  <2>1. Below(m) \subseteq Below(n)
    <3>1. \A x \in D : x \in Nat /\ (x < m => x < n)
      OBVIOUS
    <3> QED BY <3>1
  <2> HIDE DEF Below
  <2> QED BY <1>1, <2>1, FS_Subset
<1> QED BY <1>1, <1>2, <1>3 DEF CountBelow

(* Every count below the size of the set is some element's. *)
LEMMA CountTaken ==
    ASSUME NEW D \in SUBSET Nat, IsFiniteSet(D), NEW i \in 1..Cardinality(D)
    PROVE  \E n \in D : CountBelow(D, n) = i - 1
<1> DEFINE S == {j \in 0..Cardinality(D) : j = 0 \/ \E n \in D : CountBelow(D, n) = j - 1}
<1>1. Cardinality(D) \in Nat
  BY FS_CardinalityType
<1>2. 0 \in S
  BY <1>1
<1>3. ASSUME NEW j \in 1..Cardinality(D), j - 1 \in S PROVE j \in S
  <2>1. \E R \in SUBSET D : /\ Cardinality(R) = j - 1
                            /\ \A x \in R, y \in D \ R : x < y
    <3>1. CASE j = 1
      <4>1. Cardinality({}) = j - 1 /\ {} \in SUBSET D
        BY <3>1, FS_EmptySet
      <4> QED BY <4>1
    <3>2. CASE j # 1
      <4>1. PICK p \in D : CountBelow(D, p) = j - 1 - 1
        BY <1>3, <3>2
      <4> DEFINE B == {m \in D : m < p}
                 R == B \cup {p}
      <4>2. IsFiniteSet(B) /\ p \notin B /\ Cardinality(B) = j - 1 - 1
        <5>1. B \subseteq D /\ p \notin B
          OBVIOUS
        <5>2. Cardinality(B) = j - 1 - 1
          BY <4>1 DEF CountBelow
        <5> HIDE DEF B
        <5> QED BY <5>1, <5>2, FS_Subset
      <4>3. R \in SUBSET D /\ \A x \in R, y \in D \ R : x < y
        OBVIOUS
      <4>4. Cardinality(R) = j - 1
        <5> HIDE DEF B
        <5>1. Cardinality(R) = Cardinality(B) + 1
          BY <4>2, FS_AddElement
        <5> QED BY <1>1, <4>2, <5>1
      <4> QED BY <4>3, <4>4
    <3> QED BY <3>1, <3>2
  <2>2. PICK R \in SUBSET D : /\ Cardinality(R) = j - 1
                              /\ \A x \in R, y \in D \ R : x < y
    BY <2>1
  <2>3. D \ R # {}
    <3>1. R # D
      BY <1>1, <2>2
    <3> QED BY <3>1
  <2>4. PICK n \in D \ R : \A y \in D \ R : n <= y
    <3>1. D \ R \in SUBSET Nat
      OBVIOUS
    <3> QED BY <2>3, <3>1, Least
  <2>5. {m \in D : m < n} = R
    <3>1. \A m \in D : m \in Nat /\ n \in Nat
      OBVIOUS
    <3>2. \A m \in D : m < n => m \in R
      BY <2>4, <3>1
    <3>3. \A m \in R : m \in D /\ m < n
      BY <2>2
    <3> QED BY <3>2, <3>3
  <2>6. CountBelow(D, n) = j - 1
    BY <2>2, <2>5 DEF CountBelow
  <2> QED BY <2>6
<1> HIDE DEF S
<1>4. 0..Cardinality(D) \subseteq S
  BY <1>1, <1>2, <1>3, UpTo
<1>5. i \in S
  BY <1>1, <1>4
<1> QED BY <1>5 DEF S

(* The elements of a set in ascending order: every one, once. *)
LEMMA SetInOrder ==
    ASSUME NEW D \in SUBSET Nat, IsFiniteSet(D)
    PROVE  /\ Ascending(D) \in Seq(D) /\ Len(Ascending(D)) = Cardinality(D)
           /\ \A i, j \in 1..Len(Ascending(D)) : i < j => Ascending(D)[i] < Ascending(D)[j]
           /\ \A i \in 1..Len(Ascending(D)) : Ascending(D)[i] >= i - 1
           /\ \A n \in D : \E i \in 1..Len(Ascending(D)) : n = Ascending(D)[i]
<1> DEFINE N == Cardinality(D)
           list == Ascending(D)
<1>1. N \in Nat
  BY FS_CardinalityType
<1>2. list = [i \in 1..N |-> CHOOSE n \in D : CountBelow(D, n) = i - 1]
  BY DEF CountBelow, Ascending
<1> HIDE DEF N, list
<1>3. D \in SUBSET Nat /\ IsFiniteSet(D)
  OBVIOUS
<1>4. \A i \in 1..N : list[i] \in D /\ CountBelow(D, list[i]) = i - 1
  <2> TAKE i \in 1..N
  <2>1. \E n \in D : CountBelow(D, n) = i - 1
    BY <1>3, CountTaken DEF N
  <2> QED BY <1>2, <2>1
<1>5. list \in Seq(D) /\ Len(list) = N
  <2>1. list \in [1..N -> D]
    BY <1>2, <1>4
  <2> QED BY <1>1, <2>1
<1>6. \A i, j \in 1..N : i < j => list[i] < list[j]
  <2> SUFFICES ASSUME NEW i \in 1..N, NEW j \in 1..N, i < j
               PROVE  list[i] < list[j]
    OBVIOUS
  <2>1. list[i] \in Nat /\ list[j] \in Nat
    BY <1>3, <1>4
  <2>2. list[j] <= list[i] => CountBelow(D, list[j]) <= CountBelow(D, list[i])
    BY <1>3, <2>1, CountFacts
  <2>3. CountBelow(D, list[i]) = i - 1 /\ CountBelow(D, list[j]) = j - 1
    BY <1>4
  <2> QED BY <1>1, <2>1, <2>2, <2>3
<1>7. \A i \in 1..N : list[i] >= i - 1
  <2> TAKE i \in 1..N
  <2>1. list[i] \in Nat /\ CountBelow(D, list[i]) = i - 1
    BY <1>3, <1>4
  <2>2. CountBelow(D, list[i]) <= list[i]
    BY <1>3, <2>1, CountFacts
  <2> QED BY <2>1, <2>2
<1>8. ASSUME NEW sid \in D PROVE \E i \in 1..N : sid = list[i]
  <2> DEFINE B == {m \in D : m < sid}
             i == CountBelow(D, sid) + 1
  <2>1. sid \in Nat /\ B \subseteq D /\ B # D
    BY <1>3
  <2>2. CountBelow(D, sid) = Cardinality(B)
    BY DEF CountBelow
  <2>3. CountBelow(D, sid) \in Nat /\ CountBelow(D, sid) < N
    <3> HIDE DEF B
    <3>1. IsFiniteSet(B) /\ Cardinality(B) <= Cardinality(D)
          /\ (Cardinality(B) = Cardinality(D) => B = D)
      BY <1>3, <2>1, FS_Subset
    <3> QED BY <1>1, <2>1, <2>2, <3>1, FS_CardinalityType DEF N
  <2>4. i \in 1..N /\ i - 1 = CountBelow(D, sid)
    BY <1>1, <2>3
  <2> HIDE DEF i
  <2>5. list[i] \in D /\ CountBelow(D, list[i]) = CountBelow(D, sid)
    BY <1>4, <2>4
  <2>6. ASSUME NEW x \in D, NEW y \in D, x < y PROVE CountBelow(D, x) # CountBelow(D, y)
    <3> DEFINE X == {m \in D : m < x}
               Y == {m \in D : m < y}
    <3>1. X \subseteq Y /\ x \in Y /\ x \notin X /\ Y \subseteq D
      <4>1. \A m \in D : m \in Nat /\ (m < x => m < y)
        BY <1>3, <2>6
      <4>2. x \in Nat /\ ~(x < x)
        BY <1>3
      <4> QED BY <2>6, <4>1, <4>2
    <3>2. CountBelow(D, x) = Cardinality(X) /\ CountBelow(D, y) = Cardinality(Y)
      BY DEF CountBelow
    <3> HIDE DEF X, Y
    <3>3. IsFiniteSet(Y)
      BY <1>3, <3>1, FS_Subset
    <3>4. Cardinality(X) = Cardinality(Y) => X = Y
      BY <3>1, <3>3, FS_Subset
    <3> QED BY <3>1, <3>2, <3>4
  <2>7. ~(list[i] < sid) /\ ~(sid < list[i]) /\ list[i] \in Nat
    BY <1>3, <2>5, <2>6
  <2>8. sid = list[i]
    BY <2>1, <2>7
  <2> QED BY <2>4, <2>8, Zenon
<1> QED BY <1>5, <1>6, <1>7, <1>8 DEF N, list
=============================================================================
