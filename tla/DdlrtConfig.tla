----------------------------- MODULE DdlrtConfig -----------------------------
(***************************************************************************)
(* The parameters of a DdlRT_LRC deployment and what Config derives from   *)
(* them: the number of racks a stripe needs at each merge level, the merge *)
(* levels the 17 racks allow, and the placement geometry of one batch.     *)
(* Everything is a function of a parameter record c = [k, r, z]; the       *)
(* cluster dimensions are constants.                                       *)
(***************************************************************************)
EXTENDS Integers, FiniteSets, FiniteSetsExt

CONSTANTS ClusterNum,             \* clusters (racks) of the deployment
          DatanodeNumPerCluster,  \* nodes in each cluster
          LevelBound              \* no configuration reaches this merge level

ASSUME DimensionsAssumption ==
    /\ ClusterNum \in Nat \ {0}
    /\ DatanodeNumPerCluster \in Nat \ {0}
    /\ LevelBound \in Nat

(***************************************************************************)
(* Arithmetic the provers do not know: powers of two multiply.             *)
(***************************************************************************)
ASSUME PowersAssumption ==
    \A m \in 0..LevelBound :
        /\ 2^m \in Nat \ {0}
        /\ \A n \in 0..(LevelBound - m) : 2^(m + n) = 2^m * 2^n

(***************************************************************************)
(* Rounded-up division of two positive integers.                           *)
(***************************************************************************)
CeilDiv(a, b) == (a + b - 1) \div b

DataPerGroup(c) == c.k \div c.z
RackCapacity(c) == c.r + 1

(***************************************************************************)
(* Racks needed by a stripe of level l (2^l base stripes merged): the data *)
(* racks of every local group, and one rack for all the parities.          *)
(***************************************************************************)
Racks(c, l) == CeilDiv(2^l * DataPerGroup(c), RackCapacity(c)) * c.z + 1

(***************************************************************************)
(* Racks two stripes of level l-1 have in common when they can be merged   *)
(* in place; the parity rack is always one of them.                        *)
(***************************************************************************)
SharedRacks(c, l) == 2 * Racks(c, l - 1) - Racks(c, l)

LevelFits(c, l) ==
    /\ Racks(c, l) <= ClusterNum
    /\ SharedRacks(c, l) \in {1, 1 + c.z}

(***************************************************************************)
(* The number of merge rounds, N: the longest prefix of levels that fit.   *)
(***************************************************************************)
MergeRounds(c) == Max({n \in 0..LevelBound : \A l \in 1..n : LevelFits(c, l)})

(***************************************************************************)
(* The parameters validateConfig accepts for this code.                    *)
(***************************************************************************)
ConfigValid(c) ==
    /\ c.k > 0 /\ c.r >= 1 /\ c.z >= 1
    /\ c.k % c.z = 0
    /\ ClusterNum = 17
    /\ DatanodeNumPerCluster >= Max({c.r + c.z, c.r + 1})
    /\ Racks(c, 0) <= ClusterNum

-----------------------------------------------------------------------------
(***************************************************************************)
(* Geometry of one batch of 2^N consecutive stripes.                       *)
(***************************************************************************)
BatchSize(c) == 2^MergeRounds(c)
Positions(c) == 0..(BatchSize(c) - 1)
RacksPerGroup(c) == CeilDiv(DataPerGroup(c), RackCapacity(c))
TailLoad(c) == DataPerGroup(c) - (RacksPerGroup(c) - 1) * RackCapacity(c)

SharesTails_GroupsOnly(c, l) == SharedRacks(c, l) = c.z

SharesTails(c, l) == SharedRacks(c, l) = 1 + c.z

(***************************************************************************)
(* The union-find over tail racks, level by level.  At a level that shares *)
(* tails, the tail of the right half of each super-stripe joins the tail   *)
(* of its left half; the tail of a super-stripe is its rightmost stripe's. *)
(* Local groups never mix, so one class per position describes them all.   *)
(***************************************************************************)
LeftTail(l, pos)  == (pos \div 2^l) * 2^l + 2^(l - 1) - 1
RightTail(l, pos) == (pos \div 2^l) * 2^l + 2^l - 1

JoinTails(c, l, roots) ==
    [pos \in Positions(c) |->
       IF SharesTails(c, l) /\ roots[pos] = roots[RightTail(l, pos)]
       THEN roots[LeftTail(l, pos)]
       ELSE roots[pos]]

TailRoots(c) ==
    LET RootAt[l \in 0..MergeRounds(c)] ==
          IF l = 0 THEN [pos \in Positions(c) |-> pos]
          ELSE JoinTails(c, l, RootAt[l - 1])
    IN  RootAt[MergeRounds(c)]

(***************************************************************************)
(* Logical rack columns: 1 is the parity rack, then one column per class   *)
(* of tails and group, then one per full rack.                             *)
(***************************************************************************)
ParityCol == 1

RootSet(c) == LET roots == TailRoots(c) IN {roots[pos] : pos \in DOMAIN roots}

TailCol(c, pos, g) ==
    LET root == TailRoots(c)[pos]
    IN  2 + Cardinality({q \in RootSet(c) : q < root}) * c.z + g

FullCol_NoGroup(c, pos, g, rack) ==
    2 + Cardinality(RootSet(c)) * c.z + pos * (RacksPerGroup(c) - 1) + rack

FullCol(c, pos, g, rack) ==
    2 + Cardinality(RootSet(c)) * c.z
      + (pos * c.z + g) * (RacksPerGroup(c) - 1) + rack

LogicalRacks(c) ==
    1 + Cardinality(RootSet(c)) * c.z
      + BatchSize(c) * c.z * (RacksPerGroup(c) - 1)

(***************************************************************************)
(* First node column a stripe uses in its tail racks: earlier stripes of   *)
(* the same class come before it.                                          *)
(***************************************************************************)
TailOffset_Zero(c, pos) == 0

TailOffset(c, pos) ==
    LET roots == TailRoots(c)
    IN  TailLoad(c) * Cardinality({q \in 0..(pos - 1) : roots[q] = roots[pos]})

(***************************************************************************)
(* The two runtime_errors of the placement that depend on the parameters.  *)
(***************************************************************************)
PlacementFits(c, pos) ==
    /\ LogicalRacks(c) <= 17
    /\ TailOffset(c, pos) + TailLoad(c) <= RackCapacity(c)

(***************************************************************************)
(* Where data block i of the stripe at pos goes: local group, logical rack *)
(* column and logical node column.                                         *)
(***************************************************************************)
DataSlot_ZeroBased(c, pos, i) ==
    [group |-> i \div DataPerGroup(c),
     col   |-> TailCol(c, pos, i \div DataPerGroup(c)),
     ncol  |-> i % DataPerGroup(c)]

DataSlot(c, pos, i) ==
    LET g      == i \div DataPerGroup(c)
        within == i % DataPerGroup(c)
        rack   == within \div RackCapacity(c)
        index  == within % RackCapacity(c)
        isTail == rack = RacksPerGroup(c) - 1
    IN  [group |-> g,
         col   |-> IF isTail THEN TailCol(c, pos, g) ELSE FullCol(c, pos, g, rack),
         ncol  |-> (IF isTail THEN TailOffset(c, pos) ELSE 0) + index + 1]
=============================================================================
