----------------------------- MODULE CodeConfig ------------------------------
(***************************************************************************)
(* What the deployments of the codes other than DdlRT_LRC share: the       *)
(* configuration file, the orthogonal arrays, the merge rounds Config      *)
(* derives for them and the conditions validateConfig asserts.             *)
(* A configuration is a record [code, k, r, z].                            *)
(***************************************************************************)
EXTENDS Integers, FiniteSets, FiniteSetsExt, Sequences, SequencesExt, TLC

CONSTANTS ClusterNum, DatanodeNumPerCluster,
          OA1, OA2,     \* the rows of OA_1.txt and OA_2.txt
          Configs,      \* the configurations a deployment may be started with
          LevelBound,   \* bound: merge rounds get_N looks at
          MaxIds,       \* bound: ids handed out to uploads
          MaxLosses     \* bound: uploads that fail and stripes that are deleted

VARIABLES cfg,      \* the configuration of this deployment
          nextId,   \* m_cur_stripe_id
          losses    \* failed uploads and deletions so far, for the bound only

CeilDiv(a, b) == (a + b - 1) \div b

(***************************************************************************)
(* get_N and get_num_arry: the rounds of merging that fit the clusters,    *)
(* and by how much a round's racks fall short of twice the last round's.   *)
(***************************************************************************)
RsRacks(c, level) == CeilDiv(2^level * c.k + c.r, c.r)
RsRounds(c) ==
    LET last == {n \in 0..LevelBound :
                   RsRacks(c, n) <= ClusterNum /\ RsRacks(c, n + 1) > ClusterNum}
    IN  IF last = {} THEN 0 ELSE Min(last)
NumArry(c, round) == 2 * RsRacks(c, round - 1) - RsRacks(c, round)

(***************************************************************************)
(* UniformLRC spreads its k+r blocks over z local groups (rows), the last  *)
(* ones larger by one, and every row over racks of at most r+1 blocks.     *)
(***************************************************************************)
UniformSmaller(c)    == c.z - ((c.k + c.r) % c.z)
UniformSize(c, row)  ==
    (c.k + c.r) \div c.z + (IF row >= UniformSmaller(c) THEN 1 ELSE 0)
UniformRacks(c, row) == CeilDiv(UniformSize(c, row), c.r + 1)

(***************************************************************************)
(* What the rows before a row take together, at small or large each.       *)
(***************************************************************************)
UniformBefore(c, row, small, large) ==
    IF row <= UniformSmaller(c) THEN row * small
    ELSE UniformSmaller(c) * small + (row - UniformSmaller(c)) * large

UniformFirstRack(c, row) ==
    LET size == (c.k + c.r) \div c.z
    IN  UniformBefore(c, row, CeilDiv(size, c.r + 1), CeilDiv(size + 1, c.r + 1))

OptimalAccepted_NoSpareNode(c) ==
    /\ DatanodeNumPerCluster > c.r
    /\ ClusterNum > CeilDiv(c.k, c.z * (c.r + 1)) * c.z + 1

OptimalAccepted(c) ==
    /\ DatanodeNumPerCluster > c.r + 1
    /\ ClusterNum > CeilDiv(c.k, c.z * (c.r + 1)) * c.z + 1

(***************************************************************************)
(* validateConfig, and for UniLRC what loadConfig derives from alpha.      *)
(***************************************************************************)
ConfigAccepted(c) ==
    CASE c.code = "RS" -> ClusterNum * DatanodeNumPerCluster >= c.k + c.r
      [] c.code = "UniLRC" ->
            /\ c.r % c.z = 0 /\ c.k = c.r * (c.z - 1)
            /\ DatanodeNumPerCluster > (c.k + c.r + c.z) \div c.z
            /\ ClusterNum > c.z
      [] c.code = "AzureLRC" ->
            /\ DatanodeNumPerCluster > c.k \div c.z + 1
            /\ ClusterNum > c.z + 1
      [] c.code = "OptimalLRC" -> OptimalAccepted(c)
      [] c.code = "UniformLRC" ->
            /\ DatanodeNumPerCluster > c.r
            /\ ClusterNum > UniformFirstRack(c, c.z)

(***************************************************************************)
(* RS needs at least as many data blocks as parities: with fewer its       *)
(* placement calls parity blocks data, and its columns must exist.         *)
(***************************************************************************)
ColumnsExist(c) == 2^RsRounds(c) + RsRacks(c, 0) - 3 < 17

Codes == {"RS", "UniLRC", "AzureLRC", "OptimalLRC", "UniformLRC"}

(***************************************************************************)
(* AzureLRC and OptimalLRC divide the data into z equal local groups; the  *)
(* code rounds k/z down without asking that z divides k.  The encoder of   *)
(* UniformLRC divides by (k+r)/z, which must not be 0.                     *)
(***************************************************************************)
EqualGroups(c)    == c.code \in {"AzureLRC", "OptimalLRC"} => c.k % c.z = 0
NonemptyGroups(c) == c.code = "UniformLRC" => c.z <= c.k + c.r

(* The bounds of the model are numbers.                                    *)
ASSUME BoundsAssumption == MaxIds \in Nat /\ MaxLosses \in Nat

ASSUME CodeAssumption ==
    /\ ClusterNum \in Nat \ {0} /\ DatanodeNumPerCluster \in Nat \ {0}
    /\ LevelBound \in Nat
    /\ Configs \subseteq [code : Codes, k : Nat \ {0}, r : Nat \ {0}, z : Nat]
    /\ \A c \in Configs : c.code # "RS" => c.z > 0 /\ EqualGroups(c) /\ NonemptyGroups(c)
    /\ OA1 \in Seq(Seq(Nat)) \ {<<>>} /\ OA2 \in Seq(Seq(Nat)) \ {<<>>}
    /\ \A row \in ToSet(OA1) : Len(row) = 17 /\ ToSet(row) = 1..17
    /\ \A row \in ToSet(OA2) : Len(row) = DatanodeNumPerCluster
                               /\ ToSet(row) = 1..DatanodeNumPerCluster
    /\ \A c \in Configs : c.code = "RS" => /\ c.k >= c.r /\ ColumnsExist(c)
                                          /\ RsRacks(c, LevelBound) > ClusterNum

(***************************************************************************)
(* Arithmetic the prover does not know.                                    *)
(***************************************************************************)
ASSUME PowersAssumption ==
    /\ 2^0 = 1
    /\ \A n \in 0..LevelBound : 2^n \in Nat \ {0} /\ 2^(n + 1) = 2 * 2^n

-----------------------------------------------------------------------------
(***************************************************************************)
(* Places are <<rack, node of the rack>>, rows and columns as in the code. *)
(***************************************************************************)
OaRack(row1, col) == (OA1[row1 + 1][col + 1] - 1) % ClusterNum
OaNode(row2, col) ==
    (OA2[row2 + 1][(col % Len(OA2[row2 + 1])) + 1] - 1) % DatanodeNumPerCluster
=============================================================================
