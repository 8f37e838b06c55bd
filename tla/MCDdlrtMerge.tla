---------------------------- MODULE MCDdlrtMerge -----------------------------
(***************************************************************************)
(* Instances of DdlrtMerge: 17 clusters of 8 nodes as in                   *)
(* parameterConfiguration.xml, the first two rows of OA_1.txt and the      *)
(* first row of OA_2.txt, so that the second batch uses another rack row.  *)
(***************************************************************************)
EXTENDS DdlrtMerge

CONSTANTS KMax, RMax, ZMax

MCOA1 == << [i \in 1..17 |-> i], [i \in 1..17 |-> (i % 17) + 1] >>
MCOA2 == << <<2, 3, 4, 5, 6, 7, 8, 1>> >>

(***************************************************************************)
(* Every configuration within the bounds that validateConfig accepts and   *)
(* that has one or two merge rounds, and one with three rounds.            *)
(***************************************************************************)
MCConfigs ==
    {c \in [k : 1..KMax, r : 1..RMax, z : 1..ZMax] :
        ConfigValid(c) /\ MergeRounds(c) \in 1..2}
    \cup {[k |-> 6, r |-> 2, z |-> 2]}

(***************************************************************************)
(* A configuration whose second round shares tails that its first round    *)
(* already filled.                                                         *)
(***************************************************************************)
MCSharedTailOverflow == {[k |-> 10, r |-> 2, z |-> 2]}
=============================================================================
