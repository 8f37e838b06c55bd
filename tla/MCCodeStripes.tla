---------------------------- MODULE MCCodeStripes ----------------------------
(***************************************************************************)
(* Instances of CodeStripes: 17 clusters of 8 nodes, the first two rows of *)
(* OA_1.txt and of OA_2.txt, so that two consecutive batches share their   *)
(* rack row and differ in their node row.                                  *)
(***************************************************************************)
EXTENDS CodeStripes

MCOA1 == << [i \in 1..17 |-> i], [i \in 1..17 |-> (i % 17) + 1] >>
MCOA2 == << <<2, 3, 4, 5, 6, 7, 8, 1>>, <<1, 5, 8, 3, 7, 6, 4, 2>> >>

Code(name, k, r, z) == [code |-> name, k |-> k, r |-> r, z |-> z]

(***************************************************************************)
(* RS: r divides k; three rounds with second merges that lose blocks; r-1  *)
(* and r blocks per rack; parities on two racks.  LRC: configurations the  *)
(* repair and the rack tolerance hold for and others they do not, the last *)
(* with data in no local group; one that wraps around the 17 racks; two    *)
(* whose nodes run out; one refused.                                       *)
(***************************************************************************)
MCConfigs ==
    {Code("RS", 6, 2, 0), Code("RS", 3, 2, 0), Code("RS", 8, 3, 0), Code("RS", 9, 4, 0),
     Code("UniLRC", 6, 3, 3), Code("UniLRC", 12, 6, 3),
     Code("AzureLRC", 6, 4, 2), Code("AzureLRC", 8, 3, 2), Code("AzureLRC", 4, 9, 2),
     Code("OptimalLRC", 10, 3, 2), Code("OptimalLRC", 26, 1, 2),
     Code("OptimalLRC", 14, 6, 2), Code("OptimalLRC", 16, 7, 2),
     Code("UniformLRC", 10, 4, 2), Code("UniformLRC", 9, 4, 2), Code("UniformLRC", 9, 7, 2),
     Code("UniformLRC", 12, 2, 3), Code("UniformLRC", 27, 2, 6)}
=============================================================================
