------------------------------- MODULE Sorting -------------------------------
(***************************************************************************)
(* The order in which the code goes over ids, racks and block numbers: it  *)
(* keeps them in std::map and std::set, or sorts the vector.               *)
(***************************************************************************)
EXTENDS Integers, FiniteSets

Ascending(S) ==
    [i \in 1..Cardinality(S) |-> CHOOSE n \in S : Cardinality({m \in S : m < n}) = i - 1]
=============================================================================
