------------------------------ MODULE MCSetPath -------------------------------
(***************************************************************************)
(* Instances of SetPath for TLC.                                           *)
(***************************************************************************)
EXTENDS SetPath

CONSTANTS c1, c2
OneClient  == {c1}
TwoClients == {c1, c2}
=============================================================================
