------------------------------ MODULE MCMergeTxn ------------------------------
(***************************************************************************)
(* Instances of MergeTxn for TLC.  Two parities are the least a stripe can *)
(* have (r = z = 1) and enough for one call to fail while another answers. *)
(***************************************************************************)
EXTENDS MergeTxn

CONSTANTS r1
MCReaders == {r1}
MCNoReaders == {}
=============================================================================
