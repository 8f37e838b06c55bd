---------------------------- MODULE MCMergeRounds ----------------------------
(***************************************************************************)
(* Instances of MergeRounds for TLC.                                       *)
(***************************************************************************)
EXTENDS MergeRounds

Mode(code, threads, shared) == [code |-> code, threads |-> threads, shared |-> shared]

(***************************************************************************)
(* DdlRT_LRC with every use of the system, RS with the default of one      *)
(* thread and a client alone.                                              *)
(***************************************************************************)
MCModes == {Mode("DdlRT_LRC", 1, TRUE), Mode("DdlRT_LRC", 2, TRUE),
            Mode("DdlRT_LRC", 2, FALSE), Mode("RS", 1, FALSE)}

(***************************************************************************)
(* The defaults: one thread.                                               *)
(***************************************************************************)
MCDefault == {Mode("DdlRT_LRC", 1, FALSE)}

(***************************************************************************)
(* RS merges in two threads.                                               *)
(***************************************************************************)
MCRsThreads == {Mode("RS", 2, FALSE)}
=============================================================================
