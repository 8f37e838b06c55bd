---------------------------- MODULE CodeStripes ------------------------------
(***************************************************************************)
(* A deployment of one of the codes other than DdlRT_LRC, as its           *)
(* configuration file says: RS stripes are merged, those of the four LRCs  *)
(* are repaired.                                                           *)
(***************************************************************************)
EXTENDS RsStripes, LrcStripes

vars == <<cfg, nextId, losses, rsVars, lrcVars>>

Init ==
    /\ cfg \in {c \in Configs : ConfigAccepted(c)}
    /\ nextId = 0 /\ losses = 0
    /\ RsInit /\ LrcInit

Next ==
    \/ cfg.code = "RS" /\ RsNext /\ UNCHANGED lrcVars
    \/ cfg.code # "RS" /\ LrcNext /\ UNCHANGED rsVars

Spec == Init /\ [][Next]_vars

(***************************************************************************)
(* Ids are handed out in order and every record has the shape its          *)
(* placement gives it, on existing racks and nodes.                        *)
(***************************************************************************)
TypeOK ==
    /\ cfg \in Configs /\ nextId \in 0..MaxIds /\ losses \in 0..MaxLosses
    /\ RsTypeOK /\ LrcTypeOK
=============================================================================
