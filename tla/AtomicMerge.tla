----------------------------- MODULE AtomicMerge -----------------------------
(***************************************************************************)
(* What a DdlRT_LRC merge promises about one pair of stripes: a request is *)
(* answered with what really happened, the change of the stripe table is a *)
(* single step, and the parity blocks the table names are at every moment  *)
(* the right ones.                                                         *)
(***************************************************************************)
VARIABLES request,  \* "none", "pending", "failed" or "succeeded"
          merged,   \* the table holds the merged stripe instead of the pair
          intact    \* every parity block the table names has the right content

vars == <<request, merged, intact>>

Init ==
    /\ request = "none"
    /\ merged = FALSE
    /\ intact = TRUE

Ask ==
    /\ request # "pending" /\ ~merged
    /\ request' = "pending"
    /\ UNCHANGED <<merged, intact>>

Apply ==
    /\ request = "pending" /\ ~merged
    /\ merged' = TRUE
    /\ UNCHANGED <<request, intact>>

Answer ==
    /\ request = "pending"
    /\ request' = IF merged THEN "succeeded" ELSE "failed"
    /\ UNCHANGED <<merged, intact>>

Next == Ask \/ Apply \/ Answer

Spec == Init /\ [][Next]_vars
=============================================================================
