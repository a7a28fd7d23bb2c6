---------------------------- MODULE MCSiteLedger -----------------------------
(* Two connections closed on the first day and one on the second. *)
EXTENDS SiteLedger

CONSTANTS r1, r2, r3

MCDay == [r \in Records |-> IF r = r3 THEN 1 ELSE 0]
=============================================================================
