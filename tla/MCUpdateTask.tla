----------------------------- MODULE MCUpdateTask -----------------------------
(* Two presses of the update button race the daily and the manual update.     *)
EXTENDS UpdateTask, TLC

CONSTANTS b1, b2

Symmetry == Permutations(Presses)
=============================================================================
