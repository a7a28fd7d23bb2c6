------------------------ MODULE MCTrafficAccounting -------------------------
(* Usernames are interchangeable and every property is a safety property.   *)
EXTENDS TrafficAccounting, TLC

Symmetry == Permutations(Users)
=============================================================================
