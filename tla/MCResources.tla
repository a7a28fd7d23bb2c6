----------------------------- MODULE MCResources ------------------------------
(* Inbounds and free ports are interchangeable; every property is a safety    *)
(* property.                                                                  *)
EXTENDS Resources, TLC

CONSTANTS i1, i2, c1, p1, p2, p3

Symmetry == Permutations(Inbounds) \cup Permutations(Ports \ Reserved)
=============================================================================
