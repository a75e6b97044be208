------------------------------ MODULE MCLogin -------------------------------
(* Login for TLC: no definition tells clients apart.                         *)
EXTENDS Login, TLC

Symmetry == Permutations(Clients)
=============================================================================
