------------------------------ MODULE MCGates ------------------------------
(* Two pull requests, which are interchangeable.                           *)
EXTENDS PolicyGates, TLC

Symmetry == Permutations(PRs)
=============================================================================
