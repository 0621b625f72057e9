---------------------------- MODULE MCCollateral ----------------------------
(* Collateral for TLC. *)
EXTENDS Collateral, TLC

\* Tasks are interchangeable, and so are issues: nothing compares them.
Symmetry == Permutations(Jobs) \cup Permutations(Issues)
=============================================================================
