--------------------------- MODULE MCPlatformPool ---------------------------
(***************************************************************************)
(* Instances of PlatformPool.  Tasks, raw levels, certificate levels and   *)
(* credentials are interchangeable.                                        *)
(***************************************************************************)
EXTENDS PlatformPool, TLC

Symmetry == Permutations(Jobs) \cup Permutations(Raws) \cup Permutations(Tcbms)
=============================================================================
