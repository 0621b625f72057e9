--------------------------- MODULE MCPckSelection ---------------------------
(* PckSelection for TLC: two components, so that TCBs may be incomparable. *)
EXTENDS PckSelection
=============================================================================
