---------------------------- MODULE MCRefreshGate ----------------------------
(***************************************************************************)
(* Instances of RefreshGate; the constants are in the .cfg files.          *)
(***************************************************************************)
EXTENDS RefreshGate
==============================================================================
