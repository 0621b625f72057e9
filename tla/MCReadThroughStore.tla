------------------------ MODULE MCReadThroughStore ------------------------
(* Small instances of ReadThroughStore for TLC. *)
EXTENDS ReadThroughStore
=============================================================================
