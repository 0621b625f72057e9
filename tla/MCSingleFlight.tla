--------------------------- MODULE MCSingleFlight ---------------------------
(***************************************************************************)
(* An instance of SingleFlight without symmetry, which liveness rules out. *)
(***************************************************************************)
EXTENDS SingleFlight
=============================================================================
