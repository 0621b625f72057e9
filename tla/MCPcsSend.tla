----------------------------- MODULE MCPcsSend ------------------------------
(* PcsSend for TLC. *)
EXTENDS PcsSend
=============================================================================
