------------------------------- MODULE MCEdge -------------------------------
(* Edge on a small instance for TLC. *)
EXTENDS Edge
=============================================================================
