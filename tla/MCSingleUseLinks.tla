-------------------------- MODULE MCSingleUseLinks --------------------------
(* SingleUseLinks on a small instance for TLC. *)
EXTENDS SingleUseLinks, TLC

AllEndpoints == {"register", "create", "forgot", "reset", "verify", "delete"}

\* Requests and links are interchangeable.
Symmetry == Permutations(Requests) \cup Permutations(Links)
=============================================================================
