---------------------------- MODULE MCAuthFlows ----------------------------
(* AuthFlows on a small instance for TLC. *)
EXTENDS AuthFlows, TLC

SessionOperations == {"login", "refresh", "logout", "logoutAll", "change", "reset"}
UpdateOperations == {"login", "refresh", "change", "update", "delete"}
ResetOperations == {"login", "reset"}
RefreshOperations == {"login", "refresh"}

\* Requests and pairs are interchangeable; not used where liveness is checked.
Symmetry == Permutations(Requests) \cup Permutations(Pairs)
=============================================================================
