--------------------------- MODULE MCSessionStore ---------------------------
(* SessionStore on a small instance for TLC. *)
EXTENDS SessionStore, TLC

\* Only safety is checked under symmetry; callers, users and pairs are named
\* nowhere, and no value of one kind is compared with another's.
Symmetry == Permutations(Users) \cup Permutations(Callers) \cup Permutations(Pairs)
=============================================================================
