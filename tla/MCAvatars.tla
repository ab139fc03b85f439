----------------------------- MODULE MCAvatars -----------------------------
(* Avatars on a small instance for TLC. *)
EXTENDS Avatars, TLC

Symmetry == Permutations(Requests) \cup Permutations(Keys) \cup Permutations(Users)
=============================================================================
