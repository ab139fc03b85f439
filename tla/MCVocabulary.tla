---------------------------- MODULE MCVocabulary ----------------------------
(* Vocabulary on a small instance for TLC. *)
EXTENDS Vocabulary, TLC

CONSTANTS u1, u2

SmallAnswers == {<<>>, <<"usable", "refused">>, <<"blank", "usable">>}

\* One person follows the study of one word.
OneEntry == {<<u2, 1>>}

Symmetry == Permutations(Requests)
=============================================================================
