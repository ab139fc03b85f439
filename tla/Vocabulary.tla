----------------------------- MODULE Vocabulary -----------------------------
(***************************************************************************)
(* The catalogue and the study lists over it: WordCatalogue and StudyList  *)
(* joined by the foreign keys of src/migrations/000003_words.up.sql and    *)
(* the deletion of users.                                                  *)
(***************************************************************************)
EXTENDS WordCatalogue

CONSTANTS Listable, NotListed

ASSUME VocabularyAssumption == Listable \subseteq Users \X Terms

VARIABLE entry

Study == INSTANCE StudyList

vars == <<alive, catalogueVars, entry>>

VocabularyInit == Init /\ Study!Init

Learn(e) ==
  /\ \/ /\ e[1] \in alive /\ e[2] \in Stored
        /\ \E status \in Study!Statuses : Study!AddWordToUser(e, status)
     \/ \E status \in Study!Statuses : Study!UpdateUserWord(e, status)
     \/ Study!RemoveWordFromUser(e)
     \/ \E correct \in BOOLEAN : Study!RecordReview(e, correct)
     \/ Study!Elapse(e)
  /\ UNCHANGED <<alive, catalogueVars>>

\* DELETE FROM users, with what the foreign keys to it do.
DeleteUser(u) ==
  /\ u \in alive
  /\ alive' = alive \ {u}
  /\ OwnerDeleted(u)
  /\ Study!DropUser(u)

Next ==
  \/ CatalogueNext /\ UNCHANGED entry
  \/ \E e \in Listable : Learn(e)
  \/ \E u \in Users : DeleteUser(u)

\* ListUserWords and CountUserWords: entries joined with their words.
ListUserWords(u, statuses, dueOnly) ==
  {e \in Study!EntriesOf(u) :
     /\ e[2] \in Stored
     /\ entry[e].status \in statuses
     /\ dueOnly => Study!IsDue(e)}

Spec == VocabularyInit /\ [][Next]_vars

-----------------------------------------------------------------------------
TypeOK == CatalogueTypeOK /\ Study!TypeOK

ScheduleFollowsBox == Study!ScheduleFollowsBox

\* The progress header is one query over user_words, the lists behind it are
\* others that join the words: whatever has been reviewed, archived or deleted,
\* each number is the length of the list it stands for.
StatsMatchLists ==
  \A u \in alive :
    LET stats == Study!GetUserWordStats(u)
        all   == Study!Statuses
    IN  /\ stats.total = Cardinality(ListUserWords(u, all, FALSE))
        /\ stats.due = Cardinality(ListUserWords(u, all, TRUE))
        /\ \A s \in all : stats.by[s] = Cardinality(ListUserWords(u, {s}, FALSE))

\* 000003_words.up.sql:16, "deleting a person must not delete vocabulary other
\* people are studying", nor their progress; and no step takes a word over: it
\* stays its contributor's until they are deleted, and is nobody's from then on.
VocabularyStays ==
  [][/\ \A t \in Stored : word'[t] = IF word[t] \in alive' THEN word[t] ELSE NoUser
     /\ alive' # alive =>
          \A e \in Listable : e[1] \in alive' => entry'[e] = entry[e]]_vars
=============================================================================
