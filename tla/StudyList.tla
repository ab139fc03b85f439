----------------------------- MODULE StudyList -----------------------------
(***************************************************************************)
(* What one person knows of one word: the table user_words and the         *)
(* statements of src/app/repository/db/user_words.sql.go.  Each operation  *)
(* is one statement, atomic by the row lock it takes.                      *)
(*                                                                         *)
(* due_at is modelled by its distance from last_reviewed_at, in days, and  *)
(* by whether it has passed.  Notes, favourites and the counters of        *)
(* reviews have no part in it.                                             *)
(***************************************************************************)
EXTENDS Integers, FiniteSets

CONSTANTS
  Listable,  \* the pairs of a user and a word whose rows are followed
  NotListed  \* no row

VARIABLE entry

Statuses == {"learning", "known", "archived"}
TopBox == 5

SameDay == 0      \* ten minutes
Unreviewed == -1  \* due since it was added

\* The interval that belongs to a box.
IntervalOf == <<1, 2, 4, 7, 15>>

Listed(e) == entry[e] # NotListed

Init == entry = [e \in Listable |-> NotListed]

\* AddWordToUser; ON CONFLICT the row that is there is returned as it is.
AddWordToUser(e, status) ==
  /\ ~ Listed(e)
  /\ entry' = [entry EXCEPT ![e] = [status |-> status, box |-> 0, wait |-> Unreviewed, due |-> TRUE]]

UpdateUserWord(e, status) ==
  /\ Listed(e)
  /\ entry' = [entry EXCEPT ![e].status = status]

RemoveWordFromUser(e) ==
  /\ Listed(e)
  /\ entry' = [entry EXCEPT ![e] = NotListed]

\* RecordReview: every right-hand side reads the row as it was.
\* (mutant) The CASE takes box for the box after the promotion.
RecordReview_NewBox(e, correct) ==
  /\ Listed(e)
  /\ LET b == entry[e].box
     IN  entry' = [entry EXCEPT ![e] =
           [status |-> @.status,
            box    |-> IF correct THEN (IF b < TopBox THEN b + 1 ELSE TopBox) ELSE 0,
            wait   |-> IF correct /\ b > 0 THEN IntervalOf[b] ELSE SameDay,
            due    |-> FALSE]]
\* (mutant) LEAST forgotten.
RecordReview_NoCap(e, correct) ==
  /\ Listed(e)
  /\ entry' = [entry EXCEPT ![e].box = IF correct THEN @ + 1 ELSE 0]
RecordReview(e, correct) ==
  /\ Listed(e)
  /\ LET b == entry[e].box
     IN  entry' = [entry EXCEPT ![e] =
           [status |-> IF @.status = "archived" THEN @.status
                       ELSE IF correct /\ b + 1 >= TopBox THEN "known" ELSE "learning",
            box    |-> IF ~ correct THEN 0 ELSE IF b < TopBox THEN b + 1 ELSE TopBox,
            wait   |-> IF ~ correct THEN SameDay
                       ELSE IF b + 1 < TopBox THEN IntervalOf[b + 1] ELSE IntervalOf[5],
            due    |-> FALSE]]

\* The clock passes due_at.
Elapse(e) ==
  /\ Listed(e)
  /\ ~ entry[e].due
  /\ entry' = [entry EXCEPT ![e].due = TRUE]

\* The rows of a user that is deleted: ON DELETE CASCADE.
DropUser(u) ==
  entry' = [e \in Listable |-> IF e[1] = u THEN NotListed ELSE entry[e]]

EntriesOf(u) == {e \in Listable : e[1] = u /\ Listed(e)}

\* The review queue has what is due and not archived.
IsDue(e) == entry[e].due /\ entry[e].status # "archived"

\* GetUserWordStats, which does not look at words.
\* (mutant) Archived entries are counted among the due ones.
GetUserWordStats_AllDue(u) ==
  LET rows == EntriesOf(u)
  IN  [total |-> Cardinality(rows),
       due   |-> Cardinality({e \in rows : entry[e].due}),
       by    |-> [s \in Statuses |-> Cardinality({e \in rows : entry[e].status = s})]]
GetUserWordStats(u) ==
  LET rows == EntriesOf(u)
  IN  [total |-> Cardinality(rows),
       due   |-> Cardinality({e \in rows : IsDue(e)}),
       by    |-> [s \in Statuses |-> Cardinality({e \in rows : entry[e].status = s})]]

-----------------------------------------------------------------------------
TypeOK ==
  entry \in [Listable -> {NotListed} \cup
                         [status : Statuses, box : 0..TopBox, wait : -1..15, due : BOOLEAN]]

\* user_words.sql.go:311, "the counters and the next due date can never disagree":
\* after any sequence of reviews, re-additions, updates and removals an entry waits for
\* as long as its box says, unless it was never reviewed.
ScheduleFollowsBox ==
  \A e \in Listable : Listed(e) =>
    LET x == entry[e]
    IN  \/ x.box = 0 /\ x.wait \in {Unreviewed, SameDay}
        \/ x.box > 0 /\ x.wait = IntervalOf[x.box]
=============================================================================
