-------------------------- MODULE VocabularyProofs --------------------------
(***************************************************************************)
(* Vocabulary, proved for any users, terms, requests, pages and answers of *)
(* the enricher.                                                           *)
(***************************************************************************)
EXTENDS Vocabulary, PaginationProofs, FiniteSetTheorems, WellFoundedInduction

(***************************************************************************)
(* Study lists                                                             *)
(***************************************************************************)
StudyInv == Study!TypeOK /\ Study!ScheduleFollowsBox

\* A review moves an entry to a box and to the interval of that box.
LEMMA ReviewFollowsBox ==
  ASSUME Study!TypeOK, NEW e \in Listable, NEW correct \in BOOLEAN,
         Study!RecordReview(e, correct)
  PROVE  LET x == entry'[e]
         IN  /\ x \in [status : Study!Statuses, box : 0..Study!TopBox,
                       wait : -1..15, due : BOOLEAN]
             /\ \/ x.box = 0 /\ x.wait \in {Study!Unreviewed, Study!SameDay}
                \/ x.box > 0 /\ x.wait = Study!IntervalOf[x.box]
<1> DEFINE b == entry[e].box
           y == entry'[e]
<1>1. entry[e] \in [status : Study!Statuses, box : 0..Study!TopBox,
                    wait : -1..15, due : BOOLEAN]
  BY DEF Study!TypeOK, Study!RecordReview, Study!Listed
<1>2. b \in {0, 1, 2, 3, 4, 5}
  BY <1>1 DEF Study!TopBox
<1>3. /\ y.status = (IF entry[e].status = "archived" THEN entry[e].status
                     ELSE IF correct /\ b + 1 >= Study!TopBox THEN "known" ELSE "learning")
      /\ y.box = (IF ~ correct THEN 0 ELSE IF b < Study!TopBox THEN b + 1 ELSE Study!TopBox)
      /\ y.wait = (IF ~ correct THEN Study!SameDay
                   ELSE IF b + 1 < Study!TopBox THEN Study!IntervalOf[b + 1]
                   ELSE Study!IntervalOf[5])
      /\ y.due = FALSE
      /\ y = [status |-> y.status, box |-> y.box, wait |-> y.wait, due |-> y.due]
  BY DEF Study!RecordReview, Study!TypeOK
<1>4. /\ Study!IntervalOf[1] = 1 /\ Study!IntervalOf[2] = 2 /\ Study!IntervalOf[3] = 4
      /\ Study!IntervalOf[4] = 7 /\ Study!IntervalOf[5] = 15
  BY DEF Study!IntervalOf
<1>5. y.status \in Study!Statuses /\ y.due \in BOOLEAN
  BY <1>1, <1>3 DEF Study!Statuses
<1> DEFINE Good ==
      /\ y \in [status : Study!Statuses, box : 0..Study!TopBox,
                wait : -1..15, due : BOOLEAN]
      /\ \/ y.box = 0 /\ y.wait \in {Study!Unreviewed, Study!SameDay}
         \/ y.box > 0 /\ y.wait = Study!IntervalOf[y.box]
<1>6. ASSUME ~ correct PROVE Good
  <2>1. y.box = 0 /\ y.wait = 0
    BY <1>3, <1>6 DEF Study!SameDay
  <2> HIDE DEF y
  <2> QED
    BY <2>1, <1>3, <1>5 DEF Study!TopBox, Study!SameDay
<1>7. ASSUME correct PROVE Good
  <2>1. /\ y.box \in 1..5 /\ y.wait = Study!IntervalOf[y.box]
    BY <1>2, <1>3, <1>7 DEF Study!TopBox
  <2>2. y.wait \in -1..15
    BY <2>1, <1>4
  <2> HIDE DEF y
  <2> QED
    BY <2>1, <2>2, <1>3, <1>5 DEF Study!TopBox
<1> QED
  BY <1>6, <1>7

LEMMA StudyStep ==
  ASSUME StudyInv, [Next]_vars
  PROVE  StudyInv'
<1> USE DEF StudyInv
<1>1. ASSUME NEW e \in Listable, NEW status \in Study!Statuses,
             Study!AddWordToUser(e, status)
      PROVE  StudyInv'
  <2>1. /\ 0 \in 0..Study!TopBox /\ Study!Unreviewed \in -1..15
    BY DEF Study!TopBox, Study!Unreviewed
  <2> QED
    BY <1>1, <2>1 DEF Study!AddWordToUser, Study!TypeOK, Study!ScheduleFollowsBox,
      Study!Listed
<1>2. ASSUME NEW e \in Listable, NEW status \in Study!Statuses,
             Study!UpdateUserWord(e, status)
      PROVE  StudyInv'
  BY <1>2 DEF Study!UpdateUserWord, Study!TypeOK, Study!ScheduleFollowsBox, Study!Listed
<1>3. ASSUME NEW e \in Listable, Study!RemoveWordFromUser(e)
      PROVE  StudyInv'
  BY <1>3 DEF Study!RemoveWordFromUser, Study!TypeOK, Study!ScheduleFollowsBox, Study!Listed
<1>4. ASSUME NEW e \in Listable, NEW correct \in BOOLEAN,
             Study!RecordReview(e, correct)
      PROVE  StudyInv'
  <2>1. /\ entry' = [entry EXCEPT ![e] = entry'[e]]
        /\ \A f \in Listable : f # e => entry'[f] = entry[f]
    BY <1>4 DEF Study!RecordReview, Study!TypeOK
  <2> QED
    BY <1>4, <2>1, ReviewFollowsBox DEF Study!TypeOK, Study!ScheduleFollowsBox, Study!Listed
<1>5. ASSUME NEW e \in Listable, Study!Elapse(e)
      PROVE  StudyInv'
  BY <1>5 DEF Study!Elapse, Study!TypeOK, Study!ScheduleFollowsBox, Study!Listed
<1>6. ASSUME NEW u \in Users, Study!DropUser(u)
      PROVE  StudyInv'
  BY <1>6 DEF Study!DropUser, Study!TypeOK, Study!ScheduleFollowsBox, Study!Listed
<1>7. ASSUME UNCHANGED entry
      PROVE  StudyInv'
  BY <1>7 DEF Study!TypeOK, Study!ScheduleFollowsBox, Study!Listed
<1> QED
  BY <1>1, <1>2, <1>3, <1>4, <1>5, <1>6, <1>7 DEF Next, Learn, DeleteUser, vars

\* What an entry of a study list is in every reachable state.
THEOREM StudyTheorem == Spec => []StudyInv
<1>1. VocabularyInit => StudyInv
  BY DEF VocabularyInit, Study!Init, StudyInv, Study!TypeOK, Study!ScheduleFollowsBox,
    Study!Listed
<1> QED
  BY <1>1, StudyStep, PTL DEF Spec

\* user_words.sql.go:311, "the counters and the next due date can never disagree":
\* whatever sequence of reviews, archivings and re-additions an entry goes through.
THEOREM ScheduleTheorem == Spec => []ScheduleFollowsBox
<1>1. StudyInv => ScheduleFollowsBox
  BY DEF StudyInv, ScheduleFollowsBox
<1> QED
  BY <1>1, StudyTheorem, PTL

(***************************************************************************)
(* The catalogue                                                           *)
(***************************************************************************)
Slots(S) ==
  [actor : Users \cup {NoUser}, term : Terms \cup {Absent}, drafts : Seq(Drafts),
   page : Pages \cup {1}, limit : 1..MaxLimit, rows : SUBSET Terms, total : Nat,
   shown : SUBSET S]

Labels == {"idle", "enrich", "insert", "senses", "commit", "get",
           "list", "count", "readSenses", "answer"}

\* What a request has under way fits the tables.
RequestInv ==
  \A r \in Requests :
    /\ pc[r] # "idle" => loc[r].actor \in Users
    /\ pc[r] \in {"enrich", "insert", "senses", "commit", "get"} => loc[r].term \in Terms
    /\ Inserted(r) => word[loc[r].term] = Absent /\ loc[r].actor \in alive
    /\ pc[r] = "commit" => \A i \in DOMAIN loc[r].drafts : loc[r].drafts[i] # "refused"
    /\ pc[r] \in {"count", "readSenses", "answer"} =>
         \A t \in loc[r].rows : t \in Stored /\ contributor[t] = loc[r].actor
    /\ pc[r] = "answer" => loc[r].shown = SensesOf(loc[r].rows)

\* The unique index: one insert of a term at a time.
ExclusiveInv ==
  \A r, s \in Requests :
    Inserted(r) /\ Inserted(s) /\ loc[r].term = loc[s].term => r = s

\* A word belongs to whoever added it, as long as they have an account.
OwnerInv ==
  \A t \in Terms :
    /\ word[t] \in alive \cup {NoUser, Absent}
    /\ word[t] \in Users => contributor[t] = word[t]

\* Senses are those of stored words.
SensesInv == \A s \in senses : s.term \in Stored

CatalogueInv ==
  CatalogueTypeOK /\ RequestInv /\ ExclusiveInv /\ OwnerInv /\ SensesInv /\ WordsAreWhole

LEMMA SlotsGrow ==
  ASSUME NEW S, NEW T, S \subseteq T, NEW x \in Slots(S)
  PROVE  x \in Slots(T)
  BY DEF Slots

LEMMA NoLocalSlot == ASSUME NEW S PROVE NoLocal \in Slots(S)
<1>1. <<>> \in Seq(Drafts)
  OBVIOUS
<1>2. 1 \in 1..MaxLimit /\ 0 \in Nat
  BY PaginationAssumption
<1> QED
  BY <1>1, <1>2 DEF NoLocal, Slots

LEMMA CountIsNatural == ASSUME NEW S \in SUBSET Terms PROVE Cardinality(S) \in Nat
  BY CatalogueAssumption, FS_Subset, FS_CardinalityType

\* Nothing but the slot of one request changes.
Only(r, label, l) ==
  /\ pc' = [pc EXCEPT ![r] = label]
  /\ loc' = [loc EXCEPT ![r] = l]
  /\ UNCHANGED <<alive, word, senses, contributor, drafted>>

\* What such a step has to say of the slot.
Fits(r, label, l) ==
  /\ l.actor \in Users
  /\ label \in {"enrich", "insert", "senses", "commit", "get"} => l.term \in Terms
  /\ label \in {"senses", "commit"} =>
       /\ word[l.term] = Absent /\ l.actor \in alive
       /\ \A s \in Requests : s # r /\ Inserted(s) => loc[s].term # l.term
  /\ label = "commit" => \A i \in DOMAIN l.drafts : l.drafts[i] # "refused"
  /\ label \in {"count", "readSenses", "answer"} =>
       \A t \in l.rows : t \in Stored /\ contributor[t] = l.actor
  /\ label = "answer" => l.shown = SensesOf(l.rows)

LEMMA SlotStep ==
  ASSUME CatalogueInv, NEW r \in Requests, NEW label \in Labels, NEW l \in Slots(senses),
         Only(r, label, l), label = "idle" \/ Fits(r, label, l)
  PROVE  CatalogueInv'
<1>1. CatalogueTypeOK'
  BY DEF CatalogueInv, CatalogueTypeOK, Only, Slots, Labels
<1>2. /\ pc'[r] = label /\ loc'[r] = l
      /\ \A s \in Requests : s # r => pc'[s] = pc[s] /\ loc'[s] = loc[s]
  BY DEF CatalogueInv, CatalogueTypeOK, Only
<1>3. UNCHANGED <<alive, word, senses, contributor, drafted>>
  BY DEF Only
<1>4. RequestInv'
  BY <1>2, <1>3 DEF CatalogueInv, RequestInv, Fits, Inserted, Stored, SensesOf
<1>5. ExclusiveInv'
  BY <1>2, <1>3 DEF CatalogueInv, ExclusiveInv, Fits, Inserted
<1>6. OwnerInv' /\ SensesInv' /\ WordsAreWhole'
  BY <1>3 DEF CatalogueInv, OwnerInv, SensesInv, WordsAreWhole, Stored, SensesOf, Kept
<1> QED
  BY <1>1, <1>4, <1>5, <1>6 DEF CatalogueInv

LEMMA SlotType ==
  ASSUME CatalogueInv, NEW r \in Requests
  PROVE  loc[r] \in Slots(senses) /\ pc[r] \in Labels
  BY DEF CatalogueInv, CatalogueTypeOK, Slots, Labels

LEMMA FinishStep ==
  ASSUME CatalogueInv, NEW r \in Requests, Finish(r),
         UNCHANGED <<alive, word, senses, contributor, drafted>>
  PROVE  CatalogueInv'
<1>1. Only(r, "idle", NoLocal)
  BY DEF Finish, Goto, Only
<1>2. "idle" \in Labels
  BY DEF Labels
<1> QED
  BY <1>1, <1>2, SlotStep, NoLocalSlot

LEMMA ArriveStep ==
  ASSUME CatalogueInv, NEW r \in Requests, Arrive(r)
  PROVE  CatalogueInv'
<1>1. NoLocal \in Slots(senses)
  BY NoLocalSlot
<1>2. ASSUME NEW u \in Users, NEW t \in Terms, NEW label \in {"enrich", "get"},
             Begin(r, label, [NoLocal EXCEPT !.actor = u, !.term = t])
      PROVE  CatalogueInv'
  <2> DEFINE l == [NoLocal EXCEPT !.actor = u, !.term = t]
  <2>1. l \in Slots(senses)
    BY <1>1 DEF Slots
  <2>2. l.actor = u /\ l.term = t
    BY DEF NoLocal
  <2>3. Only(r, label, l)
    BY <1>2 DEF Begin, Only
  <2>4. label \in Labels
    BY DEF Labels
  <2> HIDE DEF l
  <2>5. Fits(r, label, l)
    BY <2>2 DEF Fits
  <2> QED
    BY <2>1, <2>3, <2>4, <2>5, SlotStep
<1>3. ASSUME NEW u \in Users, NEW page \in Pages, NEW limit \in 1..MaxLimit,
             List(r, u, page, limit)
      PROVE  CatalogueInv'
  <2> DEFINE l == [NoLocal EXCEPT !.actor = u, !.page = page, !.limit = limit]
  <2>1. l \in Slots(senses)
    BY <1>1 DEF Slots
  <2>2. l.actor = u
    BY DEF NoLocal
  <2>3. Only(r, "list", l)
    BY <1>3 DEF List, Begin, Only
  <2>4. "list" \in Labels
    BY DEF Labels
  <2> HIDE DEF l
  <2>5. Fits(r, "list", l)
    BY <2>2 DEF Fits
  <2> QED
    BY <2>1, <2>3, <2>4, <2>5, SlotStep
<1> QED
  BY <1>2, <1>3 DEF Arrive, CreateAndEnrich, Get

LEMMA EnrichStep ==
  ASSUME CatalogueInv, NEW r \in Requests, Enrich(r)
  PROVE  CatalogueInv'
<1>1. PICK drafts \in Answers :
        IF drafts = <<>> THEN Finish(r)
        ELSE Goto(r, "insert", [loc[r] EXCEPT !.drafts = drafts])
  BY DEF Enrich
<1>2. CASE drafts = <<>>
  BY <1>1, <1>2, FinishStep DEF Enrich
<1>3. CASE drafts # <<>>
  <2> DEFINE l == [loc[r] EXCEPT !.drafts = drafts]
  <2>1. l \in Slots(senses)
    BY SlotType, CatalogueAssumption DEF Slots
  <2>2. l.actor = loc[r].actor /\ l.term = loc[r].term
    BY SlotType DEF Slots
  <2>3. Only(r, "insert", l)
    BY <1>1, <1>3 DEF Enrich, Goto, Only
  <2>4. "insert" \in Labels
    BY DEF Labels
  <2>5. loc[r].actor \in Users /\ loc[r].term \in Terms
    BY DEF CatalogueInv, RequestInv, Enrich
  <2> HIDE DEF l
  <2>6. Fits(r, "insert", l)
    BY <2>2, <2>5 DEF Fits
  <2> QED
    BY <2>1, <2>3, <2>4, <2>6, SlotStep
<1> QED
  BY <1>2, <1>3

\* The row is checked under the unique index.
LEMMA InsertWordStep ==
  ASSUME CatalogueInv, NEW r \in Requests, InsertWord(r)
  PROVE  CatalogueInv'
<1>1. CASE word[loc[r].term] = Absent /\ loc[r].actor \in alive
  <2>1. loc[r] \in Slots(senses) /\ "senses" \in Labels
    BY SlotType DEF Labels
  <2>2. Only(r, "senses", loc[r])
    BY <1>1 DEF InsertWord, Goto, Only
  <2>3. Fits(r, "senses", loc[r])
    BY <1>1 DEF CatalogueInv, RequestInv, InsertWord, TermLocked, Fits
  <2> QED
    BY <2>1, <2>2, <2>3, SlotStep
<1>2. CASE ~ (word[loc[r].term] = Absent /\ loc[r].actor \in alive)
  BY <1>2, FinishStep DEF InsertWord
<1> QED
  BY <1>1, <1>2

LEMMA InsertSensesStep ==
  ASSUME CatalogueInv, NEW r \in Requests, InsertSenses(r)
  PROVE  CatalogueInv'
<1>1. CASE \E i \in DOMAIN loc[r].drafts : loc[r].drafts[i] = "refused"
  BY <1>1, FinishStep DEF InsertSenses
<1>2. CASE ~ \E i \in DOMAIN loc[r].drafts : loc[r].drafts[i] = "refused"
  <2>1. loc[r] \in Slots(senses) /\ "commit" \in Labels
    BY SlotType DEF Labels
  <2>2. Only(r, "commit", loc[r])
    BY <1>2 DEF InsertSenses, Goto, Only
  <2>3. Fits(r, "commit", loc[r])
    BY <1>2 DEF CatalogueInv, RequestInv, ExclusiveInv, InsertSenses, Inserted, Fits
  <2> QED
    BY <2>1, <2>2, <2>3, SlotStep
<1> QED
  BY <1>1, <1>2

LEMMA ReadStep ==
  ASSUME CatalogueInv, NEW r \in Requests,
         GetByID(r) \/ ListRows(r) \/ CountWords(r) \/ ReadSenses(r) \/ Answer(r)
  PROVE  CatalogueInv'
<1>1. /\ loc[r] \in Slots(senses)
      /\ pc[r] # "idle" => loc[r].actor \in Users
      /\ "count" \in Labels /\ "readSenses" \in Labels /\ "answer" \in Labels
  BY SlotType DEF CatalogueInv, RequestInv, Labels
<1>2. \A t \in Own(loc[r].actor) :
        loc[r].actor \in Users => t \in Stored /\ contributor[t] = loc[r].actor
  BY CatalogueAssumption DEF CatalogueInv, OwnerInv, Own, Stored
<1>3. CASE GetByID(r)
  <2> DEFINE l == [loc[r] EXCEPT !.rows = {loc[r].term}]
  <2>1. CASE word[loc[r].term] = loc[r].actor
    <3>1. loc[r].term \in Terms
      BY <1>3 DEF GetByID, CatalogueInv, RequestInv
    <3>2. l \in Slots(senses) /\ l.actor = loc[r].actor /\ l.rows = {loc[r].term}
      BY <1>1, <3>1 DEF Slots
    <3>3. Only(r, "readSenses", l)
      BY <1>3, <2>1 DEF GetByID, Goto, Only
    <3> HIDE DEF l
    <3>4. Fits(r, "readSenses", l)
      BY <1>1, <1>2, <1>3, <2>1, <3>1, <3>2 DEF GetByID, Own, Fits
    <3> QED
      BY <1>1, <3>2, <3>3, <3>4, SlotStep
  <2>2. CASE word[loc[r].term] # loc[r].actor
    BY <1>3, <2>2, FinishStep DEF GetByID
  <2> QED
    BY <2>1, <2>2
<1>4. CASE ListRows(r)
  <2> DEFINE offset == SqlOffset(loc[r].page, loc[r].limit)
             l == [loc[r] EXCEPT !.rows = Window(Own(loc[r].actor), offset, loc[r].limit)]
  <2>1. CASE offset < 0
    BY <1>4, <2>1, FinishStep DEF ListRows
  <2>2. CASE ~ (offset < 0)
    <3>1. /\ Window(Own(loc[r].actor), offset, loc[r].limit) \subseteq Own(loc[r].actor)
          /\ Own(loc[r].actor) \subseteq Terms
      BY DEF Window, Own
    <3>2. l \in Slots(senses) /\ l.actor = loc[r].actor /\ l.rows \subseteq Own(loc[r].actor)
      BY <1>1, <3>1 DEF Slots
    <3>3. Only(r, "count", l)
      BY <1>4, <2>2 DEF ListRows, Goto, Only
    <3> HIDE DEF l
    <3>4. Fits(r, "count", l)
      BY <1>1, <1>2, <1>4, <3>2 DEF ListRows, Fits
    <3> QED
      BY <1>1, <3>2, <3>3, <3>4, SlotStep
  <2> QED
    BY <2>1, <2>2
<1>5. CASE CountWords(r)
  <2> DEFINE n == Cardinality(Own(loc[r].actor))
             l == [loc[r] EXCEPT !.total = n]
  <2>1. n \in Nat
    BY CountIsNatural DEF Own
  <2>2. l \in Slots(senses) /\ l.actor = loc[r].actor /\ l.rows = loc[r].rows
    BY <1>1, <2>1 DEF Slots
  <2>3. Only(r, "readSenses", l)
    BY <1>5 DEF CountWords, Goto, Only
  <2> HIDE DEF l
  <2>4. Fits(r, "readSenses", l)
    BY <1>1, <1>5, <2>2 DEF CountWords, Fits, CatalogueInv, RequestInv
  <2> QED
    BY <1>1, <2>2, <2>3, <2>4, SlotStep
<1>6. CASE ReadSenses(r)
  <2> DEFINE l == [loc[r] EXCEPT !.shown = SensesOf(loc[r].rows)]
  <2>1. SensesOf(loc[r].rows) \in SUBSET senses
    BY DEF SensesOf
  <2>2. /\ l \in Slots(senses) /\ l.actor = loc[r].actor /\ l.rows = loc[r].rows
        /\ l.shown = SensesOf(loc[r].rows)
    BY <1>1, <2>1 DEF Slots
  <2>3. Only(r, "answer", l)
    BY <1>6 DEF ReadSenses, Goto, Only
  <2> HIDE DEF l
  <2>4. Fits(r, "answer", l)
    BY <1>1, <1>6, <2>2 DEF ReadSenses, Fits, CatalogueInv, RequestInv
  <2> QED
    BY <1>1, <2>2, <2>3, <2>4, SlotStep
<1>7. CASE Answer(r)
  BY <1>7, FinishStep DEF Answer
<1> QED
  BY <1>3, <1>4, <1>5, <1>6, <1>7

\* A commit makes the word and its senses visible at once.
LEMMA CommitStep ==
  ASSUME CatalogueInv, NEW r \in Requests, Commit(r)
  PROVE  CatalogueInv'
<1> DEFINE l == loc[r]
           t == l.term
           rows == Kept(t, l.drafts)
<1>1. /\ l \in Slots(senses) /\ t \in Terms /\ l.actor \in Users /\ l.actor \in alive
      /\ word[t] = Absent
      /\ \A i \in DOMAIN l.drafts : l.drafts[i] # "refused"
  BY SlotType DEF Commit, CatalogueInv, RequestInv, Inserted
<1>2. /\ word' = [word EXCEPT ![t] = l.actor]
      /\ senses' = senses \cup rows
      /\ contributor' = [contributor EXCEPT ![t] = l.actor]
      /\ drafted' = [drafted EXCEPT ![t] = l.drafts]
      /\ alive' = alive
  BY DEF Commit, Write
<1>3. \A s \in Requests : s # r =>
        /\ pc'[s] = pc[s] /\ loc'[s] = loc[s]
        /\ Inserted(s) => loc[s].term # t
  BY DEF Commit, Goto, Finish, CatalogueInv, CatalogueTypeOK, ExclusiveInv, Inserted
<1>4. \/ pc'[r] = "get" /\ loc'[r] = l
      \/ pc'[r] = "idle" /\ loc'[r] = NoLocal
  BY DEF Commit, Goto, Finish, CatalogueInv, CatalogueTypeOK
<1>5. \A s \in rows : s.term = t /\ s.order \in Nat
  BY <1>1 DEF Kept, Slots
<1>6. \A s \in senses : s.term # t
  BY <1>1 DEF CatalogueInv, SensesInv, Stored
<1>7. Absent \notin Users /\ NoUser # Absent
  BY CatalogueAssumption
<1>8. Stored' = Stored \cup {t} /\ t \notin Stored
  BY <1>1, <1>2, <1>7 DEF Stored, CatalogueInv, CatalogueTypeOK
<1>9. CatalogueTypeOK'
  <2>1. \A s \in Requests : loc'[s] \in Slots(senses')
    <3>1. NoLocal \in Slots(senses') /\ senses \subseteq senses'
      BY <1>2, NoLocalSlot
    <3> QED
      BY <3>1, <1>1, <1>3, <1>4, SlotType, SlotsGrow
  <2>2. /\ pc' \in [Requests -> Labels]
        /\ loc' = [s \in Requests |-> loc'[s]]
    BY <1>4 DEF Commit, Goto, Finish, Labels, CatalogueInv, CatalogueTypeOK
  <2>3. loc' \in [Requests -> Slots(senses')]
    BY <2>1, <2>2
  <2>4. /\ alive' \subseteq Users
        /\ word' \in [Terms -> Users \cup {NoUser, Absent}]
        /\ contributor' \in [Terms -> Users \cup {NoUser}]
    BY <1>1, <1>2 DEF CatalogueInv, CatalogueTypeOK
  <2>5. drafted' \in [Terms -> Seq(Drafts)]
    BY <1>1, <1>2 DEF CatalogueInv, CatalogueTypeOK, Slots
  <2>6. \A s \in senses' : s.term \in Terms /\ s.order \in Nat
    BY <1>1, <1>2, <1>5 DEF CatalogueInv, CatalogueTypeOK
  <2> QED
    BY <2>2, <2>3, <2>4, <2>5, <2>6 DEF CatalogueTypeOK, Labels, Slots
<1>10. RequestInv'
  <2> SUFFICES ASSUME NEW s \in Requests
               PROVE  (/\ pc[s] # "idle" => loc[s].actor \in Users
                       /\ pc[s] \in {"enrich", "insert", "senses", "commit", "get"} => loc[s].term \in Terms
                       /\ Inserted(s) => word[loc[s].term] = Absent /\ loc[s].actor \in alive
                       /\ pc[s] = "commit" => \A i \in DOMAIN loc[s].drafts : loc[s].drafts[i] # "refused"
                       /\ pc[s] \in {"count", "readSenses", "answer"} =>
                            \A x \in loc[s].rows : x \in Stored /\ contributor[x] = loc[s].actor
                       /\ pc[s] = "answer" => loc[s].shown = SensesOf(loc[s].rows))'
    BY DEF RequestInv
  <2>1. CASE s = r
    BY <2>1, <1>1, <1>4 DEF Inserted
  <2>2. CASE s # r
    <3> HIDE DEF rows
    <3>1. pc'[s] = pc[s] /\ loc'[s] = loc[s] /\ (Inserted(s))' = Inserted(s)
      BY <1>3, <2>2 DEF Inserted
    <3>2. Inserted(s) => word'[loc[s].term] = Absent /\ loc[s].actor \in alive'
      BY <1>2, <1>3, <2>2 DEF CatalogueInv, RequestInv, CatalogueTypeOK
    <3>3. pc[s] \in {"count", "readSenses", "answer"} =>
            \A x \in loc[s].rows : x \in Stored' /\ contributor'[x] = loc[s].actor
      BY <1>2, <1>8 DEF CatalogueInv, RequestInv, CatalogueTypeOK, Stored
    <3>4. pc[s] = "answer" => loc[s].shown = (SensesOf(loc[s].rows))'
      <4> SUFFICES ASSUME pc[s] = "answer"
                   PROVE  loc[s].shown = {y \in senses' : y.term \in loc[s].rows}
        BY <3>1 DEF SensesOf
      <4>1. /\ loc[s].shown = {y \in senses : y.term \in loc[s].rows}
            /\ t \notin loc[s].rows
        BY <1>8 DEF CatalogueInv, RequestInv, SensesOf
      <4> QED
        BY <4>1, <1>2, <1>5
    <3>5. /\ pc[s] # "idle" => loc[s].actor \in Users
          /\ pc[s] \in {"enrich", "insert", "senses", "commit", "get"} => loc[s].term \in Terms
          /\ pc[s] = "commit" => \A i \in DOMAIN loc[s].drafts : loc[s].drafts[i] # "refused"
      BY DEF CatalogueInv, RequestInv
    <3> QED
      BY <3>1, <3>2, <3>3, <3>4, <3>5
  <2> QED
    BY <2>1, <2>2
<1>11. ExclusiveInv'
  BY <1>3, <1>4 DEF CatalogueInv, ExclusiveInv, Inserted
<1>12. OwnerInv'
  BY <1>1, <1>2, <1>7 DEF CatalogueInv, OwnerInv, CatalogueTypeOK
<1>13. SensesInv'
  BY <1>2, <1>5, <1>8 DEF CatalogueInv, SensesInv
<1>14. WordsAreWhole'
  <2> SUFFICES ASSUME NEW x \in Stored'
               PROVE  /\ {y \in senses' : y.term \in {x}} = Kept(x, drafted'[x])
                      /\ \A i \in DOMAIN drafted'[x] : drafted'[x][i] # "refused"
    BY DEF WordsAreWhole, SensesOf, Kept
  <2>1. CASE x = t
    <3>1. drafted'[x] = l.drafts
      BY <2>1, <1>1, <1>2 DEF CatalogueInv, CatalogueTypeOK
    <3>2. {y \in senses' : y.term \in {x}} = rows
      <4> HIDE DEF rows
      <4> QED
        BY <2>1, <1>2, <1>5, <1>6
    <3> QED
      BY <2>1, <3>1, <3>2, <1>1
  <2>2. CASE x # t
    <3>1. x \in Stored /\ drafted'[x] = drafted[x]
      BY <2>2, <1>2, <1>8 DEF CatalogueInv, CatalogueTypeOK, Stored
    <3>2. {y \in senses' : y.term \in {x}} = SensesOf({x})
      <4> HIDE DEF rows
      <4> QED
        BY <2>2, <1>2, <1>5 DEF SensesOf
    <3> QED
      BY <3>1, <3>2 DEF CatalogueInv, WordsAreWhole
  <2> QED
    BY <2>1, <2>2
<1> QED
  BY <1>9, <1>10, <1>11, <1>12, <1>13, <1>14 DEF CatalogueInv

\* A deletion waits for the inserts that refer to the user.
LEMMA OwnerDeletedStep ==
  ASSUME CatalogueInv, NEW u \in Users, DeleteUser(u)
  PROVE  CatalogueInv'
<1>1. /\ alive' = alive \ {u} /\ ~ UserLocked(u)
      /\ word' = [t \in Terms |-> IF word[t] = u THEN NoUser ELSE word[t]]
      /\ UNCHANGED <<senses, pc, loc, contributor, drafted>>
  BY DEF DeleteUser, OwnerDeleted
<1>2. NoUser \notin Users /\ Absent \notin Users /\ NoUser # Absent
  BY CatalogueAssumption
<1>3. Stored' = Stored
  BY <1>1, <1>2 DEF Stored
<1>4. CatalogueTypeOK'
  BY <1>1, <1>2 DEF CatalogueInv, CatalogueTypeOK
<1>5. RequestInv'
  BY <1>1, <1>2, <1>3 DEF CatalogueInv, RequestInv, UserLocked, Inserted, SensesOf
<1>6. ExclusiveInv' /\ SensesInv'
  BY <1>1, <1>3 DEF CatalogueInv, ExclusiveInv, SensesInv, Inserted
<1>7. OwnerInv'
  BY <1>1, <1>2 DEF CatalogueInv, OwnerInv
<1>8. WordsAreWhole'
  BY <1>1, <1>3 DEF CatalogueInv, WordsAreWhole, SensesOf, Kept
<1> QED
  BY <1>4, <1>5, <1>6, <1>7, <1>8 DEF CatalogueInv

LEMMA CatalogueStep ==
  ASSUME CatalogueInv, [Next]_vars
  PROVE  CatalogueInv'
<1>1. ASSUME NEW r \in Requests, Arrive(r) \/ Step(r) \/ Abort(r)
      PROVE  CatalogueInv'
  BY <1>1, ArriveStep, EnrichStep, InsertWordStep, InsertSensesStep, CommitStep, ReadStep,
    FinishStep DEF Step, Abort
<1>2. ASSUME NEW u \in Users, DeleteUser(u)
      PROVE  CatalogueInv'
  BY <1>2, OwnerDeletedStep
<1>3. ASSUME UNCHANGED <<alive, catalogueVars>>
      PROVE  CatalogueInv'
  BY <1>3 DEF catalogueVars, CatalogueInv, CatalogueTypeOK, RequestInv, ExclusiveInv, OwnerInv,
    SensesInv, WordsAreWhole, Inserted, Stored, SensesOf, Kept
<1> QED
  BY <1>1, <1>2, <1>3 DEF Next, CatalogueNext, Learn, vars

LEMMA CatalogueStart == ASSUME VocabularyInit PROVE CatalogueInv
<1> USE DEF VocabularyInit, Init
<1>1. NoLocal \in Slots(senses)
  BY NoLocalSlot
<1>2. CatalogueTypeOK
  <2>1. <<>> \in Seq(Drafts)
    OBVIOUS
  <2> QED
    BY <1>1, <2>1 DEF CatalogueTypeOK, Slots
<1>3. Stored = {} /\ \A r \in Requests : pc[r] = "idle"
  BY DEF Stored
<1> QED
  BY <1>2, <1>3, CatalogueAssumption DEF CatalogueInv, RequestInv, ExclusiveInv, OwnerInv,
    SensesInv, WordsAreWhole, Inserted

\* The inductive invariant of the catalogue: what a request holds while it writes or reads,
\* beside the tables.
THEOREM CatalogueTheorem == Spec => []CatalogueInv
  BY CatalogueStart, CatalogueStep, PTL DEF Spec

\* Every table and every request keep their shape.
THEOREM TypeCorrect == Spec => []TypeOK
<1>1. StudyInv /\ CatalogueInv => TypeOK
  BY DEF StudyInv, CatalogueInv, TypeOK
<1> QED
  BY <1>1, StudyTheorem, CatalogueTheorem, PTL

\* word.go:81, the transaction: a word that can be seen is complete, whoever adds it at the
\* same time, is deleted or fails.
THEOREM WordsWhole == Spec => []WordsAreWhole
<1>1. CatalogueInv => WordsAreWhole
  BY DEF CatalogueInv
<1> QED
  BY <1>1, CatalogueTheorem, PTL

\* Get and List read a word and its senses in different statements, and their answers have
\* every word whole, and the reader's own words only.
THEOREM AnswersTheorem == Spec => []AnswersWhole
<1>1. CatalogueInv => AnswersWhole
  BY DEF CatalogueInv, RequestInv, AnswersWhole
<1> QED
  BY <1>1, CatalogueTheorem, PTL

(***************************************************************************)
(* Rows that are deleted                                                   *)
(***************************************************************************)
\* No step deletes a word, and only a deletion of a user touches what there is.
LEMMA WordsStay ==
  ASSUME CatalogueInv, [Next]_vars
  PROVE  /\ Stored \subseteq Stored'
         /\ \A t \in Stored : word'[t] = IF word[t] \in alive' THEN word[t] ELSE NoUser
         /\ alive' # alive => \E u \in Users : DeleteUser(u)
<1>1. \A t \in Stored : word[t] \in alive \cup {NoUser}
  BY DEF CatalogueInv, OwnerInv, Stored
<1>2. NoUser \notin alive /\ Absent \notin alive /\ NoUser # Absent
  BY CatalogueAssumption DEF CatalogueInv, CatalogueTypeOK
<1>3. CASE UNCHANGED <<alive, word>>
  BY <1>1, <1>2, <1>3 DEF Stored
<1>4. ASSUME NEW r \in Requests, Commit(r)
      PROVE  /\ alive' = alive
             /\ \A t \in Stored : word'[t] = word[t]
             /\ Stored \subseteq Stored'
  BY <1>4 DEF Commit, Write, CatalogueInv, RequestInv, CatalogueTypeOK, Inserted, Stored
<1>5. ASSUME NEW u \in Users, DeleteUser(u)
      PROVE  /\ \A t \in Stored : word'[t] = IF word[t] \in alive' THEN word[t] ELSE NoUser
             /\ Stored \subseteq Stored'
  BY <1>1, <1>2, <1>5 DEF DeleteUser, OwnerDeleted, Stored
<1>6. \/ UNCHANGED <<alive, word>>
      \/ \E r \in Requests : Commit(r)
      \/ \E u \in Users : DeleteUser(u)
  BY DEF Next, CatalogueNext, Arrive, Step, Abort, CreateAndEnrich, Get, List, Begin, Enrich,
    InsertWord, InsertSenses, GetByID, ListRows, CountWords, ReadSenses, Answer, Learn, vars,
    catalogueVars
<1> QED
  BY <1>1, <1>2, <1>3, <1>4, <1>5, <1>6

\* 000003_words.up.sql:16 and the foreign keys of user_words: a deletion leaves words and
\* the progress of other people alone, and no word changes hands.
THEOREM VocabularyStaysTheorem == Spec => VocabularyStays
<1>1. CatalogueInv /\ [Next]_vars =>
        [/\ \A t \in Stored : word'[t] = IF word[t] \in alive' THEN word[t] ELSE NoUser
         /\ alive' # alive =>
              \A e \in Listable : e[1] \in alive' => entry'[e] = entry[e]]_vars
  <2> SUFFICES ASSUME CatalogueInv, [Next]_vars
               PROVE  /\ \A t \in Stored : word'[t] = IF word[t] \in alive' THEN word[t] ELSE NoUser
                      /\ alive' # alive =>
                           \A e \in Listable : e[1] \in alive' => entry'[e] = entry[e]
    OBVIOUS
  <2>1. ASSUME NEW u \in Users, DeleteUser(u), NEW e \in Listable, e[1] \in alive'
        PROVE  entry'[e] = entry[e]
    BY <2>1 DEF DeleteUser, Study!DropUser
  <2> QED
    BY <2>1, WordsStay
<1> QED
  BY <1>1, CatalogueTheorem, PTL DEF Spec, VocabularyStays

\* What a list joins to: rows whose user and word exist.
ListsInv ==
  \A e \in Listable : Study!Listed(e) => e[1] \in alive /\ e[2] \in Stored

LEMMA ListsLemma == Spec => []ListsInv
<1>1. VocabularyInit => ListsInv
  BY DEF VocabularyInit, Study!Init, ListsInv, Study!Listed
<1>2. ASSUME StudyInv, CatalogueInv, ListsInv, [Next]_vars
      PROVE  ListsInv'
  <2>1. Stored \subseteq Stored' /\ (alive' # alive => \E u \in Users : DeleteUser(u))
    BY <1>2, WordsStay
  <2>2. ASSUME NEW u \in Users, DeleteUser(u)
        PROVE  ListsInv'
    BY <1>2, <2>1, <2>2 DEF DeleteUser, Study!DropUser, ListsInv, Study!Listed
  <2>3. ASSUME NEW e \in Listable, Learn(e)
        PROVE  \A f \in Listable : (Study!Listed(f))' =>
                 Study!Listed(f) \/ (f[1] \in alive /\ f[2] \in Stored)
    <3> SUFFICES ASSUME NEW f \in Listable, entry'[f] # NotListed, entry[f] = NotListed
                 PROVE  f[1] \in alive /\ f[2] \in Stored
      BY DEF Study!Listed
    <3>1. entry = [g \in Listable |-> entry[g]]
      BY <1>2 DEF StudyInv, Study!TypeOK
    <3>2. CASE /\ e[1] \in alive /\ e[2] \in Stored
               /\ \E status \in Study!Statuses : Study!AddWordToUser(e, status)
      <4>1. PICK status \in Study!Statuses : Study!AddWordToUser(e, status)
        BY <3>2
      <4>2. \A g \in Listable : g # e => entry'[g] = entry[g]
        BY <3>1, <4>1 DEF Study!AddWordToUser
      <4> QED
        BY <3>2, <4>2
    <3>3. CASE \E status \in Study!Statuses : Study!UpdateUserWord(e, status)
      BY <3>1, <3>3 DEF Study!UpdateUserWord, Study!Listed
    <3>4. CASE Study!RemoveWordFromUser(e)
      BY <3>1, <3>4 DEF Study!RemoveWordFromUser, Study!Listed
    <3>5. CASE \E correct \in BOOLEAN : Study!RecordReview(e, correct)
      <4>1. Study!Listed(e) /\ \A g \in Listable : g # e => entry'[g] = entry[g]
        BY <3>1, <3>5 DEF Study!RecordReview
      <4> QED
        BY <4>1 DEF Study!Listed
    <3>6. CASE Study!Elapse(e)
      BY <3>1, <3>6 DEF Study!Elapse, Study!Listed
    <3> QED
      BY <2>3, <3>2, <3>3, <3>4, <3>5, <3>6 DEF Learn
  <2>4. CASE alive' = alive
    BY <1>2, <2>1, <2>2, <2>3, <2>4 DEF Next, vars, ListsInv, Study!Listed
  <2> QED
    BY <2>1, <2>2, <2>4
<1> QED
  BY <1>1, <1>2, StudyTheorem, CatalogueTheorem, PTL DEF Spec

\* GetUserWordStats counts user_words, the lists join words: the join drops nothing.
THEOREM StatsTheorem == Spec => []StatsMatchLists
<1>1. ASSUME StudyInv, ListsInv
      PROVE  StatsMatchLists
  <2>1. ASSUME NEW u \in alive
        PROVE  /\ Study!EntriesOf(u) = ListUserWords(u, Study!Statuses, FALSE)
               /\ {e \in Study!EntriesOf(u) : Study!IsDue(e)} =
                    ListUserWords(u, Study!Statuses, TRUE)
               /\ \A s \in Study!Statuses :
                    {e \in Study!EntriesOf(u) : entry[e].status = s} =
                      ListUserWords(u, {s}, FALSE)
    <3>1. \A e \in Study!EntriesOf(u) : e[2] \in Stored /\ entry[e].status \in Study!Statuses
      BY <1>1 DEF ListsInv, StudyInv, Study!TypeOK, Study!EntriesOf, Study!Listed
    <3> QED
      BY <3>1 DEF ListUserWords
  <2>2. ASSUME NEW u, NEW s \in Study!Statuses
        PROVE  /\ Study!GetUserWordStats(u).total = Cardinality(Study!EntriesOf(u))
               /\ Study!GetUserWordStats(u).due =
                    Cardinality({e \in Study!EntriesOf(u) : Study!IsDue(e)})
               /\ Study!GetUserWordStats(u).by[s] =
                    Cardinality({e \in Study!EntriesOf(u) : entry[e].status = s})
    <3> DEFINE rows == Study!EntriesOf(u)
               by == [x \in Study!Statuses |-> Cardinality({e \in rows : entry[e].status = x})]
    <3>0. \A S : Study!Cardinality(S) = Cardinality(S)
      BY Zenon DEF Study!Cardinality, Cardinality
    <3>1. Study!GetUserWordStats(u) =
            [total |-> Cardinality(rows),
             due   |-> Cardinality({e \in rows : Study!IsDue(e)}),
             by    |-> by]
      BY <3>0 DEF Study!GetUserWordStats
    <3>2. by[s] = Cardinality({e \in rows : entry[e].status = s})
      OBVIOUS
    <3> HIDE DEF by
    <3> QED
      BY <3>1, <3>2
  <2> SUFFICES ASSUME NEW u \in alive, NEW s \in Study!Statuses
               PROVE  /\ Study!GetUserWordStats(u).total =
                           Cardinality(ListUserWords(u, Study!Statuses, FALSE))
                      /\ Study!GetUserWordStats(u).due =
                           Cardinality(ListUserWords(u, Study!Statuses, TRUE))
                      /\ Study!GetUserWordStats(u).by[s] =
                           Cardinality(ListUserWords(u, {s}, FALSE))
    <3>1. "known" \in Study!Statuses
      BY DEF Study!Statuses
    <3> QED
      BY <3>1, Zenon DEF StatsMatchLists
  <2>3. /\ Study!EntriesOf(u) = ListUserWords(u, Study!Statuses, FALSE)
        /\ {e \in Study!EntriesOf(u) : Study!IsDue(e)} = ListUserWords(u, Study!Statuses, TRUE)
        /\ {e \in Study!EntriesOf(u) : entry[e].status = s} = ListUserWords(u, {s}, FALSE)
    BY <2>1
  <2> QED
    BY <2>2, <2>3
<1> QED
  BY <1>1, StudyTheorem, ListsLemma, PTL

(***************************************************************************)
(* Pages                                                                   *)
(***************************************************************************)
\* What is true of places in a list is true of the words at them.
LEMMA PagesAlways == CatalogueInv => PagesPartition
<1> SUFFICES ASSUME NEW u \in Users, NEW limit \in 1..MaxLimit
             PROVE  LET pages == 1..TotalPages(limit, Cardinality(Own(u)))
                        page(p) == Window(Own(u), Offset(p, limit), limit)
                    IN  /\ UNION {page(p) : p \in pages} = Own(u)
                        /\ \A p, q \in pages : p # q => page(p) \cap page(q) = {}
  BY DEF PagesPartition
<1> DEFINE n == Cardinality(Own(u))
<1>1. limit \in Nat \ {0}
  BY PaginationAssumption
<1>2. IsFiniteSet(Own(u)) /\ n \in Nat /\ Own(u) \subseteq Nat
  BY CatalogueAssumption, FS_Subset, FS_CardinalityType DEF Own
<1>3. ASSUME NEW t \in Own(u)
      PROVE  Place(t, Own(u)) \in 1..n
  <2> DEFINE below == {x \in Own(u) : x <= t}
  <2>1. below \in SUBSET Own(u) /\ t \in below
    BY <1>2
  <2>2. IsFiniteSet(below) /\ Cardinality(below) <= n /\ Cardinality(below) \in Nat
    BY <1>2, <2>1, FS_Subset, FS_CardinalityType
  <2>3. Cardinality(below) # 0
    BY <2>1, <2>2, FS_EmptySet
  <2> QED
    BY <1>2, <2>2, <2>3 DEF Place
<1>4. TotalPages(limit, n) \in Nat
  BY <1>1, <1>2, TotalPagesPositive
<1>5. ASSUME NEW t \in Own(u)
      PROVE  \E p \in 1..TotalPages(limit, n) : t \in Window(Own(u), Offset(p, limit), limit)
  BY <1>1, <1>2, <1>3, EveryRowHasAPage DEF Window
<1>6. ASSUME NEW p \in 1..TotalPages(limit, n), NEW q \in 1..TotalPages(limit, n),
             NEW t \in Own(u),
             t \in Window(Own(u), Offset(p, limit), limit),
             t \in Window(Own(u), Offset(q, limit), limit)
      PROVE  p = q
  <2>1. p \in Nat \ {0} /\ q \in Nat \ {0} /\ Place(t, Own(u)) \in Int
    BY <1>3, <1>4
  <2> QED
    BY <1>1, <1>6, <2>1, NoRowTwice DEF Window
<1>7. \A p : Window(Own(u), Offset(p, limit), limit) \subseteq Own(u)
  BY DEF Window
<1> HIDE DEF n
<1> QED
  BY <1>5, <1>6, <1>7 DEF n

\* NewPageMeta and Offset, for lists of any length and any limit.
THEOREM PagesTheorem == Spec => []PagesPartition
  BY PagesAlways, CatalogueTheorem, PTL

(***************************************************************************)
(* The rows of a page and the total beside them                            *)
(***************************************************************************)
\* A set of numbers that is not empty has a least element.
LEMMA LeastElement ==
  ASSUME NEW S \in SUBSET Nat, S # {}
  PROVE  \E least \in S : \A x \in S : least <= x
<1>1. PICK least \in S : \A x \in S : <<x, least>> \notin OpToRel(<, Nat)
  BY WFMin, NatLessThanWellFounded, Zenon
<1>2. \A x \in S : ~ (x < least)
  BY <1>1, Zenon DEF OpToRel
<1> QED
  BY <1>2

\* There are offset rows before a page that has rows.
LEMMA RowsBeforePage ==
  ASSUME NEW S \in SUBSET Nat, IsFiniteSet(S), NEW offset \in Nat, NEW limit \in Nat,
         Window(S, offset, limit) # {}
  PROVE  offset + Cardinality(Window(S, offset, limit)) <= Cardinality(S)
<1> DEFINE page == Window(S, offset, limit)
<1>1. page \in SUBSET S
  BY DEF Window
<1>2. PICK first \in page : \A x \in page : first <= x
  <2>1. page \in SUBSET Nat /\ page # {}
    BY <1>1
  <2> HIDE DEF page
  <2> QED
    BY <2>1, LeastElement
<1> DEFINE upto == {x \in S : x <= first}
           before == upto \ {first}
<1>3. /\ IsFiniteSet(upto) /\ IsFiniteSet(before) /\ IsFiniteSet(page)
      /\ first \in upto /\ upto \subseteq S
  <2>1. upto \in SUBSET S /\ before \in SUBSET S
    OBVIOUS
  <2>2. first \in upto
    <3>1. first \in S /\ first <= first
      BY <1>1, <1>2
    <3> QED
      BY <3>1
  <2> HIDE DEF upto, before, page
  <2> QED
    BY <1>1, <2>1, <2>2, FS_Subset
<1>4. Cardinality(before) = Cardinality(upto) - 1
  <2> HIDE DEF upto
  <2> QED
    BY <1>3, FS_RemoveElement
<1>5. offset < Cardinality(upto)
  BY <1>2 DEF Window, InWindow, Place
<1>6. before \cap page = {}
  <2>1. \A x \in page : x \in Nat /\ first \in Nat /\ first <= x
    BY <1>1, <1>2
  <2>2. \A x \in before : x \in Nat /\ x <= first /\ x # first
    OBVIOUS
  <2> HIDE DEF page, before
  <2> QED
    BY <2>1, <2>2
<1> HIDE DEF page, before, upto
<1>7. Cardinality(before \cup page) = Cardinality(before) + Cardinality(page)
  <2>1. Cardinality(before \cap page) = 0
    BY <1>6, FS_EmptySet
  <2>2. Cardinality(before) \in Nat /\ Cardinality(page) \in Nat
    BY <1>3, FS_CardinalityType
  <2> QED
    BY <1>3, <2>1, <2>2, FS_Union
<1>8. Cardinality(before \cup page) <= Cardinality(S)
  <2>1. before \cup page \subseteq S
    BY <1>1, <1>3 DEF before
  <2> QED
    BY <2>1, FS_Subset
<1>9. /\ Cardinality(before) \in Nat /\ Cardinality(page) \in Nat
      /\ Cardinality(upto) \in Nat /\ Cardinality(S) \in Nat
  BY <1>3, FS_CardinalityType
<1> QED
  BY <1>4, <1>5, <1>7, <1>8, <1>9 DEF page

\* A page that starts before the end of the list is one of those counted.
LEMMA PageIsCounted ==
  ASSUME NEW limit \in Nat \ {0}, NEW total \in Nat, NEW page \in Nat \ {0},
         Offset(page, limit) < total
  PROVE  page <= TotalPages(limit, total)
<1> DEFINE i == Offset(page, limit) + 1
<1>1. Offset(page, limit) \in Nat
  BY OffsetIsMultiple
<1>2. i \in 1..total /\ InWindow(i, Offset(page, limit), limit)
  BY <1>1 DEF InWindow
<1>3. PICK q \in 1..TotalPages(limit, total) : InWindow(i, Offset(q, limit), limit)
  BY <1>2, EveryRowHasAPage
<1>4. TotalPages(limit, total) \in Nat /\ q \in Nat \ {0}
  BY <1>3, TotalPagesPositive
<1>5. q = page
  BY <1>2, <1>3, <1>4, NoRowTwice
<1> QED
  BY <1>3, <1>5

\* What a list has read, if its words are still its reader's and its offset is
\* the one asked for, lies within what its reader has when it counts, and then
\* within the total.
Within(l, total) ==
  l.actor \in alive /\ l.rows # {} /\ Representable(l.page, l.limit)
    => Offset(l.page, l.limit) + Cardinality(l.rows) <= total

RowsInv ==
  \A r \in Requests :
    /\ pc[r] = "count" => Within(loc[r], Cardinality(Own(loc[r].actor)))
    /\ pc[r] \in {"readSenses", "answer"} /\ loc[r].term = Absent
         => Within(loc[r], loc[r].total)

LEMMA SlotNumbers ==
  ASSUME NEW S, NEW l \in Slots(S)
  PROVE  /\ l.page \in Nat \ {0} /\ l.limit \in Nat \ {0} /\ l.total \in Nat
         /\ l.rows \in SUBSET Terms
<1>1. /\ l.page \in Pages \cup {1} /\ l.limit \in 1..MaxLimit /\ l.total \in Nat
      /\ l.rows \in SUBSET Terms
  BY DEF Slots
<1>2. l.page \in Nat \ {0}
  <2>1. Pages \subseteq Nat \ {0}
    BY CatalogueAssumption
  <2>2. l.page \in Pages \/ l.page = 1
    BY <1>1
  <2>3. 1 \in Nat \ {0}
    OBVIOUS
  <2> QED
    BY <2>1, <2>2, <2>3, Zenon
<1>3. l.limit \in Nat \ {0}
  BY <1>1, PaginationAssumption
<1> QED
  BY <1>1, <1>2, <1>3

\* As long as a user has an account, their words only become more.
LEMMA OwnGrows ==
  ASSUME CatalogueInv, [Next]_vars, NEW u \in Users, u \in alive'
  PROVE  u \in alive /\ Cardinality(Own(u)) <= Cardinality(Own(u)')
<1>1. u \in alive
  <2>1. alive' # alive => \E v \in Users : alive' = alive \ {v}
    BY WordsStay DEF DeleteUser
  <2> QED
    BY <2>1
<1>2. Own(u) \in SUBSET Own(u)'
  <2>1. Own(u) \subseteq Stored
    BY CatalogueAssumption DEF Own, Stored
  <2>2. \A t \in Stored : word[t] = u => word'[t] = u
    BY WordsStay
  <2> QED
    BY <2>1, <2>2 DEF Own
<1>3. Own(u)' \in SUBSET Terms
  BY DEF Own
<1> QED
  BY <1>1, <1>2, <1>3, CatalogueAssumption, FS_Subset

\* What a step may do to a slot.
LEMMA SlotChanges ==
  ASSUME CatalogueInv, [Next]_vars, NEW r \in Requests
  PROVE  \/ pc'[r] = pc[r] /\ loc'[r] = loc[r]
         \/ pc'[r] \notin {"count", "readSenses", "answer"}
         \/ GetByID(r) \/ ListRows(r) \/ CountWords(r) \/ ReadSenses(r)
<1>2. ASSUME NEW s \in Requests, Arrive(s) \/ Step(s) \/ Abort(s), s # r
      PROVE  pc'[r] = pc[r] /\ loc'[r] = loc[r]
  BY <1>2 DEF CatalogueInv, CatalogueTypeOK, Arrive, Step, Abort, CreateAndEnrich, Get, List,
    Begin, Enrich, InsertWord, InsertSenses, Commit, GetByID, ListRows, CountWords, ReadSenses,
    Answer, Finish, Goto
<1>3. ASSUME Arrive(r) \/ Enrich(r) \/ InsertWord(r) \/ InsertSenses(r) \/ Commit(r)
             \/ Answer(r) \/ Abort(r)
      PROVE  pc'[r] \notin {"count", "readSenses", "answer"}
  BY <1>3 DEF CatalogueInv, CatalogueTypeOK, Arrive, Abort, CreateAndEnrich, Get, List,
    Begin, Enrich, InsertWord, InsertSenses, Commit, Answer, Finish, Goto
<1>4. CASE UNCHANGED <<pc, loc>>
  BY <1>4
<1> QED
  BY <1>2, <1>3, <1>4 DEF Next, CatalogueNext, Step, Learn, DeleteUser, OwnerDeleted, vars,
    catalogueVars

LEMMA RowsStep ==
  ASSUME CatalogueInv, RowsInv, [Next]_vars
  PROVE  RowsInv'
<1> SUFFICES ASSUME NEW r \in Requests
             PROVE  /\ pc'[r] = "count" => Within(loc[r], Cardinality(Own(loc[r].actor)))'
                    /\ pc'[r] \in {"readSenses", "answer"} /\ loc'[r].term = Absent
                         => Within(loc[r], loc[r].total)'
  BY DEF RowsInv
<1> DEFINE l == loc[r]
           n == Cardinality(Own(l.actor))
<1>1. /\ l \in Slots(senses)
      /\ pc[r] # "idle" => l.actor \in Users
      /\ pc[r] = "get" => l.term # Absent
      /\ Absent \notin Terms
  BY SlotType, CatalogueAssumption DEF CatalogueInv, RequestInv
<1> PICK u : u = l.actor
  OBVIOUS
<1>2. pc[r] # "idle" /\ u \in alive' => u \in alive /\ n <= Cardinality(Own(u)')
  <2>1. ASSUME u \in Users, u \in alive'
        PROVE  u \in alive /\ Cardinality(Own(u)) <= Cardinality(Own(u)')
    BY <2>1, OwnGrows
  <2> QED
    BY <1>1, <2>1
<1>3. /\ Offset(l.page, l.limit) \in Nat /\ Cardinality(l.rows) \in Nat /\ n \in Nat
      /\ Cardinality(Own(u)') \in Nat /\ l.limit \in Nat
  <2>1. l.page \in Nat \ {0} /\ l.limit \in Nat \ {0} /\ l.rows \in SUBSET Terms
    BY <1>1, SlotNumbers
  <2>2. Own(l.actor) \in SUBSET Terms /\ Own(u)' \in SUBSET Terms
    BY DEF Own
  <2> QED
    BY <2>1, <2>2, OffsetIsMultiple, CountIsNatural
<1>4. CASE pc'[r] = pc[r] /\ loc'[r] = loc[r]
  <2>1. CASE pc[r] = "count"
    <3>1. u \in alive' /\ l.rows # {} /\ Representable(l.page, l.limit)
            => Offset(l.page, l.limit) + Cardinality(l.rows) <= Cardinality(Own(u)')
      BY <2>1, <1>2, <1>3 DEF RowsInv, Within
    <3>2. Own(loc[r].actor)' = Own(u)'
      BY <1>4 DEF Own
    <3> QED
      BY <1>4, <2>1, <3>1, <3>2 DEF Within
  <2>2. CASE pc[r] \in {"readSenses", "answer"} /\ l.term = Absent
    BY <1>2, <1>4, <2>2 DEF RowsInv, Within
  <2> QED
    BY <1>4, <2>1, <2>2
<1>5. CASE pc'[r] \notin {"count", "readSenses", "answer"}
  BY <1>5
<1>6. CASE GetByID(r)
  <2>1. pc'[r] # "count" /\ (pc'[r] = "readSenses" => loc'[r].term = l.term)
    BY <1>1, <1>6 DEF GetByID, Goto, Finish, CatalogueInv, CatalogueTypeOK, Slots
  <2>2. pc'[r] # "answer"
    BY <1>6 DEF GetByID, Goto, Finish, CatalogueInv, CatalogueTypeOK
  <2> QED
    BY <1>1, <1>6, <2>1, <2>2 DEF GetByID
<1>7. CASE ListRows(r)
  <2> DEFINE offset == SqlOffset(l.page, l.limit)
             page == Window(Own(l.actor), offset, l.limit)
  <2>1. CASE offset < 0
    BY <1>7, <2>1 DEF ListRows, Finish, Goto, CatalogueInv, CatalogueTypeOK
  <2>2. CASE ~ (offset < 0)
    <3>1. pc'[r] = "count" /\ loc'[r] = [l EXCEPT !.rows = page]
      BY <1>7, <2>2 DEF ListRows, Goto, CatalogueInv, CatalogueTypeOK
    <3>2. /\ loc'[r].actor = l.actor /\ loc'[r].rows = page
          /\ loc'[r].page = l.page /\ loc'[r].limit = l.limit
      BY <1>1, <3>1 DEF Slots
    <3>3. UNCHANGED <<alive, word>>
      BY <1>7 DEF ListRows
    <3>4. page # {} /\ Representable(l.page, l.limit)
            => Offset(l.page, l.limit) + Cardinality(page) <= n
      <4>1. Own(l.actor) \in SUBSET Nat /\ IsFiniteSet(Own(l.actor))
        BY CatalogueAssumption, FS_Subset DEF Own
      <4> QED
        BY <1>3, <4>1, RowsBeforePage DEF Representable
    <3> HIDE DEF page, l
    <3> QED
      BY <3>1, <3>2, <3>3, <3>4 DEF Within, Own
  <2> QED
    BY <2>1, <2>2
<1>8. CASE CountWords(r)
  <2>1. pc'[r] = "readSenses" /\ loc'[r] = [l EXCEPT !.total = n]
    BY <1>8 DEF CountWords, Goto, CatalogueInv, CatalogueTypeOK
  <2>2. /\ loc'[r].actor = l.actor /\ loc'[r].rows = l.rows /\ loc'[r].total = n
        /\ loc'[r].page = l.page /\ loc'[r].limit = l.limit
    BY <1>1, <2>1 DEF Slots
  <2>3. alive' = alive /\ pc[r] = "count"
    BY <1>8 DEF CountWords
  <2>4. Within(l, n)
    BY <2>3 DEF RowsInv
  <2> HIDE DEF n, l
  <2> QED
    BY <2>1, <2>2, <2>3, <2>4 DEF Within
<1>9. CASE ReadSenses(r)
  <2>1. pc'[r] = "answer" /\ loc'[r] = [l EXCEPT !.shown = SensesOf(l.rows)]
    BY <1>9 DEF ReadSenses, Goto, CatalogueInv, CatalogueTypeOK
  <2>2. /\ loc'[r].actor = l.actor /\ loc'[r].rows = l.rows /\ loc'[r].total = l.total
        /\ loc'[r].page = l.page /\ loc'[r].limit = l.limit /\ loc'[r].term = l.term
    BY <1>1, <2>1 DEF Slots
  <2>3. alive' = alive /\ pc[r] = "readSenses"
    BY <1>9 DEF ReadSenses
  <2>4. l.term = Absent => Within(l, l.total)
    BY <2>3 DEF RowsInv
  <2> HIDE DEF l
  <2> QED
    BY <2>1, <2>2, <2>3, <2>4 DEF Within
<1> QED
  BY <1>4, <1>5, <1>6, <1>7, <1>8, <1>9, SlotChanges

\* word_repository.go:103-122: the rows of an answer are among those its total counts, and
\* its page is one of the pages counted, whatever is added or deleted between the two queries.
THEOREM RowsTheorem == Spec => []NoRowsBeyondTotal
<1>1. VocabularyInit => RowsInv
  BY DEF VocabularyInit, Init, RowsInv
<1>2. CatalogueInv /\ RowsInv => NoRowsBeyondTotal
  <2> SUFFICES ASSUME CatalogueInv, RowsInv, NEW r \in Requests,
                      pc[r] = "answer", loc[r].term = Absent, loc[r].actor \in alive,
                      loc[r].rows # {}, Representable(loc[r].page, loc[r].limit)
               PROVE  /\ loc[r].page <= TotalPages(loc[r].limit, loc[r].total)
                      /\ Offset(loc[r].page, loc[r].limit) + Cardinality(loc[r].rows)
                           <= loc[r].total
    BY DEF NoRowsBeyondTotal
  <2>1. /\ loc[r].page \in Nat \ {0} /\ loc[r].limit \in Nat \ {0} /\ loc[r].total \in Nat
        /\ loc[r].rows \in SUBSET Terms
    BY SlotType, SlotNumbers
  <2>2. Offset(loc[r].page, loc[r].limit) + Cardinality(loc[r].rows) <= loc[r].total
    BY DEF RowsInv, Within
  <2>3. Cardinality(loc[r].rows) \in Nat \ {0}
    <3>1. IsFiniteSet(loc[r].rows)
      BY <2>1, CatalogueAssumption, FS_Subset
    <3> QED
      BY <3>1, FS_EmptySet, FS_CardinalityType
  <2>4. Offset(loc[r].page, loc[r].limit) \in Nat
    BY <2>1, OffsetIsMultiple
  <2>5. Offset(loc[r].page, loc[r].limit) < loc[r].total
    BY <2>1, <2>2, <2>3, <2>4
  <2> QED
    BY <2>1, <2>2, <2>5, PageIsCounted
<1> QED
  BY <1>1, <1>2, RowsStep, CatalogueTheorem, PTL DEF Spec
=============================================================================
