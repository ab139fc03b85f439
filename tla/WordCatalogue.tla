--------------------------- MODULE WordCatalogue ---------------------------
(***************************************************************************)
(* The vocabulary catalogue: CreateAndEnrich, Get and List of              *)
(* src/app/services/word.go over the tables words and word_senses.         *)
(*                                                                         *)
(* A request takes one step per statement, or per call of the enricher;    *)
(* pc[r] is the next one.  What a transaction has written before its       *)
(* commit is in loc[r], where no other request sees it.  Terms are         *)
(* numbered in the order a list is sorted by, whichever it is.             *)
(***************************************************************************)
EXTENDS Pagination, FiniteSets, Sequences

CONSTANTS
  Users, NoUser,  \* NoUser: created_by is NULL
  Terms,          \* pairs of a language and a term
  Absent,         \* no row
  Requests,
  Answers,        \* the lists of senses the enricher may answer with
  Pages,          \* the pages that are asked for
  AllowFailures

\* What becomes of a sense: kept, skipped for want of a definition, or refused
\* by a CHECK of the table (a definition or an example that is too long).
Drafts == {"usable", "blank", "refused"}

ASSUME CatalogueAssumption ==
  /\ NoUser \notin Users /\ Absent \notin Users \cup Terms /\ Absent # NoUser
  /\ Terms \subseteq Nat /\ IsFiniteSet(Terms)
  /\ Answers \subseteq Seq(Drafts)
  /\ Pages \subseteq Nat \ {0}
  /\ AllowFailures \in BOOLEAN

VARIABLES
  alive,       \* the users that have a row
  word,        \* word[t]: created_by of the row of t, or Absent
  senses,      \* the rows of word_senses
  pc, loc,     \* the requests
  contributor, \* history: who added a word
  drafted      \* history: the enricher's answer a word was made of

catalogueVars == <<word, senses, pc, loc, contributor, drafted>>

Stored == {t \in Terms : word[t] # Absent}
Own(u) == {t \in Terms : word[t] = u}
SensesOf(ts) == {s \in senses : s.term \in ts}

\* The n-th of S, for n from 1.
Place(t, S) == Cardinality({x \in S : x <= t})
Window(S, offset, limit) == {t \in S : InWindow(Place(t, S), offset, limit)}

Kept(t, drafts) ==
  {[term |-> t, order |-> i] : i \in {j \in DOMAIN drafts : drafts[j] = "usable"}}

NoLocal ==
  [actor |-> NoUser, term |-> Absent, drafts |-> <<>>, page |-> 1, limit |-> 1,
   rows |-> {}, total |-> 0, shown |-> {}]

Begin(r, label, l) ==
  /\ pc[r] = "idle"
  /\ pc' = [pc EXCEPT ![r] = label]
  /\ loc' = [loc EXCEPT ![r] = l]
  /\ UNCHANGED <<alive, word, senses, contributor, drafted>>

Goto(r, label, l) ==
  /\ pc' = [pc EXCEPT ![r] = label]
  /\ loc' = [loc EXCEPT ![r] = l]

Finish(r) == Goto(r, "idle", NoLocal)

\* An uncommitted row of a term, whose unique index entry others wait for; it
\* holds a key share lock on the row of its creator.
Inserted(r) == pc[r] \in {"senses", "commit"}
TermLocked(t) == \E r \in Requests : Inserted(r) /\ loc[r].term = t
UserLocked(u) == \E r \in Requests : Inserted(r) /\ loc[r].actor = u

-----------------------------------------------------------------------------
Init ==
  /\ alive = Users
  /\ word = [t \in Terms |-> Absent]
  /\ senses = {}
  /\ pc = [r \in Requests |-> "idle"]
  /\ loc = [r \in Requests |-> NoLocal]
  /\ contributor = [t \in Terms |-> NoUser]
  /\ drafted = [t \in Terms |-> <<>>]

(***************************************************************************)
(* CreateAndEnrich                                                         *)
(***************************************************************************)
\* GetByTerm.  A term that exists is a conflict, whoever sees the word.  The
\* actor's access token may outlive the account.
CreateAndEnrich(r, u, t) ==
  /\ word[t] = Absent
  /\ Begin(r, "enrich", [NoLocal EXCEPT !.actor = u, !.term = t])

\* The call of the model; no senses at all are an error.
Enrich(r) ==
  /\ pc[r] = "enrich"
  /\ \E drafts \in Answers :
       IF drafts = <<>> THEN Finish(r)
       ELSE Goto(r, "insert", [loc[r] EXCEPT !.drafts = drafts])
  /\ UNCHANGED <<alive, word, senses, contributor, drafted>>

Write(r, rows) ==
  LET l == loc[r]
  IN  /\ word' = [word EXCEPT ![l.term] = l.actor]
      /\ senses' = senses \cup rows
      /\ contributor' = [contributor EXCEPT ![l.term] = l.actor]
      /\ drafted' = [drafted EXCEPT ![l.term] = l.drafts]

\* INSERT INTO words, which waits for an insert of the same term under way.  It
\* fails when the term has been added since the lookup, or the actor is gone.
\* (mutant) The row is committed by itself, without the transaction.
InsertWord_NoTx(r) ==
  /\ pc[r] = "insert"
  /\ loc[r].actor \in alive /\ word[loc[r].term] = Absent
  /\ Goto(r, "senses", loc[r])
  /\ Write(r, {})
  /\ UNCHANGED alive
\* (mutant) A row that exists is overwritten: ON CONFLICT DO UPDATE.
InsertWord_Upsert(r) ==
  /\ pc[r] = "insert"
  /\ ~ TermLocked(loc[r].term)
  /\ IF loc[r].actor \in alive THEN Goto(r, "senses", loc[r]) ELSE Finish(r)
  /\ UNCHANGED <<alive, word, senses, contributor, drafted>>
InsertWord(r) ==
  /\ pc[r] = "insert"
  /\ ~ TermLocked(loc[r].term)
  /\ IF word[loc[r].term] = Absent /\ loc[r].actor \in alive
     THEN Goto(r, "senses", loc[r]) ELSE Finish(r)
  /\ UNCHANGED <<alive, word, senses, contributor, drafted>>

\* The INSERTs INTO word_senses; one that is refused rolls back all.
InsertSenses(r) ==
  /\ pc[r] = "senses"
  /\ IF \E i \in DOMAIN loc[r].drafts : loc[r].drafts[i] = "refused"
     THEN Finish(r) ELSE Goto(r, "commit", loc[r])
  /\ UNCHANGED <<alive, word, senses, contributor, drafted>>

\* COMMIT, then Get; an error may hide that it took effect.
Commit(r) ==
  /\ pc[r] = "commit"
  /\ Write(r, Kept(loc[r].term, loc[r].drafts))
  /\ \/ Goto(r, "get", loc[r])
     \/ AllowFailures /\ Finish(r)
  /\ UNCHANGED alive

(***************************************************************************)
(* Get and List                                                            *)
(***************************************************************************)
Get(r, u, t) ==
  /\ t \in Stored
  /\ Begin(r, "get", [NoLocal EXCEPT !.actor = u, !.term = t])

\* GetByID.  A word of somebody else, or of nobody, is not found.
\* (mutant) The owner is not looked at.
GetByID_Any(r) ==
  /\ pc[r] = "get"
  /\ Goto(r, "readSenses", [loc[r] EXCEPT !.rows = {loc[r].term}])
  /\ UNCHANGED <<alive, word, senses, contributor, drafted>>
GetByID(r) ==
  /\ pc[r] = "get"
  /\ IF word[loc[r].term] = loc[r].actor
     THEN Goto(r, "readSenses", [loc[r] EXCEPT !.rows = {loc[r].term}])
     ELSE Finish(r)
  /\ UNCHANGED <<alive, word, senses, contributor, drafted>>

List(r, u, page, limit) ==
  /\ Accepted(page, limit)
  /\ Begin(r, "list", [NoLocal EXCEPT !.actor = u, !.page = page, !.limit = limit])

\* ListWords; Postgres refuses a negative OFFSET.
ListRows(r) ==
  /\ pc[r] = "list"
  /\ LET l == loc[r]
         offset == SqlOffset(l.page, l.limit)
     IN  IF offset < 0 THEN Finish(r)
         ELSE Goto(r, "count", [l EXCEPT !.rows = Window(Own(l.actor), offset, l.limit)])
  /\ UNCHANGED <<alive, word, senses, contributor, drafted>>

\* CountWords.
\* (mutant) The rows of the page are counted.
CountWords_Page(r) ==
  /\ pc[r] = "count"
  /\ Goto(r, "readSenses", [loc[r] EXCEPT !.total = Cardinality(loc[r].rows)])
  /\ UNCHANGED <<alive, word, senses, contributor, drafted>>
CountWords(r) ==
  /\ pc[r] = "count"
  /\ Goto(r, "readSenses", [loc[r] EXCEPT !.total = Cardinality(Own(loc[r].actor))])
  /\ UNCHANGED <<alive, word, senses, contributor, drafted>>

\* ListByWord and ListByWords.
ReadSenses(r) ==
  /\ pc[r] = "readSenses"
  /\ Goto(r, "answer", [loc[r] EXCEPT !.shown = SensesOf(loc[r].rows)])
  /\ UNCHANGED <<alive, word, senses, contributor, drafted>>

Answer(r) ==
  /\ pc[r] = "answer"
  /\ Finish(r)
  /\ UNCHANGED <<alive, word, senses, contributor, drafted>>

-----------------------------------------------------------------------------
\* A crash, or an error of Postgres or the enricher: uncommitted rows are gone.
Abort(r) ==
  /\ AllowFailures
  /\ pc[r] \notin {"idle", "answer"}
  /\ Finish(r)
  /\ UNCHANGED <<alive, word, senses, contributor, drafted>>

\* What ON DELETE SET NULL does to the words of a user; the DELETE waits for
\* inserts that refer to the user.
OwnerDeleted(u) ==
  /\ ~ UserLocked(u)
  /\ word' = [t \in Terms |-> IF word[t] = u THEN NoUser ELSE word[t]]
  /\ UNCHANGED <<senses, pc, loc, contributor, drafted>>

Arrive(r) ==
  \E u \in Users :
    \/ \E t \in Terms : CreateAndEnrich(r, u, t) \/ Get(r, u, t)
    \/ \E page \in Pages, limit \in 1..MaxLimit : List(r, u, page, limit)

Step(r) ==
  \/ Enrich(r) \/ InsertWord(r) \/ InsertSenses(r) \/ Commit(r)
  \/ GetByID(r) \/ ListRows(r) \/ CountWords(r) \/ ReadSenses(r) \/ Answer(r)

CatalogueNext == \E r \in Requests : Arrive(r) \/ Step(r) \/ Abort(r)

-----------------------------------------------------------------------------
CatalogueTypeOK ==
  /\ alive \subseteq Users
  /\ word \in [Terms -> Users \cup {NoUser, Absent}]
  /\ \A s \in senses : s.term \in Terms /\ s.order \in Nat
  /\ pc \in [Requests -> {"idle", "enrich", "insert", "senses", "commit", "get",
                          "list", "count", "readSenses", "answer"}]
  /\ loc \in [Requests ->
       [actor : Users \cup {NoUser}, term : Terms \cup {Absent}, drafts : Seq(Drafts),
        page : Pages \cup {1}, limit : 1..MaxLimit, rows : SUBSET Terms, total : Nat,
        shown : SUBSET senses]]
  /\ contributor \in [Terms -> Users \cup {NoUser}]
  /\ drafted \in [Terms -> Seq(Drafts)]

\* word.go:81, the transaction: whoever adds a word at the same time, is deleted
\* or fails, a word that can be seen has every sense of the answer it was made
\* of that has a definition, and none of another answer.
WordsAreWhole ==
  \A t \in Stored :
    /\ SensesOf({t}) = Kept(t, drafted[t])
    /\ \A i \in DOMAIN drafted[t] : drafted[t][i] # "refused"

\* Get reads a word and its senses in two statements, List in three: an answer
\* shows every word with all of its senses nonetheless, and only words that its
\* reader has contributed.  (services/word.go:168-173 attaches them to a list too,
\* whatever handlers/word.go:101, "senses not expanded", says.)
AnswersWhole ==
  \A r \in Requests : pc[r] = "answer" =>
    /\ loc[r].shown = SensesOf(loc[r].rows)
    /\ \A t \in loc[r].rows : contributor[t] = loc[r].actor

\* word_repository.go:103-122: rows and total are two statements, in an order
\* such that words added in between never put rows on a page beyond the last.
NoRowsBeyondTotal ==
  \A r \in Requests :
    LET l == loc[r]
    IN  /\ pc[r] = "answer" /\ l.term = Absent /\ l.actor \in alive
        /\ l.rows # {} /\ Representable(l.page, l.limit)
        => /\ l.page <= TotalPages(l.limit, l.total)
           /\ Offset(l.page, l.limit) + Cardinality(l.rows) <= l.total

\* NewPageMeta and Offset together: whoever follows has_next from page 1 to its
\* end meets every word of a list that does not change once.
PagesPartition ==
  \A u \in Users, limit \in 1..MaxLimit :
    LET pages == 1..TotalPages(limit, Cardinality(Own(u)))
        page(p) == Window(Own(u), Offset(p, limit), limit)
    IN  /\ UNION {page(p) : p \in pages} = Own(u)
        /\ \A p, q \in pages : p # q => page(p) \cap page(q) = {}
=============================================================================
