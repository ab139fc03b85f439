CONSTANTS
  u1 = u1
  u2 = u2
  Users = {u1, u2}
  NoUser = NoUser
  Terms = {1, 2}
  Absent = Absent
  Requests = {r1, r2}
  Answers <- SmallAnswers
  Pages = {1, 2, 4}
  MaxLimit = 2
  IntModulus = 6
  AllowFailures = TRUE
  Listable <- OneEntry
  NotListed = NotListed
CHECK_DEADLOCK FALSE
SYMMETRY Symmetry
SPECIFICATION Spec
INVARIANTS
  TypeOK
  WordsAreWhole
  AnswersWhole
  NoRowsBeyondTotal
  PagesPartition
  ScheduleFollowsBox
  StatsMatchLists
PROPERTIES
  VocabularyStays
