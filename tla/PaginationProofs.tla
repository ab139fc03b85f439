-------------------------- MODULE PaginationProofs --------------------------
(***************************************************************************)
(* The arithmetic of pages, for any limit and any length of the list: a    *)
(* row is on one page, and that page is one of TotalPages.                 *)
(***************************************************************************)
EXTENDS Pagination, DivisionLemmas

LEMMA OffsetIsMultiple ==
  ASSUME NEW page \in Nat \ {0}, NEW limit \in Nat \ {0}
  PROVE  /\ Offset(page, limit) = limit * (page - 1)
         /\ Offset(page, limit) \in Nat
<1>1. Offset(page, limit) = limit * (page - 1)
  BY Z3 DEF Offset
<1>2. limit * (page - 1) \in Nat
  BY Z3
<1> QED
  BY <1>1, <1>2

LEMMA TotalPagesPositive ==
  ASSUME NEW limit \in Nat \ {0}, NEW total \in Nat
  PROVE  TotalPages(limit, total) \in Nat \ {0}
<1>1. CASE total = 0
  BY <1>1 DEF TotalPages
<1>2. CASE total # 0
  <2> DEFINE a == total + limit - 1
  <2>1. a \in Nat /\ limit <= a
    BY <1>2
  <2>2. /\ a \div limit \in Nat
        /\ a < limit * (a \div limit) + limit
    BY <2>1, DivBounds
  <2>3. a \div limit # 0
    BY <2>1, <2>2, Z3
  <2> QED
    BY <1>2, <2>2, <2>3 DEF TotalPages
<1> QED
  BY <1>1, <1>2

\* NewPageMeta and Offset: every row is on a page that total_pages counts, that
\* is, one that is reached by following has_next.
THEOREM EveryRowHasAPage ==
  ASSUME NEW limit \in Nat \ {0}, NEW total \in Nat, NEW i \in 1..total
  PROVE  \E page \in 1..TotalPages(limit, total) :
           InWindow(i, Offset(page, limit), limit)
<1> DEFINE q == (i - 1) \div limit
           a == total + limit - 1
           n == a \div limit
<1>1. q \in Nat /\ limit * q <= i - 1 /\ i - 1 < limit * q + limit
  <2>1. i - 1 \in Nat
    OBVIOUS
  <2> QED
    BY <2>1, DivBounds
<1>2. n \in Nat /\ a < limit * n + limit
  <2>1. a \in Nat
    OBVIOUS
  <2> QED
    BY <2>1, DivBounds
<1>3. TotalPages(limit, total) = n
  BY DEF TotalPages
<1>4. q < n
  <2>1. SUFFICES ASSUME n <= q PROVE FALSE
    BY <1>1, <1>2
  <2>2. limit * n <= limit * q
    BY <2>1, <1>1, <1>2, FactorsApart, Z3
  <2> HIDE DEF q, n
  <2>3. limit * n \in Int /\ limit * q \in Int
    BY <1>1, <1>2, Z3
  <2> QED
    BY <1>1, <1>2, <2>2, <2>3
<1>5. Offset(q + 1, limit) = limit * q
  BY <1>1, OffsetIsMultiple
<1>6. InWindow(i, Offset(q + 1, limit), limit)
  <2> HIDE DEF q, n
  <2>1. limit * q \in Int
    BY <1>1, Z3
  <2> QED
    BY <1>1, <1>5, <2>1 DEF InWindow
<1> QED
  <2> HIDE DEF q, n
  <2> QED
    BY <1>1, <1>2, <1>3, <1>4, <1>6

\* No row is on two pages.
THEOREM NoRowTwice ==
  ASSUME NEW limit \in Nat \ {0}, NEW p \in Nat \ {0}, NEW q \in Nat \ {0}, NEW i \in Int,
         InWindow(i, Offset(p, limit), limit),
         InWindow(i, Offset(q, limit), limit)
  PROVE  p = q
<1>1. ASSUME NEW x \in Nat \ {0}, NEW y \in Nat \ {0}, x < y,
             InWindow(i, Offset(x, limit), limit),
             InWindow(i, Offset(y, limit), limit)
      PROVE  FALSE
  <2>1. limit * (x - 1) + limit <= limit * (y - 1)
    BY <1>1, FactorsApart
  <2>2. limit * (x - 1) \in Nat /\ limit * (y - 1) \in Nat
    BY OffsetIsMultiple
  <2>3. i <= limit * (x - 1) + limit /\ limit * (y - 1) < i
    BY <1>1, OffsetIsMultiple DEF InWindow
  <2> QED
    BY <2>1, <2>2, <2>3
<1> QED
  BY <1>1

\* What the remainder is, for any modulus.
LEMMA ModFacts ==
  ASSUME NEW x \in Int, NEW m \in Nat \ {0}
  PROVE  /\ x % m \in 0 .. m - 1
         /\ x \in 0 .. m - 1 => x % m = x
  BY Z3

LEMMA ModBelow ==
  ASSUME NEW x \in Nat, NEW m \in Nat \ {0}
  PROVE  x % m <= x
  BY Z3

LEMMA HalfModulus ==
  /\ IntModulus \div 2 \in Nat \ {0}
  /\ IntModulus = (IntModulus \div 2) + (IntModulus \div 2)
  BY PaginationAssumption

\* The conversion to int32 leaves exactly the values of an int32 alone, and makes no
\* natural number greater.
LEMMA Int32Facts ==
  ASSUME NEW x \in Nat
  PROVE  /\ Int32(x) \in Int
         /\ Int32(x) = x <=> x < IntModulus \div 2
         /\ Int32(x) <= x
<1> DEFINE h == IntModulus \div 2
           y == (x + h) % IntModulus
<1>1. h \in Nat \ {0} /\ IntModulus = h + h /\ IntModulus \in Nat \ {0}
  BY HalfModulus, PaginationAssumption
<1>2. Int32(x) = y - h
  BY DEF Int32
<1>3. y \in 0 .. IntModulus - 1 /\ (x + h \in 0 .. IntModulus - 1 => y = x + h) /\ y <= x + h
  <2> HIDE DEF h
  <2>1. x + h \in Nat /\ x + h \in Int
    BY <1>1
  <2>2. y \in 0 .. IntModulus - 1
    BY <1>1, <2>1, ModFacts
  <2>3. x + h \in 0 .. IntModulus - 1 => y = x + h
    BY <1>1, <2>1, ModFacts
  <2>4. y <= x + h
    BY <1>1, <2>1, ModBelow
  <2> QED
    BY <2>2, <2>3, <2>4
<1>4. /\ y - h \in Int
      /\ y - h = x <=> x < h
      /\ y - h <= x
  <2> HIDE DEF h, y
  <2> QED
    BY <1>1, <1>3
<1> QED
  BY <1>2, <1>4

\* word_repository.go:112, user_repository.go:158: int32(page.Offset()) is the offset
\* exactly as long as the offset is an int32, whatever page and limit the request has; a
\* wrong one is smaller, so that it selects earlier rows or is refused as negative.
THEOREM OffsetConversion ==
  ASSUME NEW page \in Nat, NEW limit \in Nat, Accepted(page, limit)
  PROVE  /\ Representable(page, limit) <=> Offset(page, limit) < IntModulus \div 2
         /\ SqlOffset(page, limit) <= Offset(page, limit)
<1>1. page \in Nat \ {0} /\ limit \in Nat \ {0}
  BY PaginationAssumption DEF Accepted
<1>2. Offset(page, limit) \in Nat
  BY <1>1, OffsetIsMultiple
<1> QED
  BY <1>2, Int32Facts DEF Representable, SqlOffset

\* NewPageMeta: no page that has_next leads to is empty.
THEOREM NoEmptyPage ==
  ASSUME NEW limit \in Nat \ {0}, NEW total \in Nat \ {0},
         NEW page \in 1 .. TotalPages(limit, total)
  PROVE  Offset(page, limit) < total
<1> DEFINE a == total + limit - 1
           n == a \div limit
<1>1. a \in Nat /\ TotalPages(limit, total) = n
  BY DEF TotalPages
<1>2. n \in Nat /\ limit * n <= a
  BY <1>1, DivBounds
<1> HIDE DEF n
<1>3. page \in Nat \ {0} /\ page <= n
  BY <1>1, <1>2
<1>4. limit * (page - 1) + limit <= limit * n
  BY <1>2, <1>3, FactorsApart, page - 1 \in Int, page - 1 < n
<1>5. limit * (page - 1) \in Int /\ limit * n \in Int
  BY <1>2, <1>3, Z3
<1>6. limit * (page - 1) < total
  BY <1>2, <1>4, <1>5
<1> QED
  BY <1>3, <1>6, OffsetIsMultiple

\* So a list of at most 2^31 rows is unharmed: every page that total_pages counts is
\* asked of Postgres with its own offset.
THEOREM CountedPagesConvert ==
  ASSUME NEW limit \in 1 .. MaxLimit, NEW total \in Nat \ {0}, total <= IntModulus \div 2,
         NEW page \in 1 .. TotalPages(limit, total)
  PROVE  SqlOffset(page, limit) = Offset(page, limit)
<1>1. limit \in Nat \ {0} /\ MaxLimit \in Nat
  BY PaginationAssumption
<1>2. TotalPages(limit, total) \in Nat
  BY <1>1, TotalPagesPositive
<1>3. page \in Nat \ {0}
  BY <1>2
<1>4. Offset(page, limit) < total /\ Offset(page, limit) \in Nat
  BY <1>1, <1>3, NoEmptyPage, OffsetIsMultiple
<1>5. Offset(page, limit) < IntModulus \div 2
  BY <1>4, HalfModulus
<1> QED
  BY <1>4, <1>5, Int32Facts DEF SqlOffset
=============================================================================
