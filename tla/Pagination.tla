----------------------------- MODULE Pagination -----------------------------
(***************************************************************************)
(* Pages of a list: the arithmetic of src/app/models/pagination.go, and    *)
(* the conversion of the OFFSET to int32 in the repositories.              *)
(***************************************************************************)
EXTENDS Integers

CONSTANTS
  MaxLimit,   \* MaxLimit: 100 in the code
  IntModulus  \* the number of values of an int32: 2^32 in the code

ASSUME PaginationAssumption ==
  /\ MaxLimit \in Nat \ {0}
  /\ IntModulus \in Nat \ {0} /\ (IntModulus % 2) = 0

\* int32(x): the low bits, read with a sign.
Int32(x) == ((x + IntModulus \div 2) % IntModulus) - (IntModulus \div 2)

\* What ParsePageParams lets through; Normalize leaves such values alone.
Accepted(page, limit) == page >= 1 /\ limit \in 1..MaxLimit

\* (mutant) Pages counted from zero.
Offset_FromZero(page, limit) == page * limit
Offset(page, limit) == IF page < 1 THEN 0 ELSE (page - 1) * limit

SqlOffset(page, limit) == Int32(Offset(page, limit))

\* Whether the conversion leaves the offset alone.
Representable(page, limit) == SqlOffset(page, limit) = Offset(page, limit)

\* The rows that LIMIT limit OFFSET offset selects, counted from 1.
InWindow(i, offset, limit) == offset < i /\ i <= offset + limit

TotalPages(limit, total) ==
  IF total = 0 THEN 1 ELSE (total + limit - 1) \div limit

HasNext(page, limit, total) == page < TotalPages(limit, total)
=============================================================================
