------------------------------ MODULE ListQuery ------------------------------
(***************************************************************************)
(* The query of a list endpoint: page and limit as parseListQuery reads    *)
(* them, the slice that skip and take cut out of the sorted rows, and the  *)
(* link to the next page that buildListResult adds.                        *)
(***************************************************************************)
EXTENDS Integers, FiniteSets

CONSTANTS
  Rows,          \* what may be listed
  Rank,          \* the sort key of each row, ascending or descending
  NoNumber,      \* NaN: the parameter is missing or no number
  DefaultLimit,  \* DEFAULT_LIMIT
  MaxLimit       \* MAX_LIMIT

(* The sort key tells rows apart: between equal ones the database chooses  *)
(* an order for each query anew.                                           *)
ASSUME RankAssumption  == /\ IsFiniteSet(Rows)
                          /\ Rank \in [Rows -> Int]
                          /\ \A a, b \in Rows : Rank[a] = Rank[b] => a = b
ASSUME LimitAssumption == /\ NoNumber \notin Int
                          /\ DefaultLimit \in Nat /\ MaxLimit \in Nat \ {0}

Raw == Int \union {NoNumber}

(* parseInt(value) || otherwise: zero counts as missing. *)
Or(value, otherwise) == IF value \in {NoNumber, 0} THEN otherwise ELSE value

AtLeastOne(n) == IF n < 1 THEN 1 ELSE n
AtMost(n, m)  == IF n > m THEN m ELSE n

(* The place of a row among those listed, from 1. *)
Place(a, listed) == Cardinality({b \in listed : Rank[b] <= Rank[a]})

Skipped(page, limit) == (page - 1) * limit

(* Fault: the page size is not limited. *)
AnyLimit(value) == Or(value, DefaultLimit)

ParsePage(value)  == AtLeastOne(Or(value, 1))
ParseLimit(value) == AtMost(AtLeastOne(Or(value, DefaultLimit)), MaxLimit)

(* Fault: one row too few is taken. *)
ShortSlice(listed, page, limit) ==
  {a \in listed : /\ Place(a, listed) > Skipped(page, limit)
                  /\ Place(a, listed) < Skipped(page, limit) + limit}

(* skip and take. *)
Slice(listed, page, limit) ==
  {a \in listed : /\ Place(a, listed) > Skipped(page, limit)
                  /\ Place(a, listed) <= Skipped(page, limit) + limit}

(* pagination.next. *)
HasNext(page, limit, total) == page * limit < total
=============================================================================
