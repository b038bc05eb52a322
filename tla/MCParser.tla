------------------------------- MODULE MCParser -------------------------------
(* Small instance files for TLC. *)
EXTENDS Parser

Whole(n)   == [kind |-> "int", value |-> n]
Decimal(n) == [kind |-> "decimal", value |-> n]
HName      == [kind |-> "hotel", value |-> 0]
Word       == [kind |-> "word", value |-> 0]

HotelRow(x) == <<HName, Whole(x), Whole(0), Whole(0), Whole(0), Whole(0), Whole(9)>>

MCLines == {
  <<>>,
  <<Whole(2), Whole(0), Whole(2)>>,      \* no site or one, no extra hotel, two days
  <<Decimal(9)>>,
  <<Decimal(5), Whole(4)>>,          \* two budgets; too short for a header
  <<Whole(3), Word, Whole(-4)>>,       \* a word where a number is expected
  HotelRow(0), HotelRow(-7),
  <<Word, Whole(1), Decimal(-2), Whole(3), Whole(1), Whole(2), Whole(4)>>,
  <<Word, Whole(1), Whole(1), Whole(3), Whole(1), Whole(2)>>  \* a column is missing
}

Abs(n) == IF n < 0 THEN -n ELSE n

Manhattan(p, q) == Abs(p[1] - q[1]) + Abs(p[2] - q[2])
=============================================================================
