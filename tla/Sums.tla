--------------------------------- MODULE Sums ---------------------------------
(***************************************************************************)
(* What the tables of a store add up to, as Python's sum() over a list and *)
(* over the rows a comprehension selects.                                  *)
(***************************************************************************)
EXTENDS Integers, Sequences

SumList(seq) ==
  LET upto[n \in 0..Len(seq)] == IF n = 0 THEN 0 ELSE upto[n - 1] + seq[n]
  IN  upto[Len(seq)]

\* The sum of the values of the rows that pass the test.
Total(rows, Test(_), Value(_)) ==
  SumList([i \in 1..Len(rows) |-> IF Test(rows[i]) THEN Value(rows[i]) ELSE 0])
================================================================================
