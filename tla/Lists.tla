-------------------------------- MODULE Lists --------------------------------
(* The reductions of arrays that several scripts make, as recursive          *)
(* functions over the positions of a sequence.                               *)
EXTENDS Integers, Sequences

\* The rows of a set, in their order.
Picked(rows, set) ==
  LET picked[n \in 0..Len(rows)] ==
        IF n = 0 THEN <<>>
        ELSE IF rows[n] \in set THEN Append(picked[n - 1], rows[n]) ELSE picked[n - 1]
  IN picked[Len(rows)]

SumOf(numbers) ==
  LET sum[n \in 0..Len(numbers)] == IF n = 0 THEN 0 ELSE sum[n - 1] + numbers[n]
  IN sum[Len(numbers)]
=============================================================================
