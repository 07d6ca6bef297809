-------------------------------- MODULE Sums --------------------------------
(* The sum of a sequence of numbers.                                       *)
EXTENDS Integers, Sequences

UpTo(v) == LET sum[n \in 0..Len(v)] == IF n = 0 THEN 0 ELSE sum[n - 1] + v[n] IN sum
Sum(v) == UpTo(v)[Len(v)]
=============================================================================
