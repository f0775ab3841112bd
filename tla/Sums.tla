--------------------------------- MODULE Sums ---------------------------------
(***************************************************************************)
(* Adding up a sequence of numbers, as Python's sum does.                  *)
(***************************************************************************)
EXTENDS Integers, Sequences

SumOf(f) ==
    LET sum[n \in 0..Len(f)] == IF n = 0 THEN 0 ELSE sum[n - 1] + f[n]
    IN sum[Len(f)]

\* The sum of the terms at some of the places.
SumAt(places, f) == SumOf([i \in 1..Len(f) |-> IF i \in places THEN f[i] ELSE 0])
===============================================================================
