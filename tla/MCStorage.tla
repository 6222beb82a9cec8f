------------------------------- MODULE MCStorage -------------------------------
(* A small instance of Storage for TLC.                                       *)
EXTENDS Storage, TLC

CONSTANTS a, b          \* two of a kind

(* Four hours: the second and the third are one when clocks are put back, and *)
(* a day is two hours long.                                                   *)
Hours == 0..3
Named == {"hourly", "daily"}
Clock == [u \in Named |-> [t \in Hours |-> IF u = "daily" THEN t \div 2 ELSE IF t > 1 THEN t - 1 ELSE t]]
Thinning == [last : {0, 1}, within : {0, 2}, count : [Named -> 0..2]]
Older == [maxAge : {0, 2}, maxPerSeries : {0, 2}]

Symmetry == Permutations({a, b})
================================================================================
