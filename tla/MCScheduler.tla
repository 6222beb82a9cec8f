------------------------------ MODULE MCScheduler ------------------------------
(* Small instances of Scheduler for TLC.                                   *)
EXTENDS Scheduler, TLC

CONSTANTS w1, w2, A, B

Watch(origin, interval, floor, attempts) ==
    [origin |-> origin, interval |-> interval, floor |-> floor, attempts |-> attempts,
     truncated |-> FALSE, cron |-> FALSE]

List(settings) == [k \in Keys |-> settings]
Without(list, k) == [list EXCEPT ![k] = Absent]

\* A key is retried twice, then moved to another origin, where it is retried once,
\* truncated scans too, then removed.
Retried == List(Watch(A, 2, 2, 3))
OnCron == List([Watch(B, 2, 2, 2) EXCEPT !.cron = TRUE, !.truncated = TRUE])
Editing == {Retried, OnCron, Without(Retried, 1)}

\* Keys that share the only slot.
Shared == {List(Watch(A, 2, 1, 2))}

\* A bound: a key that was removed while it was scanned, and is exempt from OneRunPerKey,
\* is followed until its second run starts and not beyond.
FewOverlaps == Cardinality(Busy) <= 1 \/ orphaned = {}

WorkerSymmetry == Permutations(Workers)
================================================================================
