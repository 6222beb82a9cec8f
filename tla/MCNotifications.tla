---------------------------- MODULE MCNotifications ----------------------------
(* Small instances of Notifications for TLC.                               *)
EXTENDS Notifications, TLC

CONSTANTS s1, s2, c1, c2

\* A webhook that takes everything, and channels that differ in their gate.
Everything == [n \in Notifiers |-> Subjects]
\* A webhook that is not interested in one of two changes.
Selective == [n \in Notifiers |-> IF n \in Webhooks THEN {c1} ELSE Subjects]

ScanSymmetry == Permutations(Scans)
================================================================================
