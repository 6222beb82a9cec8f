--------------------------------- MODULE Leases ---------------------------------
(***************************************************************************)
(* What a pool of browsers promises the scans that share it, whatever it   *)
(* does to keep the promise: at most Size scans run in a browser at a      *)
(* time, no two in the same one, a browser that cannot separate scans is   *)
(* replaced after its first, and once the pool has shut no scan runs.      *)
(***************************************************************************)
EXTENDS Naturals, FiniteSets

CONSTANTS Clients, Browsers, Size

VARIABLES
    serves,     \* [Clients -> SUBSET Browsers]: the browser a scan runs in, if it does
    used,       \* browsers that have served a scan and not been replaced since
    separates,  \* each scan has a browser context of its own
    shut

vars == <<serves, used, separates, shut>>

Busy == UNION {serves[c] : c \in Clients}

Init == /\ serves = [c \in Clients |-> {}]
        /\ used = {} /\ separates \in BOOLEAN /\ shut = FALSE

Grant(c, b) ==
    /\ ~shut /\ serves[c] = {} /\ b \notin Busy
    /\ Cardinality(Busy) < Size
    /\ separates \/ b \notin used
    /\ serves' = [serves EXCEPT ![c] = {b}] /\ used' = used \cup {b}
    /\ UNCHANGED <<separates, shut>>

Yield(c) == /\ serves[c] # {}
            /\ serves' = [serves EXCEPT ![c] = {}]
            /\ UNCHANGED <<used, separates, shut>>

Replace(b) == /\ b \in used \ Busy
              /\ used' = used \ {b}
              /\ UNCHANGED <<serves, separates, shut>>

Shut == /\ ~shut /\ Busy = {}
        /\ shut' = TRUE
        /\ UNCHANGED <<serves, used, separates>>

Next == \/ \E c \in Clients : Yield(c) \/ \E b \in Browsers : Grant(c, b)
        \/ \E b \in Browsers : Replace(b)
        \/ Shut

Spec == Init /\ [][Next]_vars
================================================================================
