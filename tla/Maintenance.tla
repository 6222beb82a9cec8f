------------------------------ MODULE Maintenance ------------------------------
(***************************************************************************)
(* The daemon's maintenance loop (internal/app: MaintenanceLoop; the       *)
(* receipts of internal/store/maintenance.go; the reloads of cmd/wsaw).    *)
(*                                                                         *)
(* One goroutine prunes, sweeps and vacuums, one after the other.  A prune *)
(* is due an hour after the process started or the last one ended; a sweep *)
(* and a vacuum are due an interval after the last receipt in the store,   *)
(* so that restarts do not put them off, and not sooner than a delay after *)
(* the start, so that restarts do not repeat them.  A reload hands over    *)
(* new schedules through channels that hold one.  A command in a process   *)
(* of its own may sweep or vacuum beside the daemon and leaves the same    *)
(* receipts.  Time passes in ticks.                                        *)
(***************************************************************************)
EXTENDS Naturals, FiniteSets

CONSTANTS
    Intervals,      \* intervals of the sweep and the vacuum
    PruneInterval,
    Delay,          \* sweepStartupDelay
    Jitter,         \* sweepStartupJitter
    Off, None,      \* no schedule, no receipt or offer
    Commands,       \* what the operator also runs by command
    MinUptime       \* the process is not ended sooner than this after a start

ASSUME IntervalsAssumption == /\ Intervals \subseteq Nat \ {0} /\ IsFiniteSet(Intervals)
                             /\ PruneInterval \in Nat \ {0}
ASSUME MarksAssumption == Off \notin Nat /\ None \notin Nat \cup {Off}
ASSUME StartupAssumption ==
    /\ Delay \in Nat /\ Jitter \in Nat /\ MinUptime \in Nat
    /\ Delay + Jitter < MinUptime /\ Delay + Jitter < PruneInterval

Kinds == {"sweep", "vacuum"}
Jobs == {"prune"} \cup Kinds
ASSUME CommandsAssumption == Commands \subseteq Kinds
Schedules == Intervals \cup {Off}

VARIABLES
    process,    \* [up, stopping, uptime]
    loop,       \* [at, running]: what the loop's goroutine is at
    due,        \* ticks until each job is due, Off when it is not scheduled
    sched,      \* the schedules in force
    offered,    \* the channels of schedules
    wanted,     \* the schedules of the last accepted configuration
    since,      \* ticks since the last receipt of each kind, if there is one
    counted     \* ticks since the pass the loop counts from: the receipt it read when it set
                \* the schedule or its own last pass, if there is one

vars == <<process, loop, due, sched, offered, wanted, since, counted>>

Times == Intervals \cup {PruneInterval, Delay + Jitter, MinUptime}
Horizon == CHOOSE h \in Times : \A t \in Times : t <= h

TypeOK ==
    /\ process \in [up : BOOLEAN, stopping : BOOLEAN, uptime : 0..MinUptime]
    /\ loop \in [at : {"gone", "wait"} \cup Jobs, running : BOOLEAN]
    /\ due \in [Jobs -> 0..Horizon \cup {Off}]
    /\ sched \in [Kinds -> Schedules] /\ wanted \in [Kinds -> Schedules]
    /\ offered \in [Kinds -> Schedules \cup {None}]
    /\ since \in [Kinds -> 0..Horizon \cup {None}]
    /\ counted \in [Kinds -> 0..Horizon \cup {None}]
    /\ loop.at = "gone" <=> ~process.up
    /\ \A k \in Kinds : due[k] = Off <=> (~process.up \/ sched[k] = Off)

-----------------------------------------------------------------------------
Down == [up |-> FALSE, stopping |-> FALSE, uptime |-> 0]
Gone == [at |-> "gone", running |-> FALSE]

Init ==
    /\ process = Down /\ loop = Gone
    /\ due = [j \in Jobs |-> Off] /\ sched = [k \in Kinds |-> Off]
    /\ offered = [k \in Kinds |-> None]
    /\ wanted \in [Kinds -> Schedules]
    /\ since = [k \in Kinds |-> None] /\ counted = [k \in Kinds |-> None]

Later(a, b) == IF a > b THEN a ELSE b
Left(interval, past) == IF past >= interval THEN 0 ELSE interval - past

\* A mutant: due an interval after the start.
DueFromNow(s, last, jitter) == IF s = Off THEN Off ELSE Later(Delay + jitter, s)

\* sweepDue: an interval after the last receipt, and not sooner than the startup delay.
DueFrom(s, last, jitter) ==
    IF s = Off THEN Off
    ELSE Later(Delay + jitter, IF last = None THEN 0 ELSE Left(s, last))

\* lastRun: a receipt that cannot be read counts as none.
LastRuns(k) == {since[k], None}

\* While a schedule is off nothing is counted.
CountsFrom(s, last) == IF s = Off THEN None ELSE last

Start ==
    /\ ~process.up
    /\ process' = [up |-> TRUE, stopping |-> FALSE, uptime |-> 0]
    /\ loop' = [at |-> "wait", running |-> FALSE]
    /\ sched' = wanted
    /\ \E last \in {f \in [Kinds -> UNION {LastRuns(k) : k \in Kinds}] : \A k \in Kinds : f[k] \in LastRuns(k)},
          jitter \in [Kinds -> 0..Jitter] :
          /\ \E prune \in {PruneInterval, Off} :     \* Off: retention is not active
                due' = [j \in Jobs |-> IF j = "prune" THEN prune
                                       ELSE DueFrom(wanted[j], last[j], jitter[j])]
          /\ counted' = [k \in Kinds |-> CountsFrom(wanted[k], last[k])]
    /\ offered' = [k \in Kinds |-> None]
    /\ UNCHANGED <<wanted, since>>

-----------------------------------------------------------------------------
Idle == loop.at = "wait"
Runs(j) == loop = [at |-> j, running |-> TRUE]

\* A mutant: a channel that is full keeps what it holds.
OfferFirst(k, s) == IF offered[k] = None THEN s ELSE offered[k]

\* offerSchedule: a newer schedule replaces one the loop has not taken.
Offer(k, s) == s

\* reload: every accepted one hands over both schedules, changed or not.
Reload(new) ==
    /\ process.up /\ ~process.stopping
    /\ wanted' = new
    /\ offered' = [k \in Kinds |-> Offer(k, new[k])]
    /\ UNCHANGED <<process, loop, due, sched, since, counted>>

\* reschedule, rescheduleVacuum: a schedule that did not change changes nothing.
Reschedule(k, s) ==
    /\ sched' = [sched EXCEPT ![k] = s]
    /\ IF s = sched[k] THEN UNCHANGED <<due, counted>>
       ELSE \E last \in LastRuns(k), jitter \in 0..Jitter :
               /\ due' = [due EXCEPT ![k] = DueFrom(s, last, jitter)]
               /\ counted' = [counted EXCEPT ![k] = CountsFrom(s, last)]

TakeSchedule(k) ==
    /\ Idle /\ offered[k] # None
    /\ Reschedule(k, offered[k])
    /\ offered' = [offered EXCEPT ![k] = None]
    /\ UNCHANGED <<process, loop, wanted, since>>

\* arm: the timer of the job that is due first fires.  select takes any ready case, so
\* this and TakeSchedule may still come first in a process that is to stop.
Fire ==
    /\ Idle /\ \E j \in Jobs : due[j] = 0
    /\ loop' = [at |-> "prune", running |-> FALSE]
    /\ UNCHANGED <<process, due, sched, offered, wanted, since, counted>>

Next1(j) == IF j = "prune" THEN "sweep" ELSE IF j = "sweep" THEN "vacuum" ELSE "wait"

\* runDue: a job that is due runs, prune first; no sweep and no vacuum starts once the
\* process is stopping.
Begin(j) ==
    /\ loop = [at |-> j, running |-> FALSE] /\ due[j] = 0
    /\ j \in Kinds => ~process.stopping
    /\ loop' = [loop EXCEPT !.running = TRUE]
    /\ UNCHANGED <<process, due, sched, offered, wanted, since, counted>>

Skip(j) ==
    /\ loop = [at |-> j, running |-> FALSE]
    /\ due[j] # 0 \/ (j \in Kinds /\ process.stopping)
    /\ loop' = [at |-> Next1(j), running |-> FALSE]
    /\ UNCHANGED <<process, due, sched, offered, wanted, since, counted>>

\* A mutant: the next one is due as soon as the schedule would have had it.
RestNone(j) == IF j = "prune" THEN PruneInterval ELSE 0

\* The next one is due an interval after this one has finished.
Rest(j) == IF j = "prune" THEN PruneInterval ELSE sched[j]

\* recordMaintenanceRun: a receipt whatever the outcome, unless the store refuses it.
Receipt(j) == since' \in {since, [k \in Kinds |-> IF k = j THEN 0 ELSE since[k]]}

\* sweepOnce, vacuumOnce: a pass that is refused, fails or is interrupted is not
\* repeated sooner.
Finish(j) ==
    /\ Runs(j)
    /\ due' = [due EXCEPT ![j] = Rest(j)]
    /\ Receipt(j)
    /\ counted' = [k \in Kinds |-> IF k = j THEN 0 ELSE counted[k]]
    /\ loop' = [at |-> Next1(j), running |-> FALSE]
    /\ UNCHANGED <<process, sched, offered, wanted>>

\* `wsaw store sweep` or `wsaw store vacuum` has ended a pass of its own, at any time.
CommandRuns(k) ==
    /\ since' = [since EXCEPT ![k] = 0]
    /\ UNCHANGED <<process, loop, due, sched, offered, wanted, counted>>

-----------------------------------------------------------------------------
\* A terminated process waits for the loop; one that crashes does not.
Terminate ==
    /\ process.up /\ ~process.stopping /\ process.uptime >= MinUptime
    /\ process' = [process EXCEPT !.stopping = TRUE]
    /\ UNCHANGED <<loop, due, sched, offered, wanted, since, counted>>

EndProcess ==
    /\ process' = Down /\ loop' = Gone
    /\ due' = [j \in Jobs |-> Off] /\ offered' = [k \in Kinds |-> None]
    /\ counted' = [k \in Kinds |-> None]
    /\ UNCHANGED <<sched, wanted, since>>
Stop == process.stopping /\ Idle /\ EndProcess
Crash == process.up /\ process.uptime >= MinUptime /\ EndProcess

Aged(t) == IF t < Horizon THEN t + 1 ELSE t

\* Only waiting and the jobs take time.
Tick ==
    /\ ~process.up \/ loop.running \/ (Idle /\ \A j \in Jobs : due[j] # 0)
    /\ due' = [j \in Jobs |-> IF due[j] \in {Off, 0} THEN due[j] ELSE due[j] - 1]
    /\ since' = [k \in Kinds |-> IF since[k] = None THEN None ELSE Aged(since[k])]
    /\ counted' = [k \in Kinds |-> IF counted[k] = None THEN None ELSE Aged(counted[k])]
    /\ process' = [process EXCEPT !.uptime = IF @ < MinUptime /\ process.up THEN @ + 1 ELSE @]
    /\ UNCHANGED <<loop, sched, offered, wanted>>

LoopStep == (\E k \in Kinds : TakeSchedule(k)) \/ Fire \/ \E j \in Jobs : Begin(j) \/ Skip(j) \/ Finish(j)

Next ==
    \/ Start \/ Terminate \/ Stop \/ Crash \/ Tick \/ LoopStep
    \/ \E new \in [Kinds -> Schedules] : Reload(new)
    \/ \E k \in Commands : CommandRuns(k)

Spec == Init /\ [][Next]_vars

\* Time passes, a job ends, select takes every case that stays ready, and a process that
\* has ended is started again.
Fairness == /\ WF_vars(Tick) /\ WF_vars(Start) /\ SF_vars(Stop)
            /\ SF_vars(Fire) /\ \A k \in Kinds : SF_vars(TakeSchedule(k))
            /\ \A j \in Jobs : WF_vars(Begin(j) \/ Skip(j)) /\ WF_vars(Finish(j))
FairSpec == Spec /\ Fairness

-----------------------------------------------------------------------------
\* The store has a receipt the loop does not count from: it could not be read when the
\* schedule was set, or a command has left it since.
Overlooked(k) == counted[k] = None \/ since[k] < counted[k]

(* However often the process starts, reloads or overruns, a sweep or vacuum  *)
(* never begins within the startup delay, nor within an interval of the pass *)
(* the loop counts from, its own last one included, nor of the last receipt  *)
(* in the store but for one it overlooks.  store/maintenance.go:17 promises  *)
(* the last without exception: "the next sweep falls due an interval after   *)
(* the last one recorded here"; the loop looks when a schedule is set only.  *)
RunsAreSpaced ==
    [][\A k \in Kinds : Begin(k) =>
          /\ process.uptime >= Delay
          /\ counted[k] = None \/ counted[k] >= sched[k]
          /\ since[k] = None \/ since[k] >= sched[k] \/ Overlooked(k)]_vars

(* The schedule of the last accepted reload comes into force, also when it   *)
(* arrived in the middle of a long job, or right after another.              *)
LastReloadApplies ==
    \A k \in Kinds : \A s \in Schedules : <>[](wanted[k] = s) => []<>(sched[k] = s)

CutShort == loop.at \in Jobs /\ (process'.stopping # process.stopping \/ ~process'.up)

(* Neither nightly restarts nor reloads that leave the schedule as it is put *)
(* a sweep off for ever, nor a vacuum, unless commands go on running them,   *)
(* or process after process ends in the middle of the pass, in which the     *)
(* sweep goes first.                                                         *)
SchedulesAreKept ==
    \A k \in Kinds : <>[](wanted[k] \in Intervals) /\ <>[][wanted' = wanted]_vars
                        => \/ []<>Runs(k)
                           \/ k \in Commands /\ []<><<CommandRuns(k)>>_vars
                           \/ k = "vacuum" /\ []<><<CutShort>>_vars
==============================================================================
