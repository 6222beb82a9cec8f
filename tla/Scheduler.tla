------------------------------- MODULE Scheduler -------------------------------
(***************************************************************************)
(* The scan scheduler of `wsaw run` (internal/daemon): one job per target  *)
(* and consent mode, a loop that selects between shutdown, a reloaded      *)
(* target list and its ticker, and one goroutine per running scan that     *)
(* decides, when the scan is over, whether the observation is retried or   *)
(* published.                                                              *)
(*                                                                         *)
(* Time is relative.  The code compares wall-clock instants; every such    *)
(* comparison is "has this span passed since then", so a job carries the   *)
(* ticks left until `next` (wait) and the ticks since `lastRun` (age,      *)
(* which saturates at Horizon, the value of a job that never ran).         *)
(*                                                                         *)
(* A scan is its start, its end and its kind of outcome.  The sampling     *)
(* decision and the error text a retry inherits are data and left out.     *)
(***************************************************************************)
EXTENDS Integers, FiniteSets

CONSTANTS
    Keys,           \* target/mode pairs, numbered in the order of the list
    Workers,        \* identities for the goroutines dispatch starts
    Origins,        \* scheme://host of a target's URL
    Concurrency,    \* Options.Concurrency, the capacity of sem
    PerOrigin,      \* Options.PerOriginConcurrency
    TargetLists,    \* the target lists that may be loaded: [Keys -> Settings \cup {Absent}]
    Absent,         \* a key the list does not name
    NoList,         \* the reload channel is empty
    BadList,        \* a target list buildJobs returns an error for
    CatchUp,        \* Options.CatchUp
    MaxJitter,      \* bound on jitter(), in ticks
    StartupWindow,  \* bound on startupDelay(), in ticks
    MaxBackoff,     \* bound on retry.Policy.Delay, in ticks
    ScanTime,       \* ticks a run may take from markStarted to the release of its slot
    Horizon,        \* where ages saturate
    MayCrash        \* whether the process may be killed

Settings == [origin: Origins, interval: Nat \ {0}, floor: Nat,
             attempts: Nat \ {0}, truncated: BOOLEAN, cron: BOOLEAN]

ASSUME KeysAssumption == Keys \subseteq Nat /\ Keys # {} /\ Origins # {}
ASSUME WorkersAssumption == IsFiniteSet(Workers)
ASSUME LimitsAssumption == Concurrency \in Nat \ {0} /\ PerOrigin \in Nat \ {0}
ASSUME ListsAssumption == /\ TargetLists \subseteq [Keys -> Settings \cup {Absent}]
                          /\ Absent \notin Settings
                          /\ NoList \notin TargetLists \cup {BadList}
                          /\ BadList \notin TargetLists
ASSUME TimesAssumption == /\ {MaxJitter, StartupWindow, ScanTime, Horizon} \subseteq Nat
                          /\ MaxBackoff \in Nat \ {0}
                          /\ \A list \in TargetLists, k \in Keys : list[k] # Absent =>
                                /\ list[k].interval + MaxJitter <= Horizon
                                /\ list[k].floor <= Horizon
                          /\ CatchUp \in BOOLEAN /\ MayCrash \in BOOLEAN

VARIABLES
    phase,      \* where Run is: "running", "stopping", "draining", "stopped"
    cancelled,  \* scanCtx is cancelled
    reload,     \* the reload channel, of capacity one
    ticker,     \* ticker.C holds a tick
    due,        \* the snapshot of due jobs dispatch is walking; {} in the select
    target,     \* the target list of the current jobs
    job,        \* the current job of each listed key
    sem,        \* tokens in sem
    inUse,      \* originLimiter.inUse
    pc,         \* where each scan goroutine is
    run,        \* what each scan goroutine runs
    stored,     \* age of the newest scan of each key that the store recorded
    owed,       \* history: keys with a failure held back and nothing published since
    lapsed,     \* history: keys of owed whose waiting retry a reload removed with the target
    orphaned,   \* history: keys a reload of this process dropped while a run was in flight
    asked       \* history: ticks since the last start of a key whose scan was recorded

loopVars == <<phase, cancelled, reload, ticker, due>>
jobVars  == <<target, job>>
slotVars == <<sem, inUse>>
runVars  == <<pc, run>>
histVars == <<owed, lapsed, orphaned, asked>>
vars == <<loopVars, jobVars, slotVars, runVars, stored, histVars>>

Phases   == {"running", "stopping", "draining", "stopped"}
Places   == {"idle", "scanning", "returned", "requeue", "finish", "publish", "release", "yield"}
Outcomes == {"none", "usable", "failed", "truncated"}

Job == [wait: Nat, age: 0 .. Horizon, attempt: Nat \ {0}, retrying: BOOLEAN]
Run == [key: Keys, origin: Origins, attempt: Nat \ {0}, spent: Nat, outcome: Outcomes]

MaxOf(a, b) == IF a >= b THEN a ELSE b
MinOf(a, b) == IF a <= b THEN a ELSE b

Listed == {k \in Keys : target[k] # Absent}
Busy == {w \in Workers : pc[w] # "idle"}

\* The runs of a key that have not yet been retried or published.
InFlight == {"scanning", "returned", "requeue", "finish", "publish"}
RunsOf(k) == {w \in Workers : pc[w] \in InFlight /\ run[w].key = k}


\* dispatch walks its snapshot in the order of the list.
IsNext(k) == k \in due /\ \A l \in due : k <= l

-----------------------------------------------------------------------------
(* The schedule of one job.                                                *)

\* The ticks until a schedule's next occurrence: a cron schedule is absolute,
\* so its next occurrence is anywhere within its period.
NextOccurrence(s) ==
    IF s.cron THEN 1 .. s.interval ELSE {s.interval + j : j \in 0 .. MaxJitter}

\* A mutant: the next run is the minimum interval away, whatever the schedule.
AdvanceByFloor(s) == {s.floor}

\* job.advance: the minimum interval is a floor under any schedule.
Advance(s) == {MaxOf(w, s.floor) : w \in NextOccurrence(s)}

Soon == IF CatchUp THEN {0} ELSE 0 .. StartupWindow

\* job.firstRun for a job whose last known run is `last` ticks old.
FirstRun(s, last) ==
    IF s.cron THEN NextOccurrence(s)
    ELSE {w \in {d - last : d \in NextOccurrence(s)} : w > 0}
         \cup (IF \E d \in NextOccurrence(s) : d <= last THEN Soon ELSE {})

\* job.dueAt: a retry is exempt from the minimum interval.
DueAt(s, j) == /\ j.wait = 0
               /\ j.retrying \/ j.age >= s.floor

\* A mutant: a restart forgets the store's last scan.
NewJobForgets(s, last) ==
    {[wait |-> w, age |-> Horizon, attempt |-> 1, retrying |-> FALSE] : w \in FirstRun(s, Horizon)}

\* buildJobs: schedules continue from the store's last scan.
NewJob(s, last) ==
    {[wait |-> w, age |-> last, attempt |-> 1, retrying |-> FALSE] : w \in FirstRun(s, last)}

NoJob == [wait |-> 0, age |-> Horizon, attempt |-> 1, retrying |-> FALSE]

JobsOf(list, k) == IF list[k] = Absent THEN {NoJob} ELSE NewJob(list[k], stored[k])

BuildJobs(list) ==
    {js \in [Keys -> UNION {JobsOf(list, k) : k \in Keys}] : \A k \in Keys : js[k] \in JobsOf(list, k)}

\* Mutants: a reload drops a waiting retry; a reload forgets the last run.
CarryOverDropsRetry(new, prev) ==
    [wait |-> new.wait, age |-> prev.age, attempt |-> 1, retrying |-> FALSE]
CarryOverForgetsRun(new, prev) ==
    [wait |-> IF prev.retrying THEN prev.wait ELSE new.wait,
     age |-> new.age, attempt |-> prev.attempt, retrying |-> prev.retrying]

\* job.carryOver: what a reload must not reset.
CarryOver(new, prev) ==
    [wait |-> IF prev.retrying THEN prev.wait ELSE new.wait,
     age |-> prev.age, attempt |-> prev.attempt, retrying |-> prev.retrying]

\* Mutants: the attempts of an observation are never reset, or never counted.
ResetRetriesKeepsAttempt(j) ==
    [wait |-> j.wait, age |-> j.age, attempt |-> j.attempt, retrying |-> FALSE]
RequeuedJobUncounted(j, delay) ==
    [wait |-> delay, age |-> j.age, attempt |-> j.attempt, retrying |-> TRUE]

ResetRetries(j) == [wait |-> j.wait, age |-> j.age, attempt |-> 1, retrying |-> FALSE]

RequeuedJob(j, delay) ==
    [wait |-> delay, age |-> j.age, attempt |-> j.attempt + 1, retrying |-> TRUE]

\* retry.Policy.Retryable, for the outcomes a scan can have.
Retryable(s, outcome) ==
    \/ outcome = "failed"
    \/ outcome = "truncated" /\ s.truncated

-----------------------------------------------------------------------------
(* The process starts, is told to stop, or is killed.                      *)

NoRun == [key |-> CHOOSE k \in Keys : TRUE, origin |-> CHOOSE o \in Origins : TRUE,
          attempt |-> 1, spent |-> 0, outcome |-> "none"]

AllIdle == [w \in Workers |-> "idle"]
NoRuns == [w \in Workers |-> NoRun]
NoneInUse == [o \in Origins |-> 0]

Init == /\ phase = "stopped" /\ cancelled = FALSE
        /\ reload = NoList /\ ticker = FALSE /\ due = {}
        /\ target = [k \in Keys |-> Absent]
        /\ job = [k \in Keys |-> NoJob]
        /\ pc = AllIdle /\ run = NoRuns /\ sem = 0 /\ inUse = NoneInUse
        /\ stored = [k \in Keys |-> Horizon]
        /\ owed = {} /\ lapsed = {} /\ orphaned = {}
        /\ asked = [k \in Keys |-> Horizon]

\* New and Run: a process starts on a target list.
Start(list) ==
    /\ phase = "stopped"
    /\ phase' = "running"
    /\ target' = list
    /\ job' \in BuildJobs(list)
    /\ UNCHANGED <<cancelled, reload, ticker, due, slotVars, runVars, stored, histVars>>

\* What is left of a process that is gone: its jobs and retries were in memory.
Gone == /\ phase' = "stopped" /\ cancelled' = FALSE
        /\ reload' = NoList /\ ticker' = FALSE /\ due' = {}
        /\ target' = [k \in Keys |-> Absent]
        /\ job' = [k \in Keys |-> NoJob]
        /\ pc' = AllIdle /\ run' = NoRuns /\ sem' = 0 /\ inUse' = NoneInUse
        /\ owed' = {} /\ lapsed' = {} /\ orphaned' = {}
        /\ UNCHANGED <<stored, asked>>

\* SIGTERM cancels the context Run was given.
Stop == /\ phase = "running"
        /\ phase' = "stopping"
        /\ UNCHANGED <<cancelled, reload, ticker, due, jobVars, slotVars, runVars, stored, histVars>>

Crash == MayCrash /\ phase # "stopped" /\ Gone

\* Ages saturate.
Older(n) == MinOf(n + 1, Horizon)

AgedJob(j) == [wait |-> MaxOf(j.wait - 1, 0), age |-> Older(j.age),
               attempt |-> j.attempt, retrying |-> j.retrying]

\* A tick of the wall clock.  The ticker fires, the loop having taken the last
\* tick, and no run outlasts ScanTime.
Tick ==
    /\ phase \in {"running", "stopping"} => ~ticker /\ due = {}
    /\ \A w \in Busy : run[w].spent < ScanTime
    /\ ticker' = (phase \in {"running", "stopping"})
    /\ job' = [k \in Keys |-> IF target[k] = Absent THEN job[k] ELSE AgedJob(job[k])]
    /\ run' = [w \in Workers |->
                 IF pc[w] = "idle" THEN run[w] ELSE [run[w] EXCEPT !.spent = @ + 1]]
    /\ stored' = [k \in Keys |-> Older(stored[k])]
    /\ asked' = [k \in Keys |-> Older(asked[k])]
    /\ UNCHANGED <<phase, cancelled, reload, due, target, slotVars, pc, owed, lapsed, orphaned>>

-----------------------------------------------------------------------------
(* The loop of Run: a reloaded list, the ticker, or shutdown.  While due   *)
(* is not empty the loop is inside dispatch and takes no other case.       *)

\* Daemon.Reload, called from one goroutine: a newer list supersedes a waiting one.
Reload(list) ==
    /\ phase = "running"
    /\ reload' = list
    /\ UNCHANGED <<phase, cancelled, ticker, due, jobVars, slotVars, runVars, stored, histVars>>

\* A mutant: a reload is applied at once rather than by the loop, beside a dispatch.
BesideDispatch == phase \in {"running", "stopping"}

InSelect == phase \in {"running", "stopping"} /\ due = {}

\* applyReload.  The jobs are built before the lock is taken; a scan goroutine
\* that runs in between acts as though it ran after, because carryOver reads
\* the jobs under the lock.  A retry that waits on the job of a target the list no
\* longer names is gone with the job, and nothing publishes the failure it was for.
ApplyReload ==
    /\ InSelect /\ reload \in TargetLists
    /\ reload' = NoList
    /\ target' = reload
    /\ \E new \in BuildJobs(reload) :
          job' = [k \in Keys |-> IF k \in Listed /\ reload[k] # Absent
                                   THEN CarryOver(new[k], job[k]) ELSE new[k]]
    /\ orphaned' = orphaned \cup {k \in Keys : reload[k] = Absent /\ RunsOf(k) # {}}
    /\ lapsed' = lapsed \cup {k \in owed : reload[k] = Absent /\ RunsOf(k) = {}}
    /\ UNCHANGED <<phase, cancelled, ticker, due, slotVars, runVars, stored, owed, asked>>

\* A list that cannot be applied leaves the previous schedule running.
RejectReload ==
    /\ InSelect /\ reload = BadList
    /\ reload' = NoList
    /\ UNCHANGED <<phase, cancelled, ticker, due, jobVars, slotVars, runVars, stored, histVars>>

\* dispatch takes its snapshot of the due jobs.
Dispatch ==
    /\ InSelect /\ ticker
    /\ ticker' = FALSE
    /\ due' = {k \in Listed : DueAt(target[k], job[k])}
    /\ UNCHANGED <<phase, cancelled, reload, jobVars, slotVars, runVars, stored, histVars>>

\* A mutant: one run more than the pool holds.
SlotFreeOffByOne == sem <= Concurrency

\* A token of sem, a slot of the origin (tryAcquire).
SlotFree == sem < Concurrency
OriginFree(o) == inUse[o] < PerOrigin

\* The pool is full: what is left of the snapshot waits for the next tick.
NoSlot ==
    /\ due # {}
    /\ ~SlotFree
    /\ due' = {}
    /\ UNCHANGED <<phase, cancelled, reload, ticker, jobVars, slotVars, runVars, stored, histVars>>

\* The origin is full: the token is given back and the next due job is tried.
OriginBusy(k) ==
    /\ IsNext(k)
    /\ SlotFree
    /\ ~OriginFree(target[k].origin)
    /\ due' = due \ {k}
    /\ UNCHANGED <<phase, cancelled, reload, ticker, jobVars, slotVars, runVars, stored, histVars>>

\* markStarted: the schedule moves on before the scan runs.
StartedJob(s, j) ==
    {[wait |-> w, age |-> 0, attempt |-> j.attempt, retrying |-> FALSE] : w \in Advance(s)}

\* Both slots are taken and the run starts in a goroutine of its own.
StartRun(k, w) ==
    LET o == target[k].origin
    IN  /\ IsNext(k)
        /\ SlotFree
        /\ OriginFree(o)
        /\ pc[w] = "idle"
        /\ sem' = sem + 1
        /\ inUse' = [inUse EXCEPT ![o] = @ + 1]
        /\ \E j \in StartedJob(target[k], job[k]) : job' = [job EXCEPT ![k] = j]
        /\ pc' = [pc EXCEPT ![w] = "scanning"]
        /\ run' = [run EXCEPT ![w] = [key |-> k, origin |-> o, attempt |-> job[k].attempt,
                                      spent |-> 0, outcome |-> "none"]]
        /\ due' = due \ {k}
        /\ UNCHANGED <<phase, cancelled, reload, ticker, target, stored, histVars>>

\* shutdown: the loop is left, the runs have the grace period to finish.
Shutdown ==
    /\ phase = "stopping" /\ due = {}
    /\ phase' = "draining"
    /\ ticker' = FALSE
    /\ reload' = NoList
    /\ UNCHANGED <<cancelled, due, jobVars, slotVars, runVars, stored, histVars>>

\* The grace period is over: the scans are cancelled, and still waited for.
GraceExpires ==
    /\ phase = "draining" /\ ~cancelled /\ Busy # {}
    /\ cancelled' = TRUE
    /\ UNCHANGED <<phase, reload, ticker, due, jobVars, slotVars, runVars, stored, histVars>>

\* A mutant: shutdown waits for the failures held back.
StoppedWaitsForRetries == phase = "draining" /\ Busy = {} /\ owed = {} /\ Gone

\* wg.Wait returned: Run returns and the process ends.
Stopped == phase = "draining" /\ Busy = {} /\ Gone

-----------------------------------------------------------------------------
(* The goroutine of one run.                                               *)

Goto(w, place) == pc' = [pc EXCEPT ![w] = place]

\* The age a stored result claims for its scan: that of the run's start, or that
\* of its end when the scan never reached a page (failedResult).
StartedAt(w, outcome) ==
    IF outcome = "failed" THEN {run[w].spent, 0} ELSE {run[w].spent}

\* persist: a store that refuses the result is logged, and the scan goes on.
Persist(w, outcome) ==
    LET k == run[w].key
    IN  \/ /\ \E a \in StartedAt(w, outcome) : stored' = [stored EXCEPT ![k] = MinOf(@, a)]
           /\ asked' = [asked EXCEPT ![k] = MinOf(@, run[w].spent)]
        \/ UNCHANGED <<stored, asked>>

\* Scanner.Scan returns; the result is stored whatever it is.
ScanReturns(w) ==
    /\ pc[w] = "scanning"
    /\ \E outcome \in Outcomes \ {"none"} :
          run' = [run EXCEPT ![w].outcome = outcome] /\ Persist(w, outcome)
    /\ Goto(w, "returned")
    /\ UNCHANGED <<loopVars, jobVars, slotVars, owed, lapsed, orphaned>>

\* considerRetry, up to its decision: the policy is that of the job the
\* scheduler runs now; a removed target has none and its outcome is final.
ConsiderRetry(w) ==
    LET s == target[run[w].key]
    IN  /\ pc[w] = "returned"
        /\ Goto(w, IF s = Absent THEN "publish"
                   ELSE IF /\ Retryable(s, run[w].outcome)
                           /\ run[w].attempt < s.attempts
                           /\ ~cancelled
                        THEN "requeue" ELSE "finish")
        /\ UNCHANGED <<loopVars, jobVars, slotVars, run, stored, histVars>>

\* scheduleRetry, under the lock, on the current job of the key.
Requeue(w) ==
    LET k == run[w].key
    IN  /\ pc[w] = "requeue"
        /\ target[k] # Absent
        /\ \E delay \in 1 .. MaxBackoff : job' = [job EXCEPT ![k] = RequeuedJob(@, delay)]
        /\ owed' = owed \cup {k} /\ lapsed' = lapsed \ {k}
        /\ Goto(w, "release")
        /\ UNCHANGED <<loopVars, target, slotVars, run, stored, orphaned, asked>>

\* scheduleRetry finds that a reload has removed the target.
RequeueFails(w) ==
    /\ pc[w] = "requeue"
    /\ target[run[w].key] = Absent
    /\ Goto(w, "publish")
    /\ UNCHANGED <<loopVars, jobVars, slotVars, run, stored, histVars>>

\* finishRetries, under the lock.
FinishRetries(w) ==
    LET k == run[w].key
    IN  /\ pc[w] = "finish"
        /\ job' = IF target[k] = Absent THEN job ELSE [job EXCEPT ![k] = ResetRetries(@)]
        /\ Goto(w, "publish")
        /\ UNCHANGED <<loopVars, target, slotVars, run, stored, histVars>>

\* publish: the outcome reaches the sink.
Publish(w) ==
    /\ pc[w] = "publish"
    /\ owed' = owed \ {run[w].key} /\ lapsed' = lapsed \ {run[w].key}
    /\ Goto(w, "release")
    /\ UNCHANGED <<loopVars, jobVars, slotVars, run, stored, orphaned, asked>>

\* The deferred releases, in their order: the origin, then the slot.
ReleaseOrigin(w) ==
    /\ pc[w] = "release"
    /\ inUse' = [inUse EXCEPT ![run[w].origin] = IF @ > 0 THEN @ - 1 ELSE 0]
    /\ Goto(w, "yield")
    /\ UNCHANGED <<loopVars, jobVars, sem, run, stored, histVars>>

ReleaseSlot(w) ==
    /\ pc[w] = "yield"
    /\ sem > 0
    /\ sem' = sem - 1
    /\ Goto(w, "idle")
    /\ run' = [run EXCEPT ![w] = NoRun]
    /\ UNCHANGED <<loopVars, jobVars, inUse, stored, histVars>>

-----------------------------------------------------------------------------
Process == \/ Stop \/ Crash \/ Tick
           \/ \E list \in TargetLists : Start(list)
           \/ \E list \in TargetLists \cup {BadList} : Reload(list)

Loop == \/ ApplyReload \/ RejectReload \/ Dispatch \/ NoSlot
        \/ \E k \in Keys : OriginBusy(k) \/ \E w \in Workers : StartRun(k, w)
        \/ Shutdown \/ GraceExpires \/ Stopped

Worker(w) == \/ ScanReturns(w) \/ ConsiderRetry(w) \/ Requeue(w) \/ RequeueFails(w)
             \/ FinishRetries(w) \/ Publish(w) \/ ReleaseOrigin(w) \/ ReleaseSlot(w)

Next == Process \/ Loop \/ \E w \in Workers : Worker(w)

Spec == Init /\ [][Next]_vars

\* Goroutines and time do not stall: a scan ends, for its hard timeout bounds
\* it and shutdown cancels it.  Go's select picks among ready cases at random,
\* so a case that is ready again and again is taken.
Fairness == /\ WF_vars(Tick)
            /\ SF_vars(Dispatch) /\ SF_vars(ApplyReload \/ RejectReload)
            /\ SF_vars(Shutdown)
            /\ WF_vars(NoSlot)
            /\ WF_vars(\E k \in Keys : OriginBusy(k) \/ \E w \in Workers : StartRun(k, w))
            /\ WF_vars(GraceExpires) /\ WF_vars(Stopped)
            /\ \A w \in Workers : WF_vars(Worker(w))

FairSpec == Spec /\ Fairness

-----------------------------------------------------------------------------
\* Every variable keeps its type, and the snapshot a dispatch walks names only keys that
\* are listed: a reload waits for the loop, which is the only one to replace the jobs.
TypeOK ==
    /\ phase \in Phases /\ cancelled \in BOOLEAN
    /\ reload \in TargetLists \cup {BadList, NoList} /\ ticker \in BOOLEAN
    /\ due \subseteq Listed
    /\ target \in [Keys -> Settings \cup {Absent}]
    /\ job \in [Keys -> Job]
    /\ sem \in Nat /\ inUse \in [Origins -> Nat]
    /\ pc \in [Workers -> Places] /\ run \in [Workers -> Run]
    /\ stored \in [Keys -> 0 .. Horizon] /\ asked \in [Keys -> 0 .. Horizon]
    /\ owed \subseteq Keys /\ lapsed \subseteq owed /\ orphaned \subseteq Keys

\* No more scans run at once than the concurrency allows, through reloads,
\* retries and shutdown: a token of sem is held from before the goroutine
\* starts until after its last deferred call (dispatch).
SlotsBounded == Cardinality(Busy) <= Concurrency

\* No origin is scanned by more runs at once than its limit, though a reload
\* may move a target to another origin while a run of it is in flight: the
\* run gives back the slot of the origin it took.
AtOrigin(o) == {w \in Busy : pc[w] # "yield" /\ run[w].origin = o}
OriginsBounded == \A o \in Origins : Cardinality(AtOrigin(o)) <= PerOrigin

\* A failure held back from notification has something that will settle it: a
\* retry waiting on the job the scheduler runs now, or a run that has yet to
\* decide (considerRetry, carryOver).  No reload loses it but one: that which
\* removes the target while its retry waits.  CHANGELOG.md:891 has it that "A
\* target the reload removed has its outcome published as final"; the code does
\* so for a run in flight, and never for a failure whose retry was waiting.
HeldBackHasSuccessor ==
    \A k \in owed : \/ target[k] # Absent /\ job[k].retrying
                   \/ RunsOf(k) # {}
                   \/ k \in lapsed

\* Two runs of one key are never in flight together, because no scan outlasts
\* the minimum interval, except for a key a reload dropped while it was being
\* scanned and a later reload brought back.
OneRunPerKey == \A k \in Keys \ orphaned : Cardinality(RunsOf(k)) <= 1

\* The attempts of one observation never exceed what any policy of the key
\* allows, whatever reloads change between attempts, and no attempt is left over
\* for the next observation: a job past its first attempt has a retry waiting or
\* a run in flight (considerRetry, finishRetries).
MaxAttempts(k) ==
    CHOOSE n \in {list[k].attempts : list \in {l \in TargetLists : l[k] # Absent}} :
        \A l \in TargetLists : l[k] # Absent => l[k].attempts <= n
AttemptsAreCounted ==
    /\ \A w \in Busy : run[w].key \notin orphaned => run[w].attempt <= MaxAttempts(run[w].key)
    /\ \A k \in Listed \ orphaned : job[k].attempt > 1 => job[k].retrying \/ RunsOf(k) # {}

\* A new observation of a key starts no sooner than its minimum interval after
\* the last recorded one, across reloads, restarts and crashes (dueAt,
\* carryOver, buildJobs).
Starts(k) == \E w \in Workers : pc[w] = "idle" /\ pc'[w] = "scanning" /\ run'[w].key = k
MinIntervalKept ==
    [][\A k \in Keys : Starts(k) /\ ~job[k].retrying =>
          asked[k] >= target[k].floor \/ k \in orphaned]_vars

\* Reloads more frequent than the startup delay put an overdue scan off for ever,
\* since each derives its start anew (applyReload, firstRun).
ReloadedForEver == []<><<ApplyReload>>_vars

\* A held back failure is settled: published by a later attempt, or lost with the
\* process or with a target removed while its retry waited; the later attempt gets
\* its slot though an earlier key of the list competes for it at every tick.
HeldBackIsSettled ==
    ReloadedForEver \/ \A k \in Keys : k \in owed ~> k \notin owed \/ k \in lapsed

\* The watcher keeps watching: every listed key is scanned again.
ScannedOrGone(k) == RunsOf(k) # {} \/ phase # "running" \/ k \notin Listed
KeepsWatching ==
    ReloadedForEver \/ \A k \in Keys : phase = "running" /\ k \in Listed ~> ScannedOrGone(k)

\* A process told to stop stops, its goroutines gone.
ShutdownCompletes == phase = "stopping" ~> phase = "stopped"
================================================================================
