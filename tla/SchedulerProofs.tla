--------------------------- MODULE SchedulerProofs ---------------------------
(* What Scheduler keeps for every number of keys, workers, origins and      *)
(* every set of target lists: the types, the two limits, that no held back  *)
(* failure is forgotten; and, where a scan does not outlast the minimum     *)
(* intervals of the lists, one run of a key at a time, its minimum interval *)
(* and the count of its attempts.                                           *)
EXTENDS Scheduler, TLAPS, FiniteSetTheorems, WellFoundedInduction

-----------------------------------------------------------------------------
(* The schedule's helpers.                                                  *)

\* A schedule's next occurrence is a number of ticks.
LEMMA NextOccurrenceType ==
    ASSUME NEW s \in Settings
    PROVE  NextOccurrence(s) \subseteq Nat
BY TimesAssumption DEF NextOccurrence, Settings

\* advance yields a number of ticks no smaller than the minimum interval.
LEMMA AdvanceType ==
    ASSUME NEW s \in Settings
    PROVE  \A w \in Advance(s) : w \in Nat /\ w >= s.floor
BY NextOccurrenceType DEF Advance, MaxOf, Settings

\* firstRun yields a number of ticks.
LEMMA FirstRunType ==
    ASSUME NEW s \in Settings, NEW last \in 0 .. Horizon
    PROVE  FirstRun(s, last) \subseteq Nat
<1>1. Horizon \in Nat /\ StartupWindow \in Nat
  BY TimesAssumption
<1>2. Soon \subseteq Nat
  BY <1>1 DEF Soon
<1>3. {w \in {d - last : d \in NextOccurrence(s)} : w > 0} \subseteq Nat
  BY <1>1, NextOccurrenceType
<1>4. QED
  BY <1>2, <1>3, NextOccurrenceType DEF FirstRun

\* A job no list names is a job.
LEMMA NoJobType == NoJob \in Job
BY TimesAssumption DEF NoJob, Job

\* buildJobs builds a job for every key.
LEMMA BuildJobsType ==
    ASSUME NEW list \in TargetLists, stored \in [Keys -> 0 .. Horizon],
           NEW js \in BuildJobs(list)
    PROVE  js \in [Keys -> Job]
<1>1. ASSUME NEW k \in Keys PROVE js[k] \in Job
  <2>1. js[k] \in JobsOf(list, k)
    BY DEF BuildJobs
  <2>2. CASE list[k] = Absent
    BY <2>1, <2>2, NoJobType DEF JobsOf
  <2>3. CASE list[k] # Absent
    <3>1. list[k] \in Settings
      BY <2>3, ListsAssumption
    <3>2. stored[k] \in 0 .. Horizon
      OBVIOUS
    <3>3. PICK w \in FirstRun(list[k], stored[k]) :
             js[k] = [wait |-> w, age |-> stored[k], attempt |-> 1, retrying |-> FALSE]
      BY <2>1, <2>3 DEF JobsOf, NewJob
    <3>4. w \in Nat
      BY <3>1, <3>2, <3>3, FirstRunType
    <3>5. QED
      BY <3>2, <3>3, <3>4 DEF Job
  <2>4. QED
    BY <2>2, <2>3
<1>2. js = [k \in Keys |-> js[k]]
  BY DEF BuildJobs
<1>3. QED
  BY <1>1, <1>2

\* The absence of a run is of a run's type.
LEMMA NoRunType == NoRun \in Run
BY KeysAssumption DEF NoRun, Run, Outcomes

\* Ages saturate.
LEMMA OlderType == \A n \in 0 .. Horizon : Older(n) \in 0 .. Horizon
BY TimesAssumption DEF Older, MinOf

-----------------------------------------------------------------------------
(* Nothing is left of a process that has stopped.                           *)

AtRest == phase = "stopped" => Busy = {} /\ due = {} /\ owed = {}

\* What a goroutine does, it does while its process runs.
LEMMA WorkersAreBusy ==
    ASSUME NEW w \in Workers, Worker(w)
    PROVE  w \in Busy /\ phase' = phase /\ due' = due
BY DEF Worker, ScanReturns, ConsiderRetry, Requeue, RequeueFails, FinishRetries, Publish,
       ReleaseOrigin, ReleaseSlot, Busy, loopVars

\* A process that ends leaves no goroutine, no snapshot and no held back failure,
\* so the next one starts from the store alone (Run, shutdown).
THEOREM RestIsClean == Spec => []AtRest
<1>1. Init => AtRest
  BY DEF Init, AtRest, Busy, AllIdle
<1>2. AtRest /\ [Next]_vars => AtRest'
  <2> SUFFICES ASSUME AtRest, [Next]_vars PROVE AtRest'
    OBVIOUS
  <2>1. CASE Gone
    BY <2>1 DEF Gone, AtRest, Busy, AllIdle
  <2>2. CASE UNCHANGED vars
    BY <2>2 DEF vars, loopVars, runVars, histVars, AtRest, Busy
  <2>3. CASE Process
    <3>1. CASE Stop
      BY <3>1 DEF Stop, AtRest
    <3>2. CASE Tick
      BY <3>2 DEF Tick, AtRest, Busy
    <3>3. ASSUME NEW list \in TargetLists, Start(list) PROVE AtRest'
      BY <3>3 DEF Start, AtRest
    <3>4. ASSUME NEW list \in TargetLists \cup {BadList}, Reload(list) PROVE AtRest'
      BY <3>4 DEF Reload, AtRest
    <3>5. QED
      BY <2>1, <2>3, <3>1, <3>2, <3>3, <3>4 DEF Process, Crash
  <2>4. CASE Loop
    <3>1. phase # "stopped" \/ due # {} => phase' # "stopped" \/ Gone
      BY <2>4 DEF Loop, ApplyReload, RejectReload, Dispatch, NoSlot, OriginBusy, StartRun,
                  Shutdown, GraceExpires, Stopped, InSelect, AtRest
    <3>2. phase # "stopped" \/ due # {}
      BY <2>4 DEF Loop, ApplyReload, RejectReload, Dispatch, NoSlot, OriginBusy, StartRun,
                  Shutdown, GraceExpires, Stopped, InSelect, IsNext
    <3>3. QED
      BY <2>1, <3>1, <3>2 DEF AtRest
  <2>5. ASSUME NEW w \in Workers, Worker(w) PROVE AtRest'
    BY <2>5, WorkersAreBusy DEF AtRest
  <2>6. QED
    BY <2>2, <2>3, <2>4, <2>5 DEF Next
<1>3. QED
  BY <1>1, <1>2, PTL DEF Spec

-----------------------------------------------------------------------------
(* Every variable keeps its type, and only listed jobs are due.             *)

\* The initial state and a process that is gone are of the types.
LEMMA InitType == Init => TypeOK
<1> SUFFICES ASSUME Init PROVE TypeOK
  OBVIOUS
<1>1. job \in [Keys -> Job] /\ run \in [Workers -> Run]
  BY NoJobType, NoRunType DEF Init, NoRuns
<1>2. stored \in [Keys -> 0 .. Horizon] /\ asked \in [Keys -> 0 .. Horizon]
  BY TimesAssumption DEF Init
<1>3. QED
  BY <1>1, <1>2 DEF Init, TypeOK, Phases, Listed, AllIdle, NoneInUse, Places

LEMMA GoneType == TypeOK /\ Gone => TypeOK'
<1> SUFFICES ASSUME TypeOK, Gone PROVE TypeOK'
  OBVIOUS
<1>1. job' \in [Keys -> Job] /\ run' \in [Workers -> Run]
  BY NoJobType, NoRunType DEF Gone, NoRuns
<1>2. QED
  BY <1>1 DEF Gone, TypeOK, Phases, Listed, AllIdle, NoneInUse, Places

\* Time leaves every job, run and age of its type.
LEMMA TickType == TypeOK /\ Tick => TypeOK'
<1> SUFFICES ASSUME TypeOK, Tick PROVE TypeOK'
  OBVIOUS
<1>1. job' \in [Keys -> Job]
  <2>1. ASSUME NEW k \in Keys PROVE AgedJob(job[k]) \in Job
    BY OlderType DEF AgedJob, TypeOK, Job, MaxOf
  <2>2. QED
    BY <2>1 DEF Tick, TypeOK
<1>2. run' \in [Workers -> Run]
  <2>1. \A w \in Workers : run[w].spent + 1 \in Nat
    BY DEF TypeOK, Run
  <2>2. \A w \in Workers : [run[w] EXCEPT !.spent = @ + 1] \in Run
    BY <2>1 DEF TypeOK, Run
  <2>3. QED
    BY <2>2 DEF Tick, TypeOK
<1>3. stored' \in [Keys -> 0 .. Horizon] /\ asked' \in [Keys -> 0 .. Horizon]
  BY OlderType DEF Tick, TypeOK
<1>4. QED
  BY <1>1, <1>2, <1>3 DEF Tick, TypeOK, Listed, slotVars

\* A reload leaves a job for every key.
LEMMA ApplyReloadType == TypeOK /\ ApplyReload => TypeOK'
<1> SUFFICES ASSUME TypeOK, ApplyReload PROVE TypeOK'
  OBVIOUS
<1>1. PICK new \in BuildJobs(reload) :
        job' = [k \in Keys |-> IF k \in Listed /\ reload[k] # Absent
                                 THEN CarryOver(new[k], job[k]) ELSE new[k]]
  BY DEF ApplyReload
<1>2. new \in [Keys -> Job]
  BY BuildJobsType DEF ApplyReload, TypeOK
<1>3. ASSUME NEW k \in Keys PROVE CarryOver(new[k], job[k]) \in Job
  BY <1>2 DEF CarryOver, Job, TypeOK
<1>4. job' \in [Keys -> Job]
  BY <1>1, <1>2, <1>3
<1>5. target' \in [Keys -> Settings \cup {Absent}]
  BY ListsAssumption DEF ApplyReload
<1>6. due' = {}
  BY DEF ApplyReload, InSelect
<1>7. QED
  BY <1>4, <1>5, <1>6 DEF ApplyReload, TypeOK, Listed, slotVars, runVars

\* A started run has a job with a moved schedule behind it.
LEMMA StartRunType ==
    ASSUME TypeOK, NEW k \in Keys, NEW w \in Workers, StartRun(k, w)
    PROVE  TypeOK'
<1>1. k \in Listed /\ target[k] \in Settings
  BY DEF StartRun, IsNext, TypeOK, Listed
<1>2. PICK j \in StartedJob(target[k], job[k]) : job' = [job EXCEPT ![k] = j]
  BY DEF StartRun
<1>3. j \in Job
  <2>1. PICK t \in Advance(target[k]) :
          j = [wait |-> t, age |-> 0, attempt |-> job[k].attempt, retrying |-> FALSE]
    BY <1>2 DEF StartedJob
  <2>2. t \in Nat
    BY <1>1, AdvanceType
  <2>3. 0 \in 0 .. Horizon
    BY TimesAssumption
  <2>4. QED
    BY <2>1, <2>2, <2>3 DEF Job, TypeOK
<1>4. job' \in [Keys -> Job]
  BY <1>2, <1>3 DEF TypeOK
<1>5. target[k].origin \in Origins
  BY <1>1 DEF Settings
<1>6. run' \in [Workers -> Run]
  BY <1>5 DEF StartRun, TypeOK, Run, Job, Outcomes
<1>7. inUse' \in [Origins -> Nat] /\ sem' \in Nat
  BY <1>5 DEF StartRun, TypeOK
<1>8. QED
  BY <1>4, <1>6, <1>7 DEF StartRun, TypeOK, Listed, Places, histVars

\* What a scan records is an age.
LEMMA ScanReturnsType ==
    ASSUME TypeOK, NEW w \in Workers, ScanReturns(w)
    PROVE  TypeOK'
<1>1. PICK outcome \in Outcomes \ {"none"} :
         run' = [run EXCEPT ![w].outcome = outcome] /\ Persist(w, outcome)
  BY DEF ScanReturns
<1>2. run' \in [Workers -> Run]
  BY <1>1 DEF TypeOK, Run
<1>3. run[w].key \in Keys /\ run[w].spent \in Nat
  BY DEF TypeOK, Run
<1>4. \A n \in 0 .. Horizon, a \in Nat : MinOf(n, a) \in 0 .. Horizon
  BY TimesAssumption DEF MinOf
<1>5. StartedAt(w, outcome) \subseteq Nat
  BY <1>3 DEF StartedAt
<1>6. stored' \in [Keys -> 0 .. Horizon] /\ asked' \in [Keys -> 0 .. Horizon]
  <2>1. CASE UNCHANGED <<stored, asked>>
    BY <2>1 DEF TypeOK
  <2>2. CASE /\ \E a \in StartedAt(w, outcome) :
                    stored' = [stored EXCEPT ![run[w].key] = MinOf(@, a)]
             /\ asked' = [asked EXCEPT ![run[w].key] = MinOf(@, run[w].spent)]
    <3>1. PICK a \in StartedAt(w, outcome) :
                    stored' = [stored EXCEPT ![run[w].key] = MinOf(@, a)]
      BY <2>2
    <3>2. a \in Nat
      BY <1>5
    <3>3. stored' \in [Keys -> 0 .. Horizon]
      BY <1>4, <3>1, <3>2 DEF TypeOK
    <3>4. asked' \in [Keys -> 0 .. Horizon]
      BY <1>3, <1>4, <2>2 DEF TypeOK
    <3>5. QED
      BY <3>3, <3>4
  <2>3. QED
    BY <1>1, <2>1, <2>2 DEF Persist
<1>7. QED
  BY <1>2, <1>6 DEF ScanReturns, Goto, TypeOK, Listed, Places, loopVars, jobVars, slotVars

\* Of a job, each write of a scan goroutine makes a job.
LEMMA JobEdits ==
    ASSUME NEW j \in Job, NEW delay \in Nat
    PROVE  RequeuedJob(j, delay) \in Job /\ ResetRetries(j) \in Job
BY DEF RequeuedJob, ResetRetries, Job

\* A requeued job is a job.
LEMMA RequeueType ==
    ASSUME TypeOK, NEW w \in Workers, Requeue(w)
    PROVE  TypeOK'
<1>1. PICK delay \in 1 .. MaxBackoff :
         job' = [job EXCEPT ![run[w].key] = RequeuedJob(@, delay)]
  BY DEF Requeue
<1>2. delay \in Nat
  BY TimesAssumption
<1>3. run[w].key \in Keys
  BY DEF TypeOK, Run
<1>4. RequeuedJob(job[run[w].key], delay) \in Job
  BY <1>2, <1>3, JobEdits DEF TypeOK
<1>5. job' \in [Keys -> Job]
  BY <1>1, <1>4 DEF TypeOK
<1>6. QED
  BY <1>3, <1>5 DEF Requeue, Goto, TypeOK, Listed, Places, loopVars, slotVars

\* The rest of a goroutine's steps.
LEMMA WorkerType ==
    ASSUME TypeOK, NEW w \in Workers, Worker(w)
    PROVE  TypeOK'
<1> USE DEF TypeOK, Goto, Places, Listed, loopVars, jobVars, slotVars, histVars
<1>1. CASE ScanReturns(w)
  BY <1>1, ScanReturnsType
<1>2. CASE ConsiderRetry(w)
  BY <1>2 DEF ConsiderRetry
<1>3. CASE Requeue(w)
  BY <1>3, RequeueType
<1>4. CASE RequeueFails(w)
  BY <1>4 DEF RequeueFails
<1>5. CASE FinishRetries(w)
  <2>1. \A j \in Job : ResetRetries(j) \in Job
    BY JobEdits, 0 \in Nat
  <2>2. job' \in [Keys -> Job]
    BY <1>5, <2>1 DEF FinishRetries
  <2>3. QED
    BY <1>5, <2>2 DEF FinishRetries
<1>6. CASE Publish(w)
  BY <1>6 DEF Publish
<1>7. CASE ReleaseOrigin(w)
  BY <1>7 DEF ReleaseOrigin, Run
<1>8. CASE ReleaseSlot(w)
  BY <1>8, NoRunType DEF ReleaseSlot
<1>9. QED
  BY <1>1, <1>2, <1>3, <1>4, <1>5, <1>6, <1>7, <1>8 DEF Worker

\* What the loop and the process do besides.
LEMMA LoopType ==
    ASSUME TypeOK, Loop
    PROVE  TypeOK'
<1> USE DEF TypeOK, Listed, Phases, jobVars, slotVars, runVars, histVars
<1>1. CASE ApplyReload
  BY <1>1, ApplyReloadType
<1>2. CASE RejectReload
  BY <1>2 DEF RejectReload
<1>3. CASE Dispatch
  BY <1>3 DEF Dispatch
<1>4. CASE NoSlot
  BY <1>4 DEF NoSlot
<1>5. ASSUME NEW k \in Keys, OriginBusy(k) PROVE TypeOK'
  BY <1>5 DEF OriginBusy
<1>6. ASSUME NEW k \in Keys, NEW w \in Workers, StartRun(k, w) PROVE TypeOK'
  BY <1>6, StartRunType
<1>7. CASE Shutdown
  BY <1>7 DEF Shutdown
<1>8. CASE GraceExpires
  BY <1>8 DEF GraceExpires
<1>9. CASE Stopped
  BY <1>9, GoneType DEF Stopped
<1>10. QED
  BY <1>1, <1>2, <1>3, <1>4, <1>5, <1>6, <1>7, <1>8, <1>9 DEF Loop

LEMMA ProcessType ==
    ASSUME TypeOK, AtRest, Process
    PROVE  TypeOK'
<1> USE DEF TypeOK, Listed, Phases, jobVars, slotVars, runVars, histVars
<1>1. CASE Stop
  BY <1>1 DEF Stop
<1>2. CASE Crash
  BY <1>2, GoneType DEF Crash
<1>3. CASE Tick
  BY <1>3, TickType
<1>4. ASSUME NEW list \in TargetLists, Start(list) PROVE TypeOK'
  <2>1. job' \in [Keys -> Job]
    BY <1>4, BuildJobsType DEF Start
  <2>2. target' \in [Keys -> Settings \cup {Absent}]
    BY <1>4, ListsAssumption DEF Start
  <2>3. due' \subseteq Listed'
    BY <1>4 DEF Start, AtRest
  <2>4. QED
    BY <1>4, <2>1, <2>2, <2>3 DEF Start
<1>5. ASSUME NEW list \in TargetLists \cup {BadList}, Reload(list) PROVE TypeOK'
  BY <1>5 DEF Reload
<1>6. QED
  BY <1>1, <1>2, <1>3, <1>4, <1>5 DEF Process

\* Every variable keeps its type through scans, reloads, retries, shutdown and
\* crashes, and the snapshot dispatch walks names listed keys only.
THEOREM TypeCorrect == Spec => []TypeOK
<1>1. TypeOK /\ AtRest /\ [Next]_vars => TypeOK'
  <2> SUFFICES ASSUME TypeOK, AtRest, [Next]_vars PROVE TypeOK'
    OBVIOUS
  <2>1. CASE Process
    BY <2>1, ProcessType
  <2>2. CASE Loop
    BY <2>2, LoopType
  <2>3. ASSUME NEW w \in Workers, Worker(w) PROVE TypeOK'
    BY <2>3, WorkerType
  <2>4. CASE UNCHANGED vars
    BY <2>4 DEF TypeOK, Listed, vars, loopVars, jobVars, slotVars, runVars, histVars
  <2>5. QED
    BY <2>1, <2>2, <2>3, <2>4 DEF Next
<1>2. QED
  BY InitType, RestIsClean, <1>1, PTL DEF Spec

-----------------------------------------------------------------------------
(* The slots.                                                               *)

\* A token for each goroutine.
SlotsCounted == sem = Cardinality(Busy) /\ sem <= Concurrency

\* Whatever the workers are at, they are finitely many.
LEMMA BusyFinite == IsFiniteSet(Busy) /\ Cardinality(Busy) \in Nat
BY WorkersAssumption, FS_Subset, FS_CardinalityType DEF Busy

\* The steps that start and end no goroutine.
LEMMA KeepSlots ==
    ASSUME SlotsCounted, sem' = sem, Busy' = Busy
    PROVE  SlotsCounted'
BY DEF SlotsCounted

\* A goroutine that goes elsewhere than idle stays busy.
LEMMA GotoStaysBusy ==
    ASSUME TypeOK, NEW w \in Busy, NEW place, place # "idle", Goto(w, place)
    PROVE  Busy' = Busy
BY DEF Goto, Busy, TypeOK

LEMMA StartRunCounts ==
    ASSUME TypeOK, SlotsCounted, NEW k \in Keys, NEW w \in Workers, StartRun(k, w)
    PROVE  SlotsCounted'
<1>1. w \notin Busy /\ Busy' = Busy \cup {w}
  BY DEF StartRun, Busy, TypeOK
<1>2. Cardinality(Busy \cup {w}) = Cardinality(Busy) + 1
  BY <1>1, BusyFinite, FS_AddElement
<1>3. sem' = sem + 1 /\ sem < Concurrency
  BY DEF StartRun, SlotFree
<1>4. QED
  BY <1>1, <1>2, <1>3, BusyFinite, LimitsAssumption DEF SlotsCounted

LEMMA WorkerCounts ==
    ASSUME TypeOK, SlotsCounted, NEW w \in Workers, Worker(w)
    PROVE  SlotsCounted'
<1>1. w \in Busy
  BY WorkersAreBusy
<1>2. CASE ReleaseSlot(w)
  <2>1. Busy' = Busy \ {w}
    BY <1>2 DEF ReleaseSlot, Goto, Busy, TypeOK
  <2>2. Cardinality(Busy \ {w}) = Cardinality(Busy) - 1
    BY <1>1, BusyFinite, FS_RemoveElement
  <2>3. sem' = sem - 1
    BY <1>2 DEF ReleaseSlot
  <2>4. QED
    BY <2>1, <2>2, <2>3, BusyFinite, LimitsAssumption DEF SlotsCounted
<1>3. CASE ~ReleaseSlot(w)
  <2>1. PICK place \in Places \ {"idle"} : Goto(w, place)
    BY <1>3 DEF Worker, ScanReturns, ConsiderRetry, Requeue, RequeueFails, FinishRetries,
                Publish, ReleaseOrigin, Places
  <2>2. sem' = sem
    BY <1>3 DEF Worker, ScanReturns, ConsiderRetry, Requeue, RequeueFails, FinishRetries,
                Publish, ReleaseOrigin, slotVars
  <2>3. QED
    BY <1>1, <2>1, <2>2, GotoStaysBusy, KeepSlots
<1>4. QED
  BY <1>2, <1>3

\* Every token of sem belongs to one goroutine that has not ended, so the
\* semaphore bounds the scans (dispatch).
THEOREM SlotsAreCounted == Spec => []SlotsCounted
<1>1. Init => SlotsCounted
  <2> SUFFICES ASSUME Init PROVE SlotsCounted
    OBVIOUS
  <2>1. Busy = {} /\ sem = 0
    BY DEF Init, Busy, AllIdle
  <2>2. QED
    BY <2>1, FS_EmptySet, LimitsAssumption DEF SlotsCounted
<1>2. TypeOK /\ SlotsCounted /\ [Next]_vars => SlotsCounted'
  <2> SUFFICES ASSUME TypeOK, SlotsCounted, [Next]_vars PROVE SlotsCounted'
    OBVIOUS
  <2>1. CASE Gone
    <3>1. Busy' = {} /\ sem' = 0
      BY <2>1 DEF Gone, Busy, AllIdle
    <3>2. QED
      BY <3>1, FS_EmptySet, LimitsAssumption DEF SlotsCounted
  <2>2. CASE UNCHANGED <<sem, pc>>
    BY <2>2, KeepSlots DEF Busy
  <2>3. CASE Process
    BY <2>1, <2>2, <2>3 DEF Process, Stop, Crash, Tick, Start, Reload, slotVars, runVars
  <2>4. CASE Loop
    <3>1. CASE \E k \in Keys, w \in Workers : StartRun(k, w)
      BY <3>1, StartRunCounts
    <3>2. CASE ~ \E k \in Keys, w \in Workers : StartRun(k, w)
      BY <2>1, <2>2, <2>4, <3>2 DEF Loop, ApplyReload, RejectReload, Dispatch, NoSlot,
                                  OriginBusy, Shutdown, GraceExpires, Stopped,
                                  slotVars, runVars
    <3>3. QED
      BY <3>1, <3>2
  <2>5. ASSUME NEW w \in Workers, Worker(w) PROVE SlotsCounted'
    BY <2>5, WorkerCounts
  <2>6. QED
    BY <2>2, <2>3, <2>4, <2>5 DEF Next, vars, slotVars, runVars
<1>3. QED
  BY <1>1, <1>2, TypeCorrect, PTL DEF Spec

\* No more scans run at once than the concurrency, for every set of keys and
\* workers, through reloads, retries, crashes and shutdown.
THEOREM SlotsAreBounded == Spec => []SlotsBounded
<1>1. SlotsCounted => SlotsBounded
  BY DEF SlotsCounted, SlotsBounded
<1>2. QED
  BY <1>1, SlotsAreCounted, PTL

\* A slot of an origin for each run that took it there.
OriginsCounted ==
    \A o \in Origins : inUse[o] = Cardinality(AtOrigin(o)) /\ inUse[o] <= PerOrigin

LEMMA AtOriginFinite ==
    \A o \in Origins : IsFiniteSet(AtOrigin(o)) /\ Cardinality(AtOrigin(o)) \in Nat
BY WorkersAssumption, FS_Subset, FS_CardinalityType DEF AtOrigin, Busy

\* The steps that take and release nothing.
LEMMA KeepOrigins ==
    ASSUME OriginsCounted, inUse' = inUse, \A o \in Origins : AtOrigin(o)' = AtOrigin(o)
    PROVE  OriginsCounted'
BY DEF OriginsCounted

LEMMA StartRunAtOrigin ==
    ASSUME TypeOK, OriginsCounted, NEW k \in Keys, NEW w \in Workers, StartRun(k, w)
    PROVE  OriginsCounted'
<1>1. PICK p \in Origins : p = target[k].origin
  BY DEF StartRun, IsNext, TypeOK, Listed, Settings
<1>2. /\ pc[w] = "idle" /\ pc' = [pc EXCEPT ![w] = "scanning"]
      /\ run' = [run EXCEPT ![w] = [key |-> k, origin |-> p, attempt |-> job[k].attempt,
                                    spent |-> 0, outcome |-> "none"]]
      /\ inUse[p] < PerOrigin /\ inUse' = [inUse EXCEPT ![p] = @ + 1]
  BY <1>1 DEF StartRun, OriginFree
<1>3. w \notin AtOrigin(p) /\ AtOrigin(p)' = AtOrigin(p) \cup {w}
  BY <1>2 DEF AtOrigin, Busy, TypeOK
<1>4. Cardinality(AtOrigin(p) \cup {w}) = Cardinality(AtOrigin(p)) + 1
  BY <1>1, <1>3, AtOriginFinite, FS_AddElement
<1>5. inUse'[p] = Cardinality(AtOrigin(p)') /\ inUse'[p] <= PerOrigin
  BY <1>1, <1>2, <1>3, <1>4, AtOriginFinite, LimitsAssumption DEF OriginsCounted, TypeOK
<1>6. ASSUME NEW o \in Origins, o # p
      PROVE  AtOrigin(o)' = AtOrigin(o) /\ inUse'[o] = inUse[o]
  BY <1>2, <1>6 DEF AtOrigin, Busy, TypeOK
<1>7. ASSUME NEW o \in Origins
      PROVE  inUse'[o] = Cardinality(AtOrigin(o)') /\ inUse'[o] <= PerOrigin
  <2>1. CASE o = p
    BY <1>5, <2>1
  <2>2. CASE o # p
    BY <1>6, <2>2 DEF OriginsCounted
  <2>3. QED
    BY <2>1, <2>2
<1>8. QED
  BY <1>7 DEF OriginsCounted

\* The run gives back the slot of the origin it took, wherever its target is now.
LEMMA ReleaseOriginAtOrigin ==
    ASSUME TypeOK, OriginsCounted, NEW w \in Workers, ReleaseOrigin(w)
    PROVE  OriginsCounted'
<1>1. PICK p \in Origins : p = run[w].origin
  BY DEF TypeOK, Run
<1>2. /\ pc[w] = "release" /\ pc' = [pc EXCEPT ![w] = "yield"] /\ run' = run
      /\ inUse' = [inUse EXCEPT ![p] = IF @ > 0 THEN @ - 1 ELSE 0]
  BY <1>1 DEF ReleaseOrigin, Goto
<1>3. w \in AtOrigin(p) /\ AtOrigin(p)' = AtOrigin(p) \ {w}
  BY <1>1, <1>2 DEF AtOrigin, Busy, TypeOK
<1>4. Cardinality(AtOrigin(p) \ {w}) = Cardinality(AtOrigin(p)) - 1
  BY <1>1, <1>3, AtOriginFinite, FS_RemoveElement
<1>5. Cardinality(AtOrigin(p)) > 0
  BY <1>1, <1>3, AtOriginFinite, FS_EmptySet
<1>6. inUse'[p] = Cardinality(AtOrigin(p)') /\ inUse'[p] <= PerOrigin
  BY <1>1, <1>2, <1>3, <1>4, <1>5, AtOriginFinite, LimitsAssumption DEF OriginsCounted, TypeOK
<1>7. ASSUME NEW o \in Origins, o # p
      PROVE  AtOrigin(o)' = AtOrigin(o) /\ inUse'[o] = inUse[o]
  BY <1>1, <1>2, <1>7 DEF AtOrigin, Busy, TypeOK
<1>8. ASSUME NEW o \in Origins
      PROVE  inUse'[o] = Cardinality(AtOrigin(o)') /\ inUse'[o] <= PerOrigin
  <2>1. CASE o = p
    BY <1>6, <2>1
  <2>2. CASE o # p
    BY <1>7, <2>2 DEF OriginsCounted
  <2>3. QED
    BY <2>1, <2>2
<1>9. QED
  BY <1>8 DEF OriginsCounted

LEMMA WorkerAtOrigin ==
    ASSUME TypeOK, OriginsCounted, NEW w \in Workers, Worker(w)
    PROVE  OriginsCounted'
<1>1. CASE ReleaseOrigin(w)
  BY <1>1, ReleaseOriginAtOrigin
<1>2. CASE ReleaseSlot(w)
  <2>1. \A o \in Origins : AtOrigin(o)' = AtOrigin(o)
    BY <1>2 DEF ReleaseSlot, Goto, AtOrigin, Busy, TypeOK
  <2>2. QED
    BY <1>2, <2>1, KeepOrigins DEF ReleaseSlot
<1>3. CASE ScanReturns(w)
  <2>1. PICK outcome \in Outcomes : run' = [run EXCEPT ![w].outcome = outcome]
    BY <1>3 DEF ScanReturns
  <2>2. \A v \in Workers : run'[v].origin = run[v].origin
    BY <2>1 DEF TypeOK, Run
  <2>3. pc[w] = "scanning" /\ pc' = [pc EXCEPT ![w] = "returned"]
    BY <1>3 DEF ScanReturns, Goto
  <2>4. \A o \in Origins : AtOrigin(o)' = AtOrigin(o)
    BY <2>2, <2>3 DEF AtOrigin, Busy, TypeOK
  <2>5. QED
    BY <1>3, <2>4, KeepOrigins DEF ScanReturns, slotVars
<1>4. CASE \/ ConsiderRetry(w) \/ Requeue(w) \/ RequeueFails(w)
           \/ FinishRetries(w) \/ Publish(w)
  <2>1. /\ run' = run /\ inUse' = inUse /\ pc[w] \notin {"idle", "yield"}
        /\ \E place \in Places \ {"idle", "yield"} : pc' = [pc EXCEPT ![w] = place]
    BY <1>4 DEF ConsiderRetry, Requeue, RequeueFails, FinishRetries, Publish, Goto,
                slotVars, Places
  <2>2. \A o \in Origins : AtOrigin(o)' = AtOrigin(o)
    BY <2>1 DEF AtOrigin, Busy, TypeOK
  <2>3. QED
    BY <2>1, <2>2, KeepOrigins
<1>5. QED
  BY <1>1, <1>2, <1>3, <1>4 DEF Worker

\* Every slot of an origin belongs to one run that took it, whatever origin its
\* target has been moved to since (originLimiter, startedRun).
THEOREM OriginsAreCounted == Spec => []OriginsCounted
<1>1. Init => OriginsCounted
  <2> SUFFICES ASSUME Init, NEW o \in Origins
               PROVE  inUse[o] = Cardinality(AtOrigin(o)) /\ inUse[o] <= PerOrigin
    BY DEF OriginsCounted
  <2>1. AtOrigin(o) = {} /\ inUse[o] = 0
    BY DEF Init, AtOrigin, Busy, AllIdle, NoneInUse
  <2>2. QED
    BY <2>1, FS_EmptySet, LimitsAssumption
<1>2. TypeOK /\ OriginsCounted /\ [Next]_vars => OriginsCounted'
  <2> SUFFICES ASSUME TypeOK, OriginsCounted, [Next]_vars PROVE OriginsCounted'
    OBVIOUS
  <2>1. CASE Gone
    <3>1. \A o \in Origins : AtOrigin(o)' = {} /\ inUse'[o] = 0
      BY <2>1 DEF Gone, AtOrigin, Busy, AllIdle, NoneInUse
    <3>2. QED
      BY <3>1, FS_EmptySet, LimitsAssumption DEF OriginsCounted
  <2>2. CASE UNCHANGED <<inUse, pc, run>>
    BY <2>2, KeepOrigins DEF AtOrigin, Busy
  <2>3. CASE Tick
    <3>1. \A w \in Workers : run'[w].origin = run[w].origin
      BY <2>3 DEF Tick, TypeOK, Run
    <3>2. \A o \in Origins : AtOrigin(o)' = AtOrigin(o)
      BY <2>3, <3>1 DEF Tick, AtOrigin, Busy
    <3>3. QED
      BY <2>3, <3>2, KeepOrigins DEF Tick, slotVars
  <2>4. CASE Process
    BY <2>1, <2>2, <2>3, <2>4 DEF Process, Stop, Crash, Start, Reload, slotVars, runVars
  <2>5. CASE Loop
    <3>1. CASE \E k \in Keys, w \in Workers : StartRun(k, w)
      BY <3>1, StartRunAtOrigin
    <3>2. CASE ~ \E k \in Keys, w \in Workers : StartRun(k, w)
      BY <2>1, <2>2, <2>5, <3>2 DEF Loop, ApplyReload, RejectReload, Dispatch, NoSlot,
                                  OriginBusy, Shutdown, GraceExpires, Stopped,
                                  slotVars, runVars
    <3>3. QED
      BY <3>1, <3>2
  <2>6. ASSUME NEW w \in Workers, Worker(w) PROVE OriginsCounted'
    BY <2>6, WorkerAtOrigin
  <2>7. QED
    BY <2>2, <2>4, <2>5, <2>6 DEF Next, vars, slotVars, runVars
<1>3. QED
  BY <1>1, <1>2, TypeCorrect, PTL DEF Spec

\* No origin is scanned by more runs at once than its limit, for every set of
\* keys, origins and reloaded lists.
THEOREM OriginsAreBounded == Spec => []OriginsBounded
<1>1. OriginsCounted => OriginsBounded
  BY DEF OriginsCounted, OriginsBounded
<1>2. QED
  BY <1>1, OriginsAreCounted, PTL

-----------------------------------------------------------------------------
(* What is held back from notification.                                     *)

Succeeded(k) == (target[k] # Absent /\ job[k].retrying) \/ RunsOf(k) # {} \/ k \in lapsed

\* A run that has not reached its end is still one after a step of its own.
LEMMA StaysInFlight ==
    ASSUME TypeOK, NEW w \in Workers, pc[w] \in InFlight, NEW place \in InFlight, Goto(w, place),
           \A v \in Workers : run'[v].key = run[v].key
    PROVE  \A k \in Keys : RunsOf(k)' = RunsOf(k)
BY DEF Goto, RunsOf, InFlight, TypeOK

\* A reload keeps a waiting retry of a target it keeps, and a run its key.
LEMMA ReloadKeepsSuccessors ==
    ASSUME TypeOK, HeldBackHasSuccessor, ApplyReload
    PROVE  HeldBackHasSuccessor'
<1> SUFFICES ASSUME NEW k \in owed' PROVE Succeeded(k)'
  BY DEF HeldBackHasSuccessor, Succeeded
<1>1. k \in owed /\ k \in Keys /\ lapsed \subseteq lapsed'
  BY DEF ApplyReload, TypeOK
<1>2. CASE RunsOf(k) # {}
  <2>1. RunsOf(k)' = RunsOf(k)
    BY DEF ApplyReload, runVars, RunsOf
  <2>2. QED
    BY <1>2, <2>1 DEF Succeeded
<1>3. CASE k \in lapsed'
  BY <1>3 DEF Succeeded
<1>4. CASE RunsOf(k) = {} /\ k \notin lapsed'
  <2>. reload[k] # Absent
    BY <1>1, <1>4 DEF ApplyReload
  <2>1. k \in Listed /\ job[k].retrying /\ reload[k] # Absent
    BY <1>1, <1>4 DEF HeldBackHasSuccessor, Listed
  <2>2. PICK new \in BuildJobs(reload) : job'[k] = CarryOver(new[k], job[k])
    BY <1>1, <2>1 DEF ApplyReload
  <2>3. job'[k].retrying /\ target'[k] # Absent
    BY <2>1, <2>2 DEF CarryOver, ApplyReload
  <2>4. QED
    BY <2>3 DEF Succeeded
<1>5. QED
  BY <1>2, <1>3, <1>4

\* A run that starts is a successor itself, and none of another key is lost.
LEMMA StartRunKeepsSuccessors ==
    ASSUME TypeOK, HeldBackHasSuccessor, NEW k \in Keys, NEW w \in Workers, StartRun(k, w)
    PROVE  HeldBackHasSuccessor'
<1> SUFFICES ASSUME NEW l \in owed' PROVE Succeeded(l)'
  BY DEF HeldBackHasSuccessor, Succeeded
<1>1. /\ pc[w] = "idle" /\ pc' = [pc EXCEPT ![w] = "scanning"]
      /\ run' = [run EXCEPT ![w] = [key |-> k, origin |-> target[k].origin,
                        attempt |-> job[k].attempt, spent |-> 0, outcome |-> "none"]]
  BY DEF StartRun
<1>2. l \in owed /\ l \in Keys /\ lapsed' = lapsed
  BY DEF StartRun, histVars, TypeOK
<1>3. CASE l = k
  <2>1. w \in RunsOf(k)'
    BY <1>1 DEF RunsOf, InFlight, TypeOK
  <2>2. QED
    BY <1>3, <2>1 DEF Succeeded
<1>4. CASE l # k
  <2>1. job'[l] = job[l] /\ target' = target
    BY <1>2, <1>4 DEF StartRun, TypeOK
  <2>2. RunsOf(l) \subseteq RunsOf(l)'
    BY <1>1 DEF RunsOf, InFlight, TypeOK
  <2>3. QED
    BY <1>2, <2>1, <2>2 DEF HeldBackHasSuccessor, Succeeded
<1>5. QED
  BY <1>3, <1>4

LEMMA WorkerKeepsSuccessors ==
    ASSUME TypeOK, HeldBackHasSuccessor, NEW w \in Workers, Worker(w)
    PROVE  HeldBackHasSuccessor'
<1> SUFFICES ASSUME NEW k \in owed' PROVE Succeeded(k)'
  BY DEF HeldBackHasSuccessor, Succeeded
<1>1. owed \subseteq Keys /\ run[w].key \in Keys
  BY DEF TypeOK, Run
<1>2. CASE ScanReturns(w)
  <2>1. PICK outcome \in Outcomes : run' = [run EXCEPT ![w].outcome = outcome]
    BY <1>2 DEF ScanReturns
  <2>2. \A v \in Workers : run'[v].key = run[v].key
    BY <2>1 DEF TypeOK, Run
  <2>3. pc[w] \in InFlight /\ Goto(w, "returned") /\ "returned" \in InFlight
    BY <1>2 DEF ScanReturns, InFlight
  <2>4. \A l \in Keys : RunsOf(l)' = RunsOf(l)
    BY <2>2, <2>3, StaysInFlight
  <2>5. UNCHANGED <<job, target, owed, lapsed>>
    BY <1>2 DEF ScanReturns, jobVars
  <2>6. QED
    BY <1>1, <2>4, <2>5 DEF HeldBackHasSuccessor, Succeeded
<1>3. CASE ConsiderRetry(w) \/ RequeueFails(w)
  <2>1. /\ run' = run /\ pc[w] \in InFlight /\ \E place \in InFlight : Goto(w, place)
        /\ UNCHANGED <<job, target, owed, lapsed>>
    BY <1>3 DEF ConsiderRetry, RequeueFails, InFlight, jobVars, histVars
  <2>2. \A l \in Keys : RunsOf(l)' = RunsOf(l)
    BY <2>1, StaysInFlight
  <2>3. QED
    BY <1>1, <2>1, <2>2 DEF HeldBackHasSuccessor, Succeeded
<1>4. CASE FinishRetries(w)
  <2>1. /\ run' = run /\ pc[w] = "finish" /\ Goto(w, "publish")
        /\ UNCHANGED <<target, owed, lapsed>>
    BY <1>4 DEF FinishRetries, histVars
  <2>2. \A l \in Keys : RunsOf(l)' = RunsOf(l)
    BY <2>1, StaysInFlight DEF InFlight
  <2>3. CASE k = run[w].key
    <3>1. w \in RunsOf(k)
      BY <2>1, <2>3 DEF RunsOf, InFlight
    <3>2. QED
      BY <1>1, <2>2, <2>3, <3>1 DEF Succeeded
  <2>4. CASE k # run[w].key
    <3>1. job'[k] = job[k]
      BY <1>1, <1>4, <2>1, <2>4 DEF FinishRetries, TypeOK
    <3>2. QED
      BY <1>1, <2>1, <2>2, <3>1 DEF HeldBackHasSuccessor, Succeeded
  <2>5. QED
    BY <2>3, <2>4
<1>5. CASE Requeue(w)
  <2>1. /\ target[run[w].key] # Absent /\ target' = target /\ run' = run
        /\ owed' = owed \cup {run[w].key} /\ pc' = [pc EXCEPT ![w] = "release"]
    BY <1>5 DEF Requeue, Goto
  <2>2. CASE k = run[w].key
    <3>1. job'[k].retrying
      BY <1>1, <1>5, <2>2 DEF Requeue, RequeuedJob, TypeOK
    <3>2. QED
      BY <2>1, <2>2, <3>1 DEF Succeeded
  <2>3. CASE k # run[w].key
    <3>1. k \in owed /\ job'[k] = job[k] /\ (k \in lapsed => k \in lapsed')
      BY <1>1, <1>5, <2>1, <2>3 DEF Requeue, TypeOK
    <3>2. RunsOf(k)' = RunsOf(k)
      BY <2>1, <2>3 DEF RunsOf, TypeOK
    <3>3. QED
      BY <2>1, <3>1, <3>2 DEF HeldBackHasSuccessor, Succeeded
  <2>4. QED
    BY <2>2, <2>3
<1>6. CASE Publish(w)
  <2>1. /\ UNCHANGED <<job, target, run>> /\ owed' = owed \ {run[w].key}
        /\ pc' = [pc EXCEPT ![w] = "release"]
    BY <1>6 DEF Publish, Goto, jobVars
  <2>2. k \in owed /\ k # run[w].key /\ (k \in lapsed => k \in lapsed')
    BY <1>6, <2>1 DEF Publish
  <2>3. RunsOf(k)' = RunsOf(k)
    BY <2>1, <2>2 DEF RunsOf, TypeOK
  <2>4. QED
    BY <2>1, <2>2, <2>3 DEF HeldBackHasSuccessor, Succeeded
<1>7. CASE ReleaseOrigin(w) \/ ReleaseSlot(w)
  <2>1. /\ UNCHANGED <<job, target, owed, lapsed>> /\ pc[w] \notin InFlight
        /\ \A v \in Workers \ {w} : run'[v] = run[v]
        /\ \E place \in Places \ InFlight : pc' = [pc EXCEPT ![w] = place]
    BY <1>7 DEF ReleaseOrigin, ReleaseSlot, Goto, jobVars, histVars, InFlight, Places, TypeOK
  <2>2. RunsOf(k)' = RunsOf(k)
    BY <2>1 DEF RunsOf, TypeOK
  <2>3. QED
    BY <2>1, <2>2 DEF HeldBackHasSuccessor, Succeeded
<1>8. QED
  BY <1>2, <1>3, <1>4, <1>5, <1>6, <1>7 DEF Worker

\* A failure held back from notification is not forgotten: at every moment of
\* every run, its target has a retry waiting, or a scan that will settle it, until
\* it is published or its process is gone; the failures that have neither are those
\* of `lapsed`, whose target a reload removed while the retry waited.
THEOREM HeldBackIsKept == Spec => []HeldBackHasSuccessor
<1>1. Init => HeldBackHasSuccessor
  BY DEF Init, HeldBackHasSuccessor
<1>2. TypeOK /\ AtRest /\ HeldBackHasSuccessor /\ [Next]_vars => HeldBackHasSuccessor'
  <2> SUFFICES ASSUME TypeOK, AtRest, HeldBackHasSuccessor, [Next]_vars
               PROVE  HeldBackHasSuccessor'
    OBVIOUS
  <2>1. CASE Gone
    BY <2>1 DEF Gone, HeldBackHasSuccessor
  <2>2. CASE UNCHANGED <<target, job, pc, run, owed, lapsed>>
    BY <2>2 DEF HeldBackHasSuccessor, RunsOf
  <2>3. CASE Process
    <3>1. CASE Tick
      <4>1. \A w \in Workers : run'[w].key = run[w].key
        BY <3>1 DEF Tick, TypeOK, Run
      <4>2. \A k \in Keys : RunsOf(k)' = RunsOf(k)
        BY <3>1, <4>1 DEF Tick, RunsOf
      <4>3. \A k \in Keys : job'[k].retrying = job[k].retrying
        BY <3>1 DEF Tick, AgedJob
      <4>4. UNCHANGED <<target, owed, lapsed>> /\ owed \subseteq Keys
        BY <3>1 DEF Tick, TypeOK
      <4>5. QED
        BY <4>2, <4>3, <4>4 DEF HeldBackHasSuccessor
    <3>2. ASSUME NEW list \in TargetLists, Start(list) PROVE HeldBackHasSuccessor'
      BY <3>2 DEF Start, AtRest, histVars, HeldBackHasSuccessor
    <3>3. QED
      BY <2>1, <2>2, <2>3, <3>1, <3>2 DEF Process, Stop, Crash, Reload,
                                        jobVars, runVars, histVars
  <2>4. CASE Loop
    <3>1. CASE \E k \in Keys, w \in Workers : StartRun(k, w)
      BY <3>1, StartRunKeepsSuccessors
    <3>2. CASE ~ \E k \in Keys, w \in Workers : StartRun(k, w)
      BY <2>1, <2>2, <2>4, <3>2, ReloadKeepsSuccessors
         DEF Loop, RejectReload, Dispatch, NoSlot, OriginBusy, Shutdown, GraceExpires,
             Stopped, jobVars, runVars, histVars
    <3>3. QED
      BY <3>1, <3>2
  <2>5. ASSUME NEW w \in Workers, Worker(w) PROVE HeldBackHasSuccessor'
    BY <2>5, WorkerKeepsSuccessors
  <2>6. QED
    BY <2>2, <2>3, <2>4, <2>5 DEF Next, vars, jobVars, runVars, histVars
<1>3. QED
  BY <1>1, <1>2, TypeCorrect, RestIsClean, PTL DEF Spec

-----------------------------------------------------------------------------
(* The spacing of the scans of one key.                                     *)


\* A scan, which its hard timeout bounds, is over before its target's minimum
\* interval has passed, whichever list is loaded.
ScansAreShort ==
    \A list \in TargetLists, k \in Keys : list[k] # Absent => ScanTime < list[k].floor

-----------------------------------------------------------------------------
(* The inductive invariant.                                                  *)

\* The settings in force are those of a list that was loaded.
Loaded == \A k \in Listed : \E list \in TargetLists : list[k] = target[k]
\* Only the loop of Run walks a snapshot.
Walking == phase \notin {"running", "stopping"} => due = {}
Timely == \A w \in Busy : run[w].spent <= ScanTime
\* A result claims no earlier time than its scan's start.
Recorded == \A k \in Keys : stored[k] <= asked[k]

Single(k) == \A v, w \in RunsOf(k) : v = w
\* A run in flight took the retry it may be, and the job has counted its age from
\* the start of that run, through every reload since.
InCharge(k) == \A w \in RunsOf(k) : k \in Listed /\ ~job[k].retrying /\ job[k].age <= run[w].spent
\* What dispatch is about to start is due, also now, and nothing of it runs.
Ready(k) == k \in due => RunsOf(k) = {} /\ DueAt(target[k], job[k])
\* A job believes its last run no longer ago than it was.
Dated(k) == k \in Listed => job[k].age <= asked[k]
Spaced(k) == Single(k) /\ InCharge(k) /\ Ready(k) /\ Dated(k)

SpacingInv == Loaded /\ Walking /\ Timely /\ Recorded /\ \A k \in Keys \ orphaned : Spaced(k)

-----------------------------------------------------------------------------
(* What the steps of the process and of the loop keep.                       *)

\* The fields of what runs and of what is scheduled.
LEMMA Fields ==
    ASSUME TypeOK
    PROVE  /\ \A k \in Keys : /\ job[k].age \in Nat /\ job[k].age <= Horizon /\ job[k].retrying \in BOOLEAN
                              /\ job[k].attempt \in Nat \ {0} /\ job[k].wait \in Nat
                              /\ stored[k] \in 0 .. Horizon /\ asked[k] \in 0 .. Horizon
           /\ \A w \in Workers : run[w].spent \in Nat /\ run[w].attempt \in Nat \ {0} /\ run[w].key \in Keys
           /\ Horizon \in Nat /\ ScanTime \in Nat
<1>1. Horizon \in Nat /\ ScanTime \in Nat
  BY TimesAssumption
<1>2. \A j \in Job : /\ j.age \in Nat /\ j.age <= Horizon /\ j.retrying \in BOOLEAN
                     /\ j.attempt \in Nat \ {0} /\ j.wait \in Nat
  BY <1>1 DEF Job
<1>3. \A r \in Run : r.spent \in Nat /\ r.attempt \in Nat \ {0} /\ r.key \in Keys
  BY DEF Run
<1>4. QED
  BY <1>1, <1>2, <1>3 DEF TypeOK

\* The minimum interval of a listed key exceeds a scan.
LEMMA FloorExceedsScans ==
    ASSUME ScansAreShort, TypeOK, Loaded, NEW k \in Listed
    PROVE  target[k].floor \in Nat /\ ScanTime < target[k].floor
<1>1. k \in Keys /\ target[k] \in Settings
  BY DEF Listed, TypeOK
<1>2. PICK list \in TargetLists : list[k] = target[k]
  BY DEF Loaded
<1>3. QED
  BY <1>1, <1>2 DEF ScansAreShort, Settings, Listed

\* A step that touches neither jobs nor runs, and only shortens the snapshot.
LEMMA Rests ==
    ASSUME SpacingInv, UNCHANGED <<target, job, pc, run, stored, asked, orphaned>>, due' \subseteq due,
           phase' \notin {"running", "stopping"} => due' = {}
    PROVE  SpacingInv'
<1>1. Loaded' /\ Walking' /\ Timely' /\ Recorded'
  BY DEF SpacingInv, Loaded, Walking, Timely, Recorded, Listed, Busy
<1>2. ASSUME NEW k \in Keys \ orphaned PROVE Spaced(k)'
  <2>1. Spaced(k)
    BY DEF SpacingInv
  <2>2. QED
    BY <2>1 DEF Spaced, Single, InCharge, Ready, Dated, RunsOf, Listed
<1>3. QED
  BY <1>1, <1>2 DEF SpacingInv

\* No run and no job is left of a process that is gone.
LEMMA GoneIsSpaced ==
    ASSUME SpacingInv, Gone
    PROVE  SpacingInv'
<1>1. Listed' = {} /\ Busy' = {} /\ due' = {} /\ Recorded'
  BY DEF Gone, Listed, Busy, AllIdle, Recorded, SpacingInv
<1>2. \A k \in Keys : RunsOf(k)' = {}
  BY DEF Gone, RunsOf, InFlight, AllIdle
<1>3. Loaded' /\ Walking' /\ Timely'
  BY <1>1 DEF Loaded, Walking, Timely
<1>4. \A k \in Keys : Spaced(k)'
  BY <1>1, <1>2 DEF Spaced, Single, InCharge, Ready, Dated
<1>5. QED
  BY <1>1, <1>3, <1>4 DEF SpacingInv

\* What a key's job starts from, when buildJobs has made it.
LEMMA BuiltFromStore ==
    ASSUME NEW list, NEW js \in BuildJobs(list), NEW k \in Keys, list[k] # Absent
    PROVE  js[k].age = stored[k] /\ js[k].attempt = 1
<1>1. js[k] \in NewJob(list[k], stored[k])
  BY DEF BuildJobs, JobsOf
<1>2. QED
  BY <1>1 DEF NewJob

\* A process starts with what the store knows.
LEMMA StartIsSpaced ==
    ASSUME TypeOK, AtRest, SpacingInv, NEW list \in TargetLists, Start(list)
    PROVE  SpacingInv'
<1>1. Busy = {} /\ due = {} /\ pc' = pc /\ run' = run /\ due' = due /\ stored' = stored /\ asked' = asked
  BY DEF Start, AtRest, runVars, histVars
<1>2. Busy' = {} /\ \A k \in Keys : RunsOf(k)' = {}
  BY <1>1 DEF Busy, RunsOf, InFlight
<1>3. ASSUME NEW k \in Keys PROVE Dated(k)'
  <2>1. SUFFICES ASSUME list[k] # Absent PROVE job'[k].age <= asked'[k]
    BY DEF Dated, Start, Listed
  <2>2. job'[k].age = stored[k]
    BY <2>1, BuiltFromStore DEF Start
  <2>3. QED
    BY <1>1, <2>2 DEF SpacingInv, Recorded
<1>4. \A k \in Keys : Spaced(k)'
  BY <1>1, <1>2, <1>3 DEF Spaced, Single, InCharge, Ready
<1>5. Loaded'
  BY DEF Start, Loaded, Listed
<1>6. QED
  BY <1>1, <1>2, <1>4, <1>5 DEF SpacingInv, Walking, Timely, Recorded

\* Time adds as much to the age of a job as to its run, and to no age more than to
\* another, though ages saturate.
LEMMA TickIsSpaced ==
    ASSUME TypeOK, SpacingInv, Tick
    PROVE  SpacingInv'
<1>1. due = {} /\ due' = {} /\ target' = target /\ pc' = pc /\ orphaned' = orphaned
  BY DEF Tick, SpacingInv, Walking
<1>2. \A m, n \in Nat : Older(m) <= m + 1 /\ (m <= n => Older(m) <= Older(n))
  <2>1. Horizon \in Nat
    BY Fields
  <2>2. \A m, n \in Nat : Older(m) <= m + 1
    BY <2>1 DEF Older, MinOf
  <2>3. \A m, n \in Nat : m <= n => Older(m) <= Older(n)
    BY <2>1 DEF Older, MinOf
  <2>4. QED
    BY <2>2, <2>3
<1>3. ASSUME NEW w \in Workers PROVE run'[w].key = run[w].key /\ (w \in Busy => run'[w].spent = run[w].spent + 1)
  BY DEF Tick, TypeOK, Run, Busy
<1>4. ASSUME NEW k \in Listed PROVE job'[k].retrying = job[k].retrying /\ job'[k].age = Older(job[k].age)
  BY DEF Tick, Listed, AgedJob
<1>5. \A k \in Keys : stored'[k] = Older(stored[k]) /\ asked'[k] = Older(asked[k]) /\ RunsOf(k)' = RunsOf(k)
  BY <1>1, <1>3 DEF Tick, RunsOf
<1>6. Busy' = Busy /\ Listed' = Listed
  BY <1>1 DEF Busy, Listed
<1>7. Timely'
  <2>1. \A w \in Busy : w \in Workers /\ run[w].spent < ScanTime /\ run[w].spent \in Nat
    BY Fields DEF Tick, Busy
  <2>2. QED
    BY <1>3, <1>6, <2>1, Fields DEF Timely
<1>8. Recorded'
  BY <1>2, <1>5, Fields DEF SpacingInv, Recorded
<1>9. ASSUME NEW k \in Keys \ orphaned PROVE Spaced(k)'
  <2>1. Spaced(k)
    BY DEF SpacingInv
  <2>2. Single(k)' /\ Ready(k)'
    BY <1>1, <1>5, <2>1 DEF Spaced, Single, Ready
  <2>3. InCharge(k)'
    <3> SUFFICES ASSUME NEW w \in RunsOf(k)
                 PROVE  k \in Listed /\ ~job'[k].retrying /\ job'[k].age <= run'[w].spent
      BY <1>5, <1>6 DEF InCharge
    <3>1. k \in Listed /\ ~job[k].retrying /\ job[k].age <= run[w].spent /\ w \in Busy /\ w \in Workers
      BY <2>1 DEF Spaced, InCharge, RunsOf, Busy, InFlight
    <3>2. job[k].age \in Nat /\ run[w].spent \in Nat
      BY <3>1, Fields
    <3>3. Older(job[k].age) <= run[w].spent + 1
      BY <1>2, <3>1, <3>2, TimesAssumption DEF Older, MinOf
    <3>4. QED
      BY <1>3, <1>4, <3>1, <3>3
  <2>4. Dated(k)'
    <3>1. job[k].age \in Nat /\ asked[k] \in Nat
      BY Fields
    <3>2. QED
      BY <1>2, <1>4, <1>5, <1>6, <2>1, <3>1 DEF Spaced, Dated
  <2>5. QED
    BY <2>2, <2>3, <2>4 DEF Spaced
<1>10. Loaded' /\ Walking'
  BY <1>1, <1>6 DEF SpacingInv, Loaded, Walking
<1>11. QED
  BY <1>1, <1>7, <1>8, <1>9, <1>10 DEF SpacingInv

\* What a reload leaves of the job of a key that is not orphaned.
LEMMA ReloadedJob ==
    ASSUME ApplyReload, NEW k \in Keys, reload[k] # Absent
    PROVE  IF k \in Listed
           THEN job'[k].age = job[k].age /\ job'[k].attempt = job[k].attempt /\ job'[k].retrying = job[k].retrying
           ELSE job'[k].age = stored[k] /\ job'[k].attempt = 1
<1>1. PICK new \in BuildJobs(reload) :
        job' = [l \in Keys |-> IF l \in Listed /\ reload[l] # Absent
                                 THEN CarryOver(new[l], job[l]) ELSE new[l]]
  BY DEF ApplyReload
<1>2. CASE k \in Listed
  BY <1>1, <1>2 DEF CarryOver
<1>3. CASE k \notin Listed
  BY <1>1, <1>3, BuiltFromStore
<1>4. QED
  BY <1>2, <1>3

\* A reload keeps the age of what runs and orphans what it drops while it runs.
LEMMA ReloadIsSpaced ==
    ASSUME TypeOK, SpacingInv, ApplyReload
    PROVE  SpacingInv'
<1>1. /\ due = {} /\ due' = {} /\ target' = reload /\ reload \in TargetLists
      /\ pc' = pc /\ run' = run /\ stored' = stored /\ asked' = asked /\ phase' = phase
      /\ orphaned' = orphaned \cup {k \in Keys : reload[k] = Absent /\ RunsOf(k) # {}}
  BY DEF ApplyReload, InSelect, runVars
<1>2. Busy' = Busy /\ \A k \in Keys : RunsOf(k)' = RunsOf(k)
  BY <1>1 DEF Busy, RunsOf
<1>3. Loaded' /\ Walking' /\ Timely' /\ Recorded'
  BY <1>1, <1>2 DEF Loaded, Listed, Walking, Timely, Recorded, SpacingInv
<1>4. ASSUME NEW k \in Keys, k \notin orphaned' PROVE Spaced(k)'
  <2>1. Spaced(k) /\ (reload[k] # Absent \/ RunsOf(k) = {})
    BY <1>1, <1>4 DEF SpacingInv
  <2>2. Single(k)' /\ Ready(k)'
    BY <1>1, <1>2, <2>1 DEF Spaced, Single, Ready
  <2>3. k \in Listed' <=> reload[k] # Absent
    BY <1>1 DEF Listed
  <2>4. InCharge(k)'
    <3> SUFFICES ASSUME NEW w \in RunsOf(k)
                 PROVE  k \in Listed' /\ ~job'[k].retrying /\ job'[k].age <= run'[w].spent
      BY <1>2 DEF InCharge
    <3>1. k \in Listed /\ ~job[k].retrying /\ job[k].age <= run[w].spent
      BY <2>1 DEF Spaced, InCharge
    <3>2. QED
      BY <1>1, <2>1, <2>3, <3>1, ReloadedJob
  <2>5. Dated(k)'
    <3> SUFFICES ASSUME reload[k] # Absent PROVE job'[k].age <= asked'[k]
      BY <2>3 DEF Dated
    <3>1. CASE k \in Listed
      BY <1>1, <2>1, <3>1, ReloadedJob DEF Spaced, Dated
    <3>2. CASE k \notin Listed
      BY <1>1, <3>2, ReloadedJob DEF SpacingInv, Recorded
    <3>3. QED
      BY <3>1, <3>2
  <2>6. QED
    BY <2>2, <2>4, <2>5 DEF Spaced
<1>5. QED
  BY <1>3, <1>4 DEF SpacingInv

\* What runs is not due: its age has not reached the minimum interval, and it has
\* no retry waiting.
LEMMA DispatchIsSpaced ==
    ASSUME ScansAreShort, TypeOK, SpacingInv, Dispatch
    PROVE  SpacingInv'
<1>1. /\ due' = {k \in Listed : DueAt(target[k], job[k])} /\ phase \in {"running", "stopping"} /\ phase' = phase
      /\ UNCHANGED <<target, job, pc, run, stored, asked, orphaned>>
  BY DEF Dispatch, InSelect, jobVars, runVars, histVars
<1>2. Loaded' /\ Walking' /\ Timely' /\ Recorded'
  BY <1>1 DEF SpacingInv, Loaded, Walking, Timely, Recorded, Listed, Busy
<1>3. ASSUME NEW k \in Keys \ orphaned PROVE Spaced(k)'
  <2>1. Spaced(k)
    BY DEF SpacingInv
  <2>2. (Single(k) /\ InCharge(k) /\ Dated(k))'
    BY <1>1, <2>1 DEF Spaced, Single, InCharge, Dated, RunsOf, Listed
  <2>3. Ready(k)'
    <3> SUFFICES ASSUME k \in Listed, DueAt(target[k], job[k]), RunsOf(k) # {} PROVE FALSE
      BY <1>1 DEF Ready, RunsOf
    <3>1. PICK w \in RunsOf(k) : TRUE
      OBVIOUS
    <3>2. w \in Workers /\ w \in Busy
      BY <3>1 DEF RunsOf, Busy, InFlight
    <3>3. ~job[k].retrying /\ job[k].age <= run[w].spent
      BY <2>1, <3>1 DEF Spaced, InCharge
    <3>4. run[w].spent <= ScanTime
      BY <3>2 DEF SpacingInv, Timely
    <3>5. ScanTime < target[k].floor /\ target[k].floor \in Nat
      BY FloorExceedsScans DEF SpacingInv
    <3>6. job[k].age >= target[k].floor
      BY <3>3 DEF DueAt
    <3>7. job[k].age \in Nat /\ run[w].spent \in Nat /\ ScanTime \in Nat
      BY <3>2, Fields
    <3>8. QED
      BY <3>3, <3>4, <3>5, <3>6, <3>7
  <2>4. QED
    BY <2>2, <2>3 DEF Spaced
<1>4. QED
  BY <1>1, <1>2, <1>3 DEF SpacingInv

\* A run starts of a key of which nothing runs.
LEMMA StartRunIsSpaced ==
    ASSUME TypeOK, SpacingInv, NEW k \in Keys, NEW w \in Workers, StartRun(k, w)
    PROVE  SpacingInv'
<1>1. /\ k \in due /\ due' = due \ {k} /\ pc[w] = "idle" /\ pc' = [pc EXCEPT ![w] = "scanning"]
      /\ run'[w].key = k /\ run'[w].spent = 0 /\ \A v \in Workers \ {w} : run'[v] = run[v]
      /\ UNCHANGED <<phase, target, stored, asked, orphaned>>
  BY DEF StartRun, IsNext, histVars, TypeOK
<1>2. PICK j \in StartedJob(target[k], job[k]) : job' = [job EXCEPT ![k] = j]
  BY DEF StartRun
<1>3. /\ job'[k].age = 0 /\ job'[k].retrying = FALSE
      /\ \A l \in Keys \ {k} : job'[l] = job[l]
  BY <1>2 DEF StartedJob, TypeOK
<1>4. Busy' = Busy \cup {w} /\ Listed' = Listed /\ k \in Listed
  BY <1>1 DEF Busy, Listed, TypeOK
<1>5. RunsOf(k)' = RunsOf(k) \cup {w} /\ \A l \in Keys \ {k} : RunsOf(l)' = RunsOf(l)
  BY <1>1 DEF RunsOf, InFlight, TypeOK
<1>6. Loaded' /\ Walking' /\ Recorded'
  BY <1>1, <1>4 DEF SpacingInv, Loaded, Walking, Recorded
<1>7. Timely'
  <2>1. run'[w].spent <= ScanTime
    BY <1>1, Fields
  <2>2. w \notin Busy
    BY <1>1 DEF Busy
  <2>3. QED
    BY <1>1, <1>4, <2>1, <2>2 DEF SpacingInv, Timely, Busy
<1>8. ASSUME NEW l \in Keys \ orphaned PROVE Spaced(l)'
  <2>1. Spaced(l)
    BY DEF SpacingInv
  <2>2. CASE l = k
    <3>1. RunsOf(k)' = {w}
      BY <1>1, <1>5, <2>1, <2>2 DEF Spaced, Ready
    <3>2. (Single(k) /\ Ready(k))'
      BY <1>1, <3>1 DEF Single, Ready
    <3>3. (InCharge(k) /\ Dated(k))'
      BY <1>1, <1>3, <1>4, <3>1, Fields DEF InCharge, Dated
    <3>4. QED
      BY <2>2, <3>2, <3>3 DEF Spaced
  <2>3. CASE l # k
    <3>1. RunsOf(l)' = RunsOf(l) /\ job'[l] = job[l] /\ \A v \in RunsOf(l) : run'[v] = run[v]
      BY <1>1, <1>3, <1>5, <2>3 DEF RunsOf, InFlight
    <3>2. QED
      BY <1>1, <1>4, <2>1, <3>1 DEF Spaced, Single, InCharge, Ready, Dated
  <2>4. QED
    BY <2>2, <2>3
<1>9. QED
  BY <1>1, <1>6, <1>7, <1>8 DEF SpacingInv

-----------------------------------------------------------------------------
(* What the goroutines keep.                                                 *)

\* A step of goroutines that starts none, and leaves those that go on what they are.
Thins == /\ \A k \in Keys : RunsOf(k)' \subseteq RunsOf(k)
         /\ \A w \in Busy' : w \in Busy /\ run'[w].spent = run[w].spent

\* What such a step may do to the job of key k: hand it a retry with its last run, and
\* hold it to no older a start than that of a run in flight.
Leaves(k) == /\ job'[k].age = job[k].age
             /\ job'[k] = job[k] \/ (RunsOf(k) # {} /\ (RunsOf(k)' = {} \/ ~job'[k].retrying))
             /\ asked'[k] = asked[k] \/ \E w \in RunsOf(k) : asked'[k] = run[w].spent

LEMMA ThinsIsSpaced ==
    ASSUME SpacingInv, Thins, UNCHANGED <<phase, due, target, orphaned>>, Recorded',
           \A k \in Keys \ orphaned : Leaves(k)
    PROVE  SpacingInv'
<1>1. Loaded' /\ Walking' /\ Listed' = Listed
  BY DEF SpacingInv, Loaded, Walking, Listed
<1>2. Timely'
  BY DEF SpacingInv, Timely, Thins
<1>3. ASSUME NEW k \in Keys \ orphaned PROVE Spaced(k)'
  <2>1. Spaced(k) /\ Leaves(k) /\ RunsOf(k)' \subseteq RunsOf(k)
    BY DEF SpacingInv, Thins
  <2>2. \A w \in RunsOf(k)' : w \in RunsOf(k) /\ run'[w].spent = run[w].spent
    BY <2>1 DEF Thins, RunsOf, Busy, InFlight
  <2>3. Single(k)'
    BY <2>1, <2>2 DEF Spaced, Single
  <2>4. InCharge(k)'
    <3> SUFFICES ASSUME NEW w \in RunsOf(k)'
                 PROVE  k \in Listed /\ ~job'[k].retrying /\ job'[k].age <= run'[w].spent
      BY <1>1 DEF InCharge
    <3>1. k \in Listed /\ ~job[k].retrying /\ job[k].age <= run[w].spent
      BY <2>1, <2>2 DEF Spaced, InCharge
    <3>2. QED
      BY <2>1, <2>2, <3>1 DEF Leaves
  <2>5. Ready(k)'
    <3> SUFFICES ASSUME k \in due PROVE RunsOf(k)' = {} /\ DueAt(target[k], job'[k])
      BY DEF Ready
    <3>1. RunsOf(k) = {} /\ DueAt(target[k], job[k])
      BY <2>1 DEF Spaced, Ready
    <3>2. QED
      BY <2>1, <3>1 DEF Leaves
  <2>6. Dated(k)'
    <3> SUFFICES ASSUME k \in Listed PROVE job'[k].age <= asked'[k]
      BY <1>1 DEF Dated
    <3>1. job[k].age <= asked[k] /\ \A w \in RunsOf(k) : job[k].age <= run[w].spent
      BY <2>1 DEF Spaced, Dated, InCharge
    <3>2. QED
      BY <2>1, <3>1 DEF Leaves
  <2>7. QED
    BY <2>3, <2>4, <2>5, <2>6 DEF Spaced
<1>4. QED
  BY <1>1, <1>2, <1>3 DEF SpacingInv

\* A goroutine that goes on from one place to another.
LEMMA GotoThins ==
    ASSUME TypeOK, NEW w \in Workers, NEW place \in Places, Goto(w, place), pc[w] # "idle",
           place \in InFlight => pc[w] \in InFlight,
           \A v \in Workers \ {w} : run'[v] = run[v],
           place # "idle" => run'[w].key = run[w].key /\ run'[w].spent = run[w].spent
    PROVE  Thins
<1>1. /\ pc'[w] = place /\ \A v \in Workers \ {w} : pc'[v] = pc[v]
  BY DEF Goto, TypeOK
<1>2. ASSUME NEW v \in Busy' PROVE v \in Busy /\ run'[v].spent = run[v].spent
  BY <1>1, <1>2 DEF Busy
<1>3. ASSUME NEW k \in Keys, NEW v \in RunsOf(k)' PROVE v \in RunsOf(k)
  <2>1. v \in Workers /\ pc'[v] \in InFlight /\ run'[v].key = k
    BY <1>3 DEF RunsOf
  <2>2. CASE v = w
    BY <1>1, <2>1, <2>2 DEF RunsOf, InFlight
  <2>3. CASE v # w
    BY <1>1, <2>1, <2>3 DEF RunsOf
  <2>4. QED
    BY <2>2, <2>3
<1>4. QED
  BY <1>2, <1>3 DEF Thins

\* The store takes a result, whose scan started when its run did or later.
LEMMA ScanReturnsIsSpaced ==
    ASSUME TypeOK, SpacingInv, NEW w \in Workers, ScanReturns(w)
    PROVE  SpacingInv'
<1>1. PICK outcome \in Outcomes \ {"none"} :
         run' = [run EXCEPT ![w].outcome = outcome] /\ Persist(w, outcome)
  BY DEF ScanReturns
<1>2. /\ UNCHANGED <<phase, due, target, orphaned, job>> /\ pc[w] = "scanning" /\ Goto(w, "returned")
  BY DEF ScanReturns, loopVars, jobVars
<1>3. /\ \A v \in Workers \ {w} : run'[v] = run[v]
      /\ run'[w].key = run[w].key /\ run'[w].spent = run[w].spent
  BY <1>1 DEF TypeOK, Run
<1>4. Thins
  BY <1>2, <1>3, GotoThins DEF InFlight, Places
<1>5. PICK k \in Keys : k = run[w].key
  BY Fields
<1>6. w \in RunsOf(k)
  BY <1>2, <1>5 DEF RunsOf, InFlight
<1>7. \A a \in StartedAt(w, outcome) : a \in Nat /\ a <= run[w].spent
  BY Fields DEF StartedAt
<1>8. /\ \A l \in Keys \ {k} : stored'[l] = stored[l] /\ asked'[l] = asked[l]
      /\ stored'[k] <= asked'[k]
      /\ asked'[k] \in {asked[k], run[w].spent}
  <2>1. stored[k] <= asked[k] /\ stored[k] \in Nat /\ asked[k] \in Nat /\ run[w].spent \in Nat
    BY Fields DEF SpacingInv, Recorded
  <2>2. CASE UNCHANGED <<stored, asked>>
    BY <2>1, <2>2
  <2>3. CASE /\ \E a \in StartedAt(w, outcome) : stored' = [stored EXCEPT ![k] = MinOf(@, a)]
             /\ asked' = [asked EXCEPT ![k] = MinOf(@, run[w].spent)]
    <3>1. PICK a \in StartedAt(w, outcome) : stored' = [stored EXCEPT ![k] = MinOf(@, a)]
      BY <2>3
    <3>2. stored'[k] = MinOf(stored[k], a) /\ asked'[k] = MinOf(asked[k], run[w].spent)
      BY <2>3, <3>1 DEF TypeOK
    <3>3. \A l \in Keys \ {k} : stored'[l] = stored[l] /\ asked'[l] = asked[l]
      BY <2>3, <3>1 DEF TypeOK
    <3>4. a \in Nat /\ a <= run[w].spent
      BY <1>7
    <3>5. QED
      BY <2>1, <3>2, <3>3, <3>4 DEF MinOf
  <2>4. QED
    BY <1>1, <1>5, <2>2, <2>3 DEF Persist
<1>9. Recorded'
  BY <1>8 DEF SpacingInv, Recorded
<1>10. \A l \in Keys : Leaves(l)
  BY <1>2, <1>6, <1>8 DEF Leaves
<1>11. QED
  BY <1>2, <1>4, <1>9, <1>10, ThinsIsSpaced

\* What a goroutine does, but for the recording of its scan.
LEMMA WorkerThins ==
    ASSUME TypeOK, SpacingInv, NEW w \in Workers, Worker(w), ~ScanReturns(w)
    PROVE  /\ Thins /\ UNCHANGED <<phase, due, target, orphaned, stored, asked>>
           /\ \A k \in Keys \ orphaned : Leaves(k)
<1>1. UNCHANGED <<phase, due, target, orphaned, stored, asked>>
  BY DEF Worker, ConsiderRetry, Requeue, RequeueFails, FinishRetries, Publish, ReleaseOrigin, ReleaseSlot,
         loopVars, jobVars, histVars
<1>2. CASE ConsiderRetry(w) \/ RequeueFails(w) \/ Publish(w) \/ ReleaseOrigin(w)
  <2>1. /\ run' = run /\ job' = job /\ pc[w] # "idle"
        /\ \E place \in Places \ {"idle"} : Goto(w, place) /\ (place \in InFlight => pc[w] \in InFlight)
    BY <1>2 DEF ConsiderRetry, RequeueFails, Publish, ReleaseOrigin, InFlight, Places, jobVars
  <2>2. Thins
    BY <2>1, GotoThins
  <2>3. QED
    BY <1>1, <2>1, <2>2 DEF Leaves
<1>3. CASE ReleaseSlot(w)
  <2>1. /\ job' = job /\ pc[w] = "yield" /\ Goto(w, "idle") /\ \A v \in Workers \ {w} : run'[v] = run[v]
    BY <1>3 DEF ReleaseSlot, jobVars, TypeOK
  <2>2. Thins
    BY <2>1, GotoThins DEF Places, InFlight
  <2>3. QED
    BY <1>1, <2>1, <2>2 DEF Leaves
<1>4. CASE Requeue(w) \/ FinishRetries(w)
  <2>1. PICK k \in Keys : k = run[w].key
    BY Fields
  <2>2. PICK place \in {"release", "publish"} :
          /\ Goto(w, place) /\ run' = run /\ pc[w] \in InFlight
          /\ place = "publish" => FinishRetries(w)
    BY <1>4 DEF Requeue, FinishRetries, InFlight
  <2>3. Thins
    BY <2>2, GotoThins DEF Places, InFlight
  <2>4. \A l \in Keys \ {k} : job'[l] = job[l]
    BY <1>4, <2>1 DEF Requeue, FinishRetries, TypeOK
  <2>5. w \in RunsOf(k)
    BY <2>1, <2>2 DEF RunsOf
  <2>6. /\ job'[k].age = job[k].age
        /\ FinishRetries(w) => job'[k] = job[k] \/ job'[k].retrying = FALSE
    <3>1. ASSUME Requeue(w) PROVE job'[k].age = job[k].age
      <4>1. PICK delay \in 1 .. MaxBackoff : job'[k] = RequeuedJob(job[k], delay)
        BY <2>1, <3>1 DEF Requeue, TypeOK
      <4>2. QED
        BY <4>1 DEF RequeuedJob
    <3>2. ASSUME FinishRetries(w) PROVE job'[k] = job[k] \/ job'[k] = ResetRetries(job[k])
      BY <2>1, <3>2 DEF FinishRetries, TypeOK
    <3>3. ResetRetries(job[k]).age = job[k].age /\ ResetRetries(job[k]).retrying = FALSE
      BY DEF ResetRetries
    <3>4. QED
      BY <1>4, <3>1, <3>2, <3>3
  <2>7. ASSUME k \notin orphaned PROVE Leaves(k)
    <3>1. RunsOf(k) = {w}
      BY <2>5, <2>7 DEF SpacingInv, Spaced, Single
    <3>2. CASE place = "publish"
      BY <1>1, <2>2, <2>5, <2>6, <3>2 DEF Leaves
    <3>3. CASE place = "release"
      <4>1. pc'[w] = "release"
        BY <2>2, <3>3 DEF Goto, TypeOK
      <4>2. RunsOf(k)' = {}
        BY <2>3, <3>1, <4>1 DEF Thins, RunsOf, InFlight
      <4>3. QED
        BY <1>1, <2>5, <2>6, <4>2 DEF Leaves
    <3>4. QED
      BY <3>2, <3>3
  <2>8. ASSUME NEW l \in Keys \ orphaned PROVE Leaves(l)
    BY <1>1, <2>4, <2>7 DEF Leaves
  <2>9. QED
    BY <1>1, <2>3, <2>8
<1>5. QED
  BY <1>2, <1>3, <1>4 DEF Worker

LEMMA WorkerIsSpaced ==
    ASSUME TypeOK, SpacingInv, NEW w \in Workers, Worker(w)
    PROVE  SpacingInv'
<1>1. CASE ScanReturns(w)
  BY <1>1, ScanReturnsIsSpaced
<1>2. CASE ~ScanReturns(w)
  <2>1. Recorded'
    BY <1>2, WorkerThins DEF SpacingInv, Recorded
  <2>2. QED
    BY <1>2, <2>1, WorkerThins, ThinsIsSpaced
<1>3. QED
  BY <1>1, <1>2

-----------------------------------------------------------------------------
(* One run at a time, and the minimum interval.                              *)

\* Every step keeps the invariant.
LEMMA SpacingStep ==
    ASSUME ScansAreShort, TypeOK, AtRest, SpacingInv, [Next]_vars
    PROVE  SpacingInv'
<1>1. CASE \/ Stop \/ RejectReload \/ NoSlot \/ Shutdown \/ GraceExpires \/ UNCHANGED vars
           \/ (\E k \in Keys : OriginBusy(k)) \/ \E list \in TargetLists \cup {BadList} : Reload(list)
  <2>1. UNCHANGED <<target, job, pc, run, stored, asked, orphaned>> /\ due' \subseteq due
    BY <1>1 DEF Stop, RejectReload, NoSlot, Shutdown, GraceExpires, OriginBusy, Reload, vars, loopVars,
                jobVars, runVars, histVars
  <2>2. phase' \notin {"running", "stopping"} => due' = {}
    BY <1>1 DEF Stop, RejectReload, NoSlot, Shutdown, GraceExpires, OriginBusy, Reload, vars, loopVars,
                SpacingInv, Walking, InSelect
  <2>3. QED
    BY <2>1, <2>2, Rests
<1>2. CASE Crash \/ Stopped
  BY <1>2, GoneIsSpaced DEF Crash, Stopped
<1>3. CASE Tick
  BY <1>3, TickIsSpaced
<1>4. ASSUME NEW list \in TargetLists, Start(list) PROVE SpacingInv'
  BY <1>4, StartIsSpaced
<1>5. CASE ApplyReload
  BY <1>5, ReloadIsSpaced
<1>6. CASE Dispatch
  BY <1>6, DispatchIsSpaced
<1>7. ASSUME NEW k \in Keys, NEW w \in Workers, StartRun(k, w) PROVE SpacingInv'
  BY <1>7, StartRunIsSpaced
<1>8. ASSUME NEW w \in Workers, Worker(w) PROVE SpacingInv'
  BY <1>8, WorkerIsSpaced
<1>9. QED
  BY <1>1, <1>2, <1>3, <1>4, <1>5, <1>6, <1>7, <1>8 DEF Next, Process, Loop

\* With short scans, the invariant holds at every moment.
LEMMA Spacing == ASSUME ScansAreShort PROVE Spec => []SpacingInv
<1>1. Init => SpacingInv
  <2> SUFFICES ASSUME Init PROVE SpacingInv
    OBVIOUS
  <2>1. Listed = {} /\ Busy = {} /\ due = {} /\ \A k \in Keys : RunsOf(k) = {}
    BY DEF Init, Listed, Busy, RunsOf, AllIdle, InFlight
  <2>2. Recorded
    BY TimesAssumption DEF Init, Recorded
  <2>3. QED
    BY <2>1, <2>2 DEF SpacingInv, Loaded, Walking, Timely, Spaced, Single, InCharge, Ready, Dated
<1>2. TypeOK /\ AtRest /\ SpacingInv /\ [Next]_vars => SpacingInv'
  BY SpacingStep
<1>3. QED
  BY <1>1, <1>2, TypeCorrect, RestIsClean, PTL DEF Spec

\* If no scan outlasts the minimum interval, two runs of one key are never in flight
\* together, whatever reloads, retries and restarts do, except for a key that was
\* dropped while it was scanned (dueAt, carryOver, considerRetry).
THEOREM OneRunAtATime == ASSUME ScansAreShort PROVE Spec => []OneRunPerKey
<1>1. SpacingInv => OneRunPerKey
  <2> SUFFICES ASSUME SpacingInv, NEW k \in Keys \ orphaned PROVE Cardinality(RunsOf(k)) <= 1
    BY DEF OneRunPerKey
  <2>1. \A v, w \in RunsOf(k) : v = w
    BY DEF SpacingInv, Spaced, Single
  <2>2. CASE RunsOf(k) = {}
    BY <2>2, FS_EmptySet
  <2>3. CASE RunsOf(k) # {}
    <3>1. PICK w : RunsOf(k) = {w}
      BY <2>1, <2>3
    <3>2. QED
      BY <3>1, FS_Singleton
  <2>4. QED
    BY <2>2, <2>3
<1>2. QED
  BY <1>1, Spacing, PTL

\* Only StartRun puts a goroutine to a scan.
LEMMA OnlyStartRunStarts ==
    ASSUME TypeOK, [Next]_vars, NEW k \in Keys, Starts(k)
    PROVE  \E w \in Workers : StartRun(k, w)
<1>1. PICK v \in Workers : pc[v] = "idle" /\ pc'[v] = "scanning" /\ run'[v].key = k
  BY DEF Starts
<1>2. ASSUME pc' = pc \/ pc' = AllIdle PROVE FALSE
  BY <1>1, <1>2 DEF AllIdle
<1>3. ASSUME NEW w \in Workers, Worker(w) PROVE FALSE
  <2>1. \E place \in Places \ {"scanning"} : Goto(w, place)
    BY <1>3 DEF Worker, ScanReturns, ConsiderRetry, Requeue, RequeueFails, FinishRetries, Publish,
                ReleaseOrigin, ReleaseSlot, Places
  <2>2. QED
    BY <1>1, <2>1 DEF Goto, TypeOK
<1>4. ~Process
  <2>1. Process => pc' = pc \/ pc' = AllIdle
    BY DEF Process, Stop, Crash, Gone, Tick, Start, Reload, runVars
  <2>2. QED
    BY <1>2, <2>1
<1>5. \E l \in Keys, w \in Workers : StartRun(l, w)
  <2>1. Loop /\ ~(\E l \in Keys, w \in Workers : StartRun(l, w)) => pc' = pc \/ pc' = AllIdle
    BY DEF Loop, ApplyReload, RejectReload, Dispatch, NoSlot, OriginBusy, Shutdown, GraceExpires, Stopped,
           Gone, runVars
  <2>2. UNCHANGED vars => pc' = pc
    BY DEF vars, runVars
  <2>3. QED
    BY <1>2, <1>3, <1>4, <2>1, <2>2 DEF Next
<1>6. PICK l \in Keys, w \in Workers : StartRun(l, w)
  BY <1>5
<1>7. pc' = [pc EXCEPT ![w] = "scanning"] /\ run'[w].key = l
  BY <1>6 DEF StartRun, TypeOK
<1>8. v = w /\ l = k
  BY <1>1, <1>7 DEF TypeOK
<1>9. QED
  BY <1>6, <1>8

\* A new observation starts no sooner than the minimum interval after the last recorded
\* one, however the targets were reloaded and the process restarted in between.
THEOREM IntervalsAreKept == ASSUME ScansAreShort PROVE Spec => MinIntervalKept
<1> DEFINE Kept == \A k \in Keys : Starts(k) /\ ~job[k].retrying =>
                      asked[k] >= target[k].floor \/ k \in orphaned
<1>1. TypeOK /\ SpacingInv /\ [Next]_vars => [Kept]_vars
  <2> SUFFICES ASSUME TypeOK, SpacingInv, [Next]_vars, NEW k \in Keys, Starts(k),
                      ~job[k].retrying, k \notin orphaned
               PROVE  asked[k] >= target[k].floor
    OBVIOUS
  <2>1. PICK w \in Workers : StartRun(k, w)
    BY OnlyStartRunStarts
  <2>2. k \in due /\ k \in Listed
    BY <2>1 DEF StartRun, IsNext, TypeOK
  <2>3. DueAt(target[k], job[k]) /\ job[k].age <= asked[k]
    BY <2>2 DEF SpacingInv, Spaced, Ready, Dated
  <2>4. job[k].age >= target[k].floor
    BY <2>3 DEF DueAt
  <2>5. target[k].floor \in Nat
    BY <2>2 DEF TypeOK, Listed, Settings
  <2>6. QED
    BY <2>3, <2>4, <2>5, Fields
<1>2. QED
  BY <1>1, TypeCorrect, Spacing, PTL DEF Spec, MinIntervalKept

-----------------------------------------------------------------------------
(* The attempts of one observation.                                          *)

\* A policy's attempts are a machine's integer, so no list asks for more than some number.
PoliciesAreBounded ==
    \E n \in Nat : \A list \in TargetLists, k \in Keys : list[k] # Absent => list[k].attempts <= n

\* Of numbers that are bounded, one is the greatest.
LEMMA Greatest ==
    ASSUME NEW S, S \subseteq Nat, S # {}, NEW n \in Nat, \A m \in S : m <= n
    PROVE  \E m \in S : \A l \in S : l <= m
<1> DEFINE R == OpToRel(<, Nat)
           T == {b \in Nat : \A m \in S : m <= b}
<1>1. \A x, y \in Nat : <<y, x>> \in R <=> y < x
  BY DEF OpToRel
<1>2. T \subseteq Nat /\ T # {}
  OBVIOUS
<1>3. PICK b \in T : \A c \in T : ~ (<<c, b>> \in R)
  <2>1. IsWellFoundedOn(R, Nat)
    BY NatLessThanWellFounded
  <2> HIDE DEF R, T
  <2>2. QED
    BY <1>2, <2>1, WFMin
<1>4. b \in Nat /\ (\A m \in S : m <= b) /\ \A c \in Nat : (\A m \in S : m <= c) => ~(c < b)
  BY <1>1, <1>3
<1> HIDE DEF R, T
<1>5. b \in S
  <2> SUFFICES ASSUME b \notin S PROVE FALSE
    OBVIOUS
  <2>1. \A m \in S : m < b /\ m \in Nat
    BY <1>4
  <2>2. b # 0
    <3>1. PICK m \in S : TRUE
      OBVIOUS
    <3>2. m \in Nat /\ m < b
      BY <2>1
    <3>3. QED
      BY <3>2
  <2>3. b - 1 \in Nat /\ \A m \in S : m <= b - 1
    BY <1>4, <2>1, <2>2
  <2>4. QED
    BY <1>4, <2>3
<1>6. QED
  BY <1>4, <1>5

\* MaxAttempts is what some policy of the key allows, and none allows more.
LEMMA MaxAttemptsBounds ==
    ASSUME PoliciesAreBounded, NEW list \in TargetLists, NEW k \in Keys, list[k] # Absent
    PROVE  MaxAttempts(k) \in Nat \ {0} /\ list[k].attempts <= MaxAttempts(k)
<1> DEFINE S == {l[k].attempts : l \in {m \in TargetLists : m[k] # Absent}}
<1>1. \A l \in TargetLists : l[k] # Absent => l[k].attempts \in Nat \ {0}
  BY ListsAssumption DEF Settings
<1>2. S \subseteq Nat \ {0} /\ list[k].attempts \in S
  BY <1>1
<1>3. PICK n \in Nat : \A m \in S : m <= n
  BY DEF PoliciesAreBounded
<1>4. PICK m \in S : \A l \in S : l <= m
  <2> HIDE DEF S
  <2>1. QED
    BY <1>2, <1>3, Greatest
<1>5. \A l \in TargetLists : l[k] # Absent => l[k].attempts <= m
  BY <1>4
<1>6. MaxAttempts(k) \in S /\ \A l \in TargetLists : l[k] # Absent => l[k].attempts <= MaxAttempts(k)
  BY <1>4, <1>5 DEF MaxAttempts
<1>7. QED
  BY <1>2, <1>6

\* A run that is decided to be retried has an attempt left; while it goes on the job
\* counts as many attempts as it is, and starts over once it is finished.
Counts(k, w) == /\ run[w].attempt <= MaxAttempts(k)
                /\ pc[w] \in {"scanning", "returned", "requeue", "finish"} => job[k].attempt = run[w].attempt
                /\ pc[w] = "requeue" => run[w].attempt < MaxAttempts(k)
                /\ pc[w] = "publish" => job[k].attempt = 1
Counted(k) ==
    /\ \A w \in Busy : run[w].key = k => Counts(k, w)
    /\ k \in Listed => /\ job[k].attempt <= MaxAttempts(k)
                       /\ job[k].attempt > 1 => job[k].retrying \/ RunsOf(k) # {}
AttemptsInv == \A k \in Keys \ orphaned : Counted(k)

\* MaxAttempts of a listed key.
LEMMA ListedBounds ==
    ASSUME PoliciesAreBounded, TypeOK, Loaded, NEW k \in Listed
    PROVE  /\ MaxAttempts(k) \in Nat \ {0} /\ target[k].attempts <= MaxAttempts(k)
           /\ target[k].attempts \in Nat \ {0}
<1>1. k \in Keys /\ target[k] # Absent /\ target[k] \in Settings
  BY DEF Listed, TypeOK
<1>2. PICK list \in TargetLists : list[k] = target[k]
  BY DEF Loaded
<1>3. MaxAttempts(k) \in Nat \ {0} /\ list[k].attempts <= MaxAttempts(k)
  BY <1>1, <1>2, MaxAttemptsBounds
<1>4. QED
  BY <1>1, <1>2, <1>3 DEF Settings

\* What is counted stays so where jobs, runs and targets keep the fields it speaks of.
LEMMA CountedRests ==
    ASSUME NEW k \in Keys, Counted(k), target'[k] = target[k], pc' = pc,
           \A w \in Workers : run'[w].key = run[w].key /\ run'[w].attempt = run[w].attempt,
           job'[k].attempt = job[k].attempt, job'[k].retrying = job[k].retrying
    PROVE  Counted(k)'
<1>1. Busy' = Busy /\ RunsOf(k)' = RunsOf(k) /\ (k \in Listed' <=> k \in Listed)
  BY DEF Busy, RunsOf, Listed
<1>2. \A w \in Busy : w \in Workers
  BY DEF Busy
<1>3. QED
  BY <1>1, <1>2 DEF Counted, Counts

\* A reload brings no attempts with it, and takes none away.
LEMMA ReloadCounts ==
    ASSUME PoliciesAreBounded, TypeOK, SpacingInv, AttemptsInv, ApplyReload
    PROVE  AttemptsInv'
<1>1. /\ target' = reload /\ reload \in TargetLists /\ pc' = pc /\ run' = run
      /\ orphaned' = orphaned \cup {k \in Keys : reload[k] = Absent /\ RunsOf(k) # {}}
  BY DEF ApplyReload, runVars
<1>2. SUFFICES ASSUME NEW k \in Keys, k \notin orphaned' PROVE Counted(k)'
  BY DEF AttemptsInv
<1>3. k \notin orphaned /\ Counted(k) /\ Spaced(k) /\ (reload[k] # Absent \/ RunsOf(k) = {})
  BY <1>1, <1>2 DEF AttemptsInv, SpacingInv
<1>4. Busy' = Busy /\ RunsOf(k)' = RunsOf(k) /\ (k \in Listed' <=> reload[k] # Absent)
  BY <1>1 DEF Busy, RunsOf, Listed
<1>5. ASSUME NEW w \in Busy, run[w].key = k PROVE Counts(k, w)'
  <2>1. Counts(k, w)
    BY <1>3, <1>5 DEF Counted
  <2>2. CASE w \in RunsOf(k)
    <3>1. k \in Listed /\ reload[k] # Absent
      BY <1>3, <2>2 DEF Spaced, InCharge
    <3>2. QED
      BY <1>1, <2>1, <3>1, ReloadedJob DEF Counts
  <2>3. CASE w \notin RunsOf(k)
    <3>1. pc[w] \notin InFlight
      BY <1>5, <2>3 DEF RunsOf, Busy
    <3>2. QED
      BY <1>1, <2>1, <3>1 DEF Counts, InFlight
  <2>4. QED
    BY <2>2, <2>3
<1>6. ASSUME reload[k] # Absent
      PROVE  job'[k].attempt <= MaxAttempts(k) /\ (job'[k].attempt > 1 => job'[k].retrying \/ RunsOf(k) # {})
  <2>1. CASE k \in Listed
    BY <1>3, <1>6, <2>1, ReloadedJob DEF Counted
  <2>2. CASE k \notin Listed
    BY <1>1, <1>6, <2>2, ReloadedJob, MaxAttemptsBounds
  <2>3. QED
    BY <2>1, <2>2
<1>7. QED
  BY <1>1, <1>4, <1>5, <1>6 DEF Counted

\* A process starts with first attempts only.
LEMMA StartCounts ==
    ASSUME PoliciesAreBounded, TypeOK, AtRest, NEW list \in TargetLists, Start(list)
    PROVE  AttemptsInv'
<1>1. Busy' = {} /\ target' = list
  BY DEF Start, AtRest, Busy, runVars
<1>2. ASSUME NEW k \in Keys, list[k] # Absent PROVE job'[k].attempt = 1 /\ 1 <= MaxAttempts(k)
  BY <1>2, BuiltFromStore, MaxAttemptsBounds DEF Start
<1>3. ASSUME NEW k \in Keys PROVE Counted(k)'
  BY <1>1, <1>2 DEF Counted, Listed
<1>4. QED
  BY <1>3 DEF AttemptsInv

\* A run is the attempt its job has come to.
LEMMA StartRunCountsAttempts ==
    ASSUME TypeOK, SpacingInv, AttemptsInv, NEW k \in Keys, NEW w \in Workers, StartRun(k, w)
    PROVE  AttemptsInv'
<1>1. /\ k \in due /\ k \in Listed /\ pc[w] = "idle" /\ pc' = [pc EXCEPT ![w] = "scanning"]
      /\ run'[w].key = k /\ run'[w].attempt = job[k].attempt /\ \A v \in Workers \ {w} : run'[v] = run[v]
      /\ UNCHANGED <<target, orphaned>>
  BY DEF StartRun, IsNext, histVars, TypeOK
<1>2. job'[k].attempt = job[k].attempt /\ \A l \in Keys \ {k} : job'[l] = job[l]
  <2>1. PICK j \in StartedJob(target[k], job[k]) : job' = [job EXCEPT ![k] = j]
    BY DEF StartRun
  <2>2. QED
    BY <2>1 DEF StartedJob, TypeOK
<1>3. Busy' = Busy \cup {w} /\ w \notin Busy /\ Listed' = Listed /\ pc'[w] = "scanning"
      /\ \A v \in Busy : pc'[v] = pc[v] /\ run'[v] = run[v]
  BY <1>1 DEF Busy, Listed, TypeOK
<1>4. SUFFICES ASSUME NEW l \in Keys \ orphaned PROVE Counted(l)'
  BY <1>1 DEF AttemptsInv
<1>5. Counted(l) /\ Spaced(l)
  BY DEF AttemptsInv, SpacingInv
<1>6. CASE l # k
  <2>1. RunsOf(l)' = RunsOf(l)
    BY <1>1, <1>6 DEF RunsOf, InFlight, TypeOK
  <2>2. QED
    BY <1>1, <1>2, <1>3, <1>5, <1>6, <2>1 DEF Counted, Counts
<1>7. CASE l = k
  <2>1. job[k].attempt <= MaxAttempts(k) /\ RunsOf(k) = {}
    BY <1>1, <1>5, <1>7 DEF Counted, Spaced, Ready
  <2>2. Counts(k, w)'
    BY <1>1, <1>2, <1>3, <2>1 DEF Counts
  <2>3. ASSUME NEW v \in Busy, run[v].key = k PROVE Counts(k, v)'
    BY <1>2, <1>3, <1>5, <1>7, <2>3 DEF Counted, Counts
  <2>4. w \in RunsOf(k)'
    BY <1>1, <1>3 DEF RunsOf, InFlight
  <2>5. QED
    BY <1>2, <1>3, <1>7, <2>1, <2>2, <2>3, <2>4 DEF Counted
<1>8. QED
  BY <1>6, <1>7

\* A goroutine that goes on, and what it may do to the job of its key: the runs of
\* other keys, and their jobs, do not notice.
LEMMA GoesOnCounts ==
    ASSUME TypeOK, SpacingInv, AttemptsInv, NEW w \in Workers, NEW place \in Places, Goto(w, place),
           pc[w] # "idle", place \in InFlight => pc[w] \in InFlight, orphaned' = orphaned, target' = target,
           \A v \in Workers \ {w} : run'[v] = run[v],
           place # "idle" => run'[w].key = run[w].key /\ run'[w].attempt = run[w].attempt,
           \A k \in Keys \ {run[w].key} : job'[k] = job[k],
           \A k \in Keys : k = run[w].key /\ k \notin orphaned =>
              /\ pc[w] \notin InFlight => job'[k] = job[k]
              /\ place # "idle" => Counts(k, w)'
              /\ k \in Listed => /\ job'[k].attempt <= MaxAttempts(k)
                                 /\ job'[k].attempt > 1 => job'[k].retrying \/ place \in InFlight
                                                           \/ pc[w] \notin InFlight
    PROVE  AttemptsInv'
<1>1. pc'[w] = place /\ \A v \in Workers \ {w} : pc'[v] = pc[v]
  BY DEF Goto, TypeOK
<1>2. Listed' = Listed
  BY DEF Listed
<1>3. SUFFICES ASSUME NEW k \in Keys \ orphaned PROVE Counted(k)'
  BY DEF AttemptsInv
<1>4. Counted(k) /\ Spaced(k)
  BY DEF AttemptsInv, SpacingInv
<1>5. \A v \in Busy' : v \in Busy /\ v \in Workers
  BY <1>1 DEF Busy
<1>6. CASE k # run[w].key
  <2>1. RunsOf(k)' = RunsOf(k)
    <3>1. ASSUME NEW v \in Workers PROVE v \in RunsOf(k)' <=> v \in RunsOf(k)
      <4>1. CASE v = w
        <5>1. CASE place = "idle"
          BY <1>1, <1>6, <4>1, <5>1 DEF RunsOf, InFlight
        <5>2. CASE place # "idle"
          BY <1>6, <4>1, <5>2 DEF RunsOf
        <5>3. QED
          BY <5>1, <5>2
      <4>2. CASE v # w
        BY <1>1, <4>2 DEF RunsOf
      <4>3. QED
        BY <4>1, <4>2
    <3>2. QED
      BY <3>1 DEF RunsOf
  <2>2. job'[k] = job[k]
    BY <1>6
  <2>3. ASSUME NEW v \in Busy', run'[v].key = k PROVE Counts(k, v)'
    <3>1. v # w
      BY <1>1, <1>6, <2>3 DEF Busy
    <3>2. Counts(k, v) /\ pc'[v] = pc[v] /\ run'[v] = run[v]
      BY <1>1, <1>4, <1>5, <2>3, <3>1 DEF Counted
    <3>3. QED
      BY <2>2, <3>2 DEF Counts
  <2>4. QED
    BY <1>2, <1>4, <2>1, <2>2, <2>3 DEF Counted
<1>7. CASE k = run[w].key
  <2>1. ASSUME NEW v \in Busy', run'[v].key = k PROVE Counts(k, v)'
    <3>1. CASE v = w
      BY <1>1, <1>7, <2>1, <3>1 DEF Busy
    <3>2. CASE v # w
      <4>1. Counts(k, v) /\ pc'[v] = pc[v] /\ run'[v] = run[v] /\ v \in Busy
        BY <1>1, <1>4, <1>5, <2>1, <3>2 DEF Counted
      <4>2. CASE pc[w] \notin InFlight
        BY <1>7, <4>1, <4>2 DEF Counts
      <4>3. CASE pc[w] \in InFlight
        <5>1. w \in RunsOf(k)
          BY <1>7, <4>3 DEF RunsOf
        <5>2. v \notin RunsOf(k)
          BY <1>4, <3>2, <5>1 DEF Spaced, Single
        <5>3. pc[v] \notin InFlight
          BY <1>5, <2>1, <4>1, <5>2 DEF RunsOf
        <5>4. QED
          BY <4>1, <5>3 DEF Counts, InFlight
      <4>4. QED
        BY <4>2, <4>3
    <3>3. QED
      BY <3>1, <3>2
  <2>2. ASSUME k \in Listed
        PROVE  job'[k].attempt <= MaxAttempts(k) /\ (job'[k].attempt > 1 => job'[k].retrying \/ RunsOf(k)' # {})
    <3>1. /\ job'[k].attempt <= MaxAttempts(k)
          /\ job'[k].attempt > 1 => job'[k].retrying \/ place \in InFlight \/ pc[w] \notin InFlight
      BY <1>7, <2>2
    <3>2. CASE place \in InFlight
      <4>1. w \in RunsOf(k)'
        BY <1>1, <1>7, <3>2 DEF RunsOf, InFlight
      <4>2. QED
        BY <3>1, <4>1
    <3>3. CASE pc[w] \notin InFlight
      <4>1. job'[k] = job[k] /\ RunsOf(k) \subseteq RunsOf(k)'
        BY <1>1, <1>7, <3>3 DEF RunsOf
      <4>2. QED
        BY <1>4, <2>2, <4>1 DEF Counted
    <3>4. QED
      BY <3>1, <3>2, <3>3
  <2>3. QED
    BY <1>2, <2>1, <2>2 DEF Counted
<1>8. QED
  BY <1>6, <1>7

\* What is known of a run in flight of a key that is not orphaned.
LEMMA RunningCounts ==
    ASSUME TypeOK, SpacingInv, AttemptsInv, NEW w \in Workers, pc[w] \in InFlight,
           NEW k \in Keys \ orphaned, k = run[w].key
    PROVE  Counts(k, w) /\ k \in Listed /\ target[k] # Absent /\ ~job[k].retrying /\ Counted(k)
<1>1. w \in RunsOf(k) /\ w \in Busy /\ Spaced(k) /\ Counted(k)
  BY DEF RunsOf, Busy, InFlight, SpacingInv, AttemptsInv
<1>2. QED
  BY <1>1 DEF Counted, Spaced, InCharge, Listed

\* A goroutine counts an attempt only when the policy has one left, and starts the
\* next observation at one.
LEMMA WorkerCountsAttempts ==
    ASSUME PoliciesAreBounded, TypeOK, SpacingInv, AttemptsInv, NEW w \in Workers, Worker(w)
    PROVE  AttemptsInv'
<1>0. PICK k \in Keys : k = run[w].key
  BY Fields
<1>1. CASE ScanReturns(w)
  <2>1. PICK outcome \in Outcomes : run' = [run EXCEPT ![w].outcome = outcome]
    BY <1>1 DEF ScanReturns
  <2>2. /\ run'[w].key = run[w].key /\ run'[w].attempt = run[w].attempt
        /\ \A v \in Workers \ {w} : run'[v] = run[v]
    BY <2>1 DEF TypeOK, Run
  <2>3. /\ pc[w] = "scanning" /\ Goto(w, "returned") /\ job' = job /\ target' = target /\ orphaned' = orphaned
        /\ pc'[w] = "returned"
    BY <1>1 DEF ScanReturns, jobVars, Goto, TypeOK
  <2>4. k \notin orphaned => Counts(k, w)' /\ Counted(k)
    BY <1>0, <2>2, <2>3, RunningCounts DEF Counts, InFlight
  <2>5. QED
    BY <1>0, <2>2, <2>3, <2>4, GoesOnCounts DEF InFlight, Places, Counted
<1>2. CASE ConsiderRetry(w)
  <2>1. PICK place \in {"publish", "requeue", "finish"} :
          /\ Goto(w, place)
          /\ target[k] # Absent => place # "publish"
          /\ place = "requeue" => run[w].attempt < target[k].attempts
    BY <1>0, <1>2 DEF ConsiderRetry
  <2>2. /\ pc[w] = "returned" /\ UNCHANGED <<run, job, target, orphaned>> /\ pc'[w] = place
    BY <1>2, <2>1 DEF ConsiderRetry, jobVars, histVars, Goto, TypeOK
  <2>3. ASSUME k \notin orphaned PROVE Counts(k, w)' /\ Counted(k)
    <3>1. Counts(k, w) /\ k \in Listed /\ target[k] # Absent /\ Counted(k)
      BY <1>0, <2>2, <2>3, RunningCounts DEF InFlight
    <3>2. /\ MaxAttempts(k) \in Nat /\ target[k].attempts <= MaxAttempts(k) /\ target[k].attempts \in Nat
          /\ run[w].attempt \in Nat
      BY <3>1, ListedBounds, Fields DEF SpacingInv
    <3>3. place = "requeue" => run[w].attempt < MaxAttempts(k)
      BY <2>1, <3>2
    <3>4. QED
      BY <2>1, <2>2, <3>1, <3>3 DEF Counts
  <2>4. QED
    BY <1>0, <2>1, <2>2, <2>3, GoesOnCounts DEF InFlight, Places, Counted
<1>3. CASE Requeue(w)
  <2>1. PICK delay \in 1 .. MaxBackoff : job' = [job EXCEPT ![k] = RequeuedJob(@, delay)]
    BY <1>0, <1>3 DEF Requeue
  <2>2. /\ pc[w] = "requeue" /\ Goto(w, "release") /\ UNCHANGED <<run, target, orphaned>> /\ pc'[w] = "release"
    BY <1>3 DEF Requeue, Goto, TypeOK
  <2>3. job'[k] = RequeuedJob(job[k], delay) /\ \A l \in Keys \ {k} : job'[l] = job[l]
    BY <2>1 DEF TypeOK
  <2>4. job'[k].attempt = job[k].attempt + 1 /\ job'[k].retrying
    BY <2>3 DEF RequeuedJob
  <2>5. ASSUME k \notin orphaned PROVE Counts(k, w)' /\ job'[k].attempt <= MaxAttempts(k)
    <3>1. Counts(k, w) /\ k \in Listed
      BY <1>0, <2>2, <2>5, RunningCounts DEF InFlight
    <3>2. run[w].attempt < MaxAttempts(k) /\ job[k].attempt = run[w].attempt
      BY <2>2, <3>1 DEF Counts
    <3>3. MaxAttempts(k) \in Nat /\ run[w].attempt \in Nat
      BY <3>1, ListedBounds, Fields DEF SpacingInv
    <3>4. QED
      BY <2>2, <2>4, <3>1, <3>2, <3>3 DEF Counts
  <2>6. QED
    BY <1>0, <2>2, <2>3, <2>4, <2>5, GoesOnCounts DEF InFlight, Places
<1>4. CASE FinishRetries(w)
  <2>1. /\ pc[w] = "finish" /\ Goto(w, "publish") /\ UNCHANGED <<run, target, orphaned>> /\ pc'[w] = "publish"
    BY <1>4 DEF FinishRetries, histVars, Goto, TypeOK
  <2>2. /\ target[k] # Absent => job'[k] = ResetRetries(job[k])
        /\ \A l \in Keys \ {k} : job'[l] = job[l]
    BY <1>0, <1>4 DEF FinishRetries, TypeOK
  <2>3. ASSUME k \notin orphaned
        PROVE  Counts(k, w)' /\ job'[k].attempt <= MaxAttempts(k)
    <3>1. Counts(k, w) /\ k \in Listed /\ target[k] # Absent
      BY <1>0, <2>1, <2>3, RunningCounts DEF InFlight
    <3>2. job'[k].attempt = 1
      BY <2>2, <3>1 DEF ResetRetries
    <3>3. MaxAttempts(k) \in Nat \ {0}
      BY <3>1, ListedBounds DEF SpacingInv
    <3>4. QED
      BY <2>1, <3>1, <3>2, <3>3 DEF Counts
  <2>4. QED
    BY <1>0, <2>1, <2>2, <2>3, GoesOnCounts DEF InFlight, Places
<1>5. CASE RequeueFails(w)
  <2>1. /\ pc[w] = "requeue" /\ Goto(w, "publish") /\ UNCHANGED <<run, job, target, orphaned>>
        /\ target[k] = Absent
    BY <1>0, <1>5 DEF RequeueFails, jobVars, histVars
  <2>2. k \in orphaned
    BY <1>0, <2>1, RunningCounts DEF InFlight
  <2>3. QED
    BY <1>0, <2>1, <2>2, GoesOnCounts DEF InFlight, Places
<1>6. CASE Publish(w)
  <2>1. /\ pc[w] = "publish" /\ Goto(w, "release") /\ UNCHANGED <<run, job, target, orphaned>> /\ pc'[w] = "release"
    BY <1>6 DEF Publish, jobVars, Goto, TypeOK
  <2>2. k \notin orphaned => Counts(k, w)' /\ job[k].attempt = 1 /\ Counted(k)
    BY <1>0, <2>1, RunningCounts DEF Counts, InFlight
  <2>3. QED
    BY <1>0, <2>1, <2>2, GoesOnCounts DEF InFlight, Places, Counted
<1>7. CASE ReleaseOrigin(w) \/ ReleaseSlot(w)
  <2>1. PICK place \in {"yield", "idle"} :
          /\ Goto(w, place) /\ pc'[w] = place
          /\ place # "idle" => run'[w] = run[w]
    BY <1>7 DEF ReleaseOrigin, ReleaseSlot, Goto, TypeOK
  <2>2. /\ pc[w] \in {"release", "yield"} /\ UNCHANGED <<job, target, orphaned>>
        /\ \A v \in Workers \ {w} : run'[v] = run[v]
    BY <1>7 DEF ReleaseOrigin, ReleaseSlot, jobVars, histVars, TypeOK
  <2>3. w \in Busy /\ pc[w] \notin InFlight
    BY <2>2 DEF Busy, InFlight
  <2>4. ASSUME k \notin orphaned PROVE Counted(k) /\ (place # "idle" => Counts(k, w)')
    BY <1>0, <2>1, <2>2, <2>3, <2>4 DEF AttemptsInv, Counted, Counts
  <2>5. QED
    BY <1>0, <2>1, <2>2, <2>3, <2>4, GoesOnCounts DEF InFlight, Places, Counted
<1>8. QED
  BY <1>1, <1>2, <1>3, <1>4, <1>5, <1>6, <1>7 DEF Worker

\* The attempts of one observation never exceed what a policy of its key allows, whatever
\* reloads change between attempts, and none is left over for the next observation
\* (considerRetry, scheduleRetry, finishRetries, carryOver).
THEOREM AttemptsStayCounted ==
    ASSUME ScansAreShort, PoliciesAreBounded
    PROVE  Spec => []AttemptsAreCounted
<1>1. Init => AttemptsInv
  BY DEF Init, AttemptsInv, Counted, Listed, Busy, AllIdle
<1>2. TypeOK /\ AtRest /\ SpacingInv /\ AttemptsInv /\ [Next]_vars => AttemptsInv'
  <2> SUFFICES ASSUME TypeOK, AtRest, SpacingInv, AttemptsInv, [Next]_vars PROVE AttemptsInv'
    OBVIOUS
  <2>1. CASE Crash \/ Stopped
    <3>1. Gone
      BY <2>1 DEF Crash, Stopped
    <3>2. Busy' = {} /\ Listed' = {}
      BY <3>1 DEF Gone, Busy, Listed, AllIdle
    <3>3. QED
      BY <3>2 DEF AttemptsInv, Counted
  <2>2. CASE UNCHANGED <<target, job, pc, run, orphaned>>
    BY <2>2, CountedRests DEF AttemptsInv
  <2>3. CASE Tick
    <3>1. \A w \in Workers : run'[w].key = run[w].key /\ run'[w].attempt = run[w].attempt
      BY <2>3 DEF Tick, TypeOK, Run
    <3>2. \A k \in Keys : job'[k].attempt = job[k].attempt /\ job'[k].retrying = job[k].retrying
      BY <2>3 DEF Tick, AgedJob
    <3>3. pc' = pc /\ target' = target /\ orphaned' = orphaned
      BY <2>3 DEF Tick
    <3>4. QED
      BY <3>1, <3>2, <3>3, CountedRests DEF AttemptsInv
  <2>4. ASSUME NEW list \in TargetLists, Start(list) PROVE AttemptsInv'
    BY <2>4, StartCounts
  <2>5. CASE ApplyReload
    BY <2>5, ReloadCounts
  <2>6. ASSUME NEW k \in Keys, NEW w \in Workers, StartRun(k, w) PROVE AttemptsInv'
    BY <2>6, StartRunCountsAttempts
  <2>7. ASSUME NEW w \in Workers, Worker(w) PROVE AttemptsInv'
    BY <2>7, WorkerCountsAttempts
  <2>8. Stop \/ RejectReload \/ Dispatch \/ NoSlot \/ Shutdown \/ GraceExpires \/ UNCHANGED vars
           \/ (\E k \in Keys : OriginBusy(k)) \/ (\E list \in TargetLists \cup {BadList} : Reload(list))
        => UNCHANGED <<target, job, pc, run, orphaned>>
    BY DEF Stop, RejectReload, Dispatch, NoSlot, Shutdown, GraceExpires, OriginBusy, Reload, vars,
           jobVars, runVars, histVars
  <2>9. QED
    BY <2>1, <2>2, <2>3, <2>4, <2>5, <2>6, <2>7, <2>8 DEF Next, Process, Loop
<1>3. TypeOK /\ AttemptsInv => AttemptsAreCounted
  <2> SUFFICES ASSUME TypeOK, AttemptsInv PROVE AttemptsAreCounted
    OBVIOUS
  <2>1. (\A k \in Listed : k \in Keys) /\ \A w \in Busy : run[w].key \in Keys
    BY Fields DEF Listed, Busy
  <2>2. QED
    BY <2>1 DEF AttemptsInv, Counted, Counts, AttemptsAreCounted
<1>4. QED
  BY <1>1, <1>2, <1>3, TypeCorrect, RestIsClean, Spacing, PTL DEF Spec
================================================================================
