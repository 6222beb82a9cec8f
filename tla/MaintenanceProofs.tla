---------------------------- MODULE MaintenanceProofs ----------------------------
(* What Maintenance keeps for every interval, delay and jitter, and any number *)
(* of restarts, crashes, reloads and lost receipts: the types, and the spacing *)
(* of sweeps and vacuums.                                                      *)
EXTENDS Maintenance, TLAPS, FiniteSetTheorems, WellFoundedInduction

-----------------------------------------------------------------------------
(* The horizon.                                                              *)

\* A finite set of numbers that is not empty has a greatest member.
LEMMA FiniteHasGreatest ==
    ASSUME NEW S, S \subseteq Nat, S # {}, IsFiniteSet(S)
    PROVE  \E m \in S : \A l \in S : l <= m
<1> DEFINE Topped(X) == \E m \in X : \A l \in X : l <= m
           R == OpToRel(<, Nat)
           Sizes == {n \in Nat : \E X \in SUBSET S : X # {} /\ ~Topped(X) /\ Cardinality(X) = n}
<1>1. SUFFICES ASSUME ~Topped(S) PROVE FALSE
  OBVIOUS
<1>2. \A x, y \in Nat : <<y, x>> \in R <=> y < x
  BY DEF OpToRel
<1>3. \A X \in SUBSET S : IsFiniteSet(X) /\ Cardinality(X) \in Nat
  BY FS_Subset, FS_CardinalityType
<1>4. Sizes \subseteq Nat /\ Cardinality(S) \in Sizes
  BY <1>1, <1>3
<1>5. PICK n \in Sizes : \A m \in Sizes : ~ (<<m, n>> \in R)
  <2>1. IsWellFoundedOn(R, Nat)
    BY NatLessThanWellFounded
  <2> HIDE DEF R, Sizes
  <2>2. QED
    BY <1>4, <2>1, WFMin
<1>6. n \in Nat /\ \A m \in Sizes : ~(m < n)
  BY <1>2, <1>4, <1>5
<1> HIDE DEF R
<1>7. PICK X \in SUBSET S : X # {} /\ ~Topped(X) /\ Cardinality(X) = n
  BY <1>5
<1>8. PICK a \in X : TRUE
  BY <1>7
<1>9. Cardinality(X \ {a}) = n - 1 /\ n - 1 \in Nat /\ X \ {a} \in SUBSET S
  <2>1. Cardinality(X \ {a}) = Cardinality(X) - 1
    BY <1>3, <1>8, FS_RemoveElement
  <2>2. Cardinality(X \ {a}) \in Nat
    BY <1>3
  <2>3. QED
    BY <1>7, <2>1, <2>2
<1>10. CASE X \ {a} = {}
  <2>1. X = {a} /\ a \in Nat
    BY <1>8, <1>10
  <2>2. Topped(X)
    BY <2>1
  <2>3. QED
    BY <1>7, <2>2
<1>11. CASE X \ {a} # {}
  <2>1. Topped(X \ {a})
    <3>1. n - 1 \notin Sizes
      BY <1>6, <1>9
    <3>2. QED
      BY <1>9, <1>11, <3>1
  <2>2. PICK m \in X \ {a} : \A l \in X \ {a} : l <= m
    BY <2>1
  <2>3. a \in Nat /\ m \in Nat /\ X \subseteq Nat
    BY <1>7, <1>8
  <2>4. \A l \in X : l <= IF a <= m THEN m ELSE a
    BY <2>2, <2>3
  <2>5. Topped(X)
    BY <1>8, <2>2, <2>4
  <2>6. QED
    BY <1>7, <2>5
<1>12. QED
  BY <1>10, <1>11

\* The horizon is beyond every span a comparison uses.
LEMMA HorizonBounds ==
    /\ Horizon \in Nat /\ PruneInterval <= Horizon /\ Delay + Jitter <= Horizon /\ MinUptime <= Horizon
    /\ \A i \in Intervals : i <= Horizon
<1>1. Times \subseteq Nat /\ Times # {}
  BY IntervalsAssumption, StartupAssumption DEF Times
<1>2. IsFiniteSet(Times)
  <2>1. IsFiniteSet({PruneInterval, Delay + Jitter, MinUptime})
    <3>1. IsFiniteSet({PruneInterval})
      BY FS_Singleton
    <3>2. IsFiniteSet({PruneInterval} \cup {Delay + Jitter})
      BY <3>1, FS_AddElement
    <3>3. IsFiniteSet(({PruneInterval} \cup {Delay + Jitter}) \cup {MinUptime})
      BY <3>2, FS_AddElement
    <3>4. ({PruneInterval} \cup {Delay + Jitter}) \cup {MinUptime} = {PruneInterval, Delay + Jitter, MinUptime}
      OBVIOUS
    <3>5. QED
      BY <3>3, <3>4
  <2>2. QED
    BY <2>1, IntervalsAssumption, FS_Union DEF Times
<1>3. \E h \in Times : \A t \in Times : t <= h
  BY <1>1, <1>2, FiniteHasGreatest
<1>4. Horizon \in Times /\ \A t \in Times : t <= Horizon
  BY <1>3 DEF Horizon
<1>5. QED
  BY <1>1, <1>4 DEF Times

-----------------------------------------------------------------------------
(* The schedule's helpers.                                                   *)

\* What is left until a job is due, and what has passed since a receipt.
Dues == 0..Horizon \cup {Off}
Ages == 0..Horizon \cup {None}

LEMMA Numbers ==
    /\ Horizon \in Nat /\ Off \in Dues /\ None \in Ages
    /\ \A d \in Dues : d # Off => d \in Nat /\ d <= Horizon
    /\ \A a \in Ages : a # None => a \in Nat /\ a <= Horizon
    /\ \A n \in Nat : n # Off /\ n # None /\ (n <= Horizon => n \in Dues /\ n \in Ages)
<1>1. Horizon \in Nat
  BY HorizonBounds
<1>2. QED
  BY <1>1, MarksAssumption DEF Dues, Ages

\* What is due is Off when it is not scheduled, or a number of ticks.
LEMMA DueType ==
    ASSUME NEW s \in Schedules, NEW last \in Ages, NEW jitter \in 0..Jitter
    PROVE  /\ DueFrom(s, last, jitter) \in Dues
           /\ DueFrom(s, last, jitter) = Off <=> s = Off
           /\ s # Off => /\ DueFrom(s, last, jitter) >= Delay
                         /\ last # None => DueFrom(s, last, jitter) + last >= s
<1>1. CASE s = Off
  BY <1>1, Numbers DEF DueFrom
<1>2. CASE s # Off
  <2>1. s \in Nat /\ s <= Horizon /\ Horizon \in Nat
    BY <1>2, HorizonBounds, IntervalsAssumption DEF Schedules
  <2>2. Delay \in Nat /\ jitter \in Nat /\ Delay + jitter <= Horizon
    BY <2>1, HorizonBounds, StartupAssumption
  <2>3. CASE last = None
    <3>1. DueFrom(s, last, jitter) = Later(Delay + jitter, 0)
      BY <1>2, <2>3 DEF DueFrom
    <3>2. QED
      BY <1>2, <2>1, <2>2, <2>3, <3>1, Numbers DEF Later
  <2>4. CASE last # None
    <3>1. last \in Nat
      BY <2>4, Numbers
    <3>2. DueFrom(s, last, jitter) = Later(Delay + jitter, Left(s, last))
      BY <1>2, <2>4 DEF DueFrom
    <3>3. Left(s, last) \in Nat /\ Left(s, last) <= s /\ Left(s, last) + last >= s
      BY <2>1, <3>1 DEF Left
    <3>4. QED
      BY <1>2, <2>1, <2>2, <3>1, <3>2, <3>3, Numbers DEF Later
  <2>5. QED
    BY <2>3, <2>4
<1>3. QED
  BY <1>1, <1>2

\* The records of the process and of the loop.
ProcessType == [up : BOOLEAN, stopping : BOOLEAN, uptime : 0..MinUptime]
LoopType == [at : {"gone", "wait"} \cup Jobs, running : BOOLEAN]

Typed == /\ process \in ProcessType /\ loop \in LoopType
         /\ due \in [Jobs -> Dues] /\ since \in [Kinds -> Ages]
         /\ sched \in [Kinds -> Schedules] /\ wanted \in [Kinds -> Schedules]
         /\ offered \in [Kinds -> Schedules \cup {None}]
         /\ counted \in [Kinds -> Ages]
         /\ loop.at = "gone" <=> ~process.up
         /\ \A k \in Kinds : due[k] = Off <=> (~process.up \/ sched[k] = Off)

LEMMA Records ==
    /\ Down \in ProcessType /\ ~Down.up /\ Gone \in LoopType /\ Gone.at = "gone" /\ ~Gone.running
    /\ \A p \in ProcessType : /\ p.uptime \in Nat /\ p.uptime <= MinUptime
                              /\ [p EXCEPT !.stopping = TRUE] \in ProcessType
                              /\ [p EXCEPT !.stopping = TRUE].up = p.up
                              /\ [p EXCEPT !.stopping = TRUE].uptime = p.uptime
    /\ \A r \in LoopType : /\ [r EXCEPT !.running = TRUE] \in LoopType
                           /\ [r EXCEPT !.running = TRUE].at = r.at
<1> DEFINE Uptimes == 0..MinUptime
<1>1. 0 \in Uptimes /\ \A u \in Uptimes : u \in Nat /\ u <= MinUptime
  BY StartupAssumption
<1>2. ProcessType = [up : BOOLEAN, stopping : BOOLEAN, uptime : Uptimes]
  BY DEF ProcessType
<1> HIDE DEF Uptimes
<1>3. Down \in ProcessType /\ ~Down.up
  BY <1>1, <1>2 DEF Down
<1>4. Gone \in LoopType /\ Gone.at = "gone" /\ ~Gone.running
  BY DEF Gone, LoopType
<1>5. ASSUME NEW p \in ProcessType
      PROVE  /\ p.uptime \in Nat /\ p.uptime <= MinUptime
             /\ [p EXCEPT !.stopping = TRUE] \in ProcessType
             /\ [p EXCEPT !.stopping = TRUE].up = p.up
             /\ [p EXCEPT !.stopping = TRUE].uptime = p.uptime
  BY <1>1, <1>2
<1>6. ASSUME NEW r \in LoopType
      PROVE  /\ [r EXCEPT !.running = TRUE] \in LoopType
             /\ [r EXCEPT !.running = TRUE].at = r.at
  BY DEF LoopType
<1>7. QED
  BY <1>3, <1>4, <1>5, <1>6

-----------------------------------------------------------------------------
(* The inductive invariant.                                                  *)

\* What is left until a sweep or a vacuum is due makes up for what the process has not
\* been up, and for what has not passed since the pass the loop counts from.
Spaces(k) == due[k] # Off =>
    /\ due[k] + process.uptime >= Delay
    /\ counted[k] = None \/ due[k] + counted[k] >= sched[k]
\* A sweep and a vacuum began after the startup delay.
Warm(k) == Runs(k) => process.uptime >= Delay
IInv == Typed /\ \A k \in Kinds : Spaces(k) /\ Warm(k)

LEMMA Kind == Kinds \subseteq Jobs /\ "prune" \in Jobs /\ "prune" \notin Kinds
BY DEF Kinds, Jobs

\* A step that only moves the loop or the process, as long as it ends no process.
LEMMA Moves ==
    ASSUME IInv, UNCHANGED <<due, sched, counted>>, since' \in [Kinds -> Ages], process' \in ProcessType, loop' \in LoopType,
           process'.up = process.up, process'.uptime = process.uptime,
           (loop.at # "gone" /\ loop'.at # "gone") \/ loop' = loop,
           wanted' \in [Kinds -> Schedules], offered' \in [Kinds -> Schedules \cup {None}],
           \A k \in Kinds : Runs(k)' => Runs(k) \/ due[k] = 0
    PROVE  IInv'
<1>1. Typed'
  BY DEF IInv, Typed
<1>2. \A k \in Kinds : Spaces(k)'
  BY DEF IInv, Spaces
<1>3. ASSUME NEW k \in Kinds, Runs(k)' PROVE process'.uptime >= Delay
  <2>1. CASE Runs(k)
    BY <2>1 DEF IInv, Warm
  <2>2. CASE due[k] = 0
    <3>1. process.uptime \in Nat /\ Delay \in Nat
      BY Records, StartupAssumption DEF IInv, Typed
    <3>2. 0 # Off
      BY MarksAssumption
    <3>3. QED
      BY <2>2, <3>1, <3>2 DEF IInv, Spaces
  <2>3. QED
    BY <1>3, <2>1, <2>2
<1>4. QED
  BY <1>1, <1>2, <1>3 DEF IInv, Warm

\* What LastRuns reads is an age, or none.
LEMMA LastType ==
    ASSUME IInv, NEW k \in Kinds, NEW last \in LastRuns(k)
    PROVE  last \in Ages /\ (last = since[k] \/ last = None)
BY Numbers DEF IInv, LastRuns, Typed

\* A schedule that is set leaves what it was computed for.
LEMMA SetsSpaces ==
    ASSUME IInv, NEW k \in Kinds, NEW s \in Schedules, NEW last \in LastRuns(k), NEW jitter \in 0..Jitter,
           due'[k] = DueFrom(s, last, jitter), sched'[k] = s, counted'[k] = CountsFrom(s, last),
           process'.uptime \in Nat
    PROVE  Spaces(k)'
<1>1. last \in Ages
  BY LastType
<1>2. SUFFICES ASSUME s # Off
               PROVE  /\ due'[k] + process'.uptime >= Delay
                      /\ counted'[k] = None \/ due'[k] + counted'[k] >= sched'[k]
  BY <1>1, DueType DEF Spaces
<1>3. /\ due'[k] \in Nat /\ due'[k] >= Delay /\ Delay \in Nat
  <2>1. due'[k] \in Dues /\ due'[k] # Off /\ due'[k] >= Delay
    BY <1>1, <1>2, DueType
  <2>2. QED
    BY <2>1, Numbers, StartupAssumption
<1>4. last # None => due'[k] + last >= s
  BY <1>1, <1>2, DueType
<1>5. counted'[k] = last
  BY <1>2 DEF CountsFrom
<1>6. QED
  BY <1>3, <1>4, <1>5

\* A process starts with schedules and receipts of its own.
LEMMA StartKeeps == ASSUME IInv, Start PROVE IInv'
<1>1. PICK last \in [Kinds -> UNION {LastRuns(k) : k \in Kinds}], jitter \in [Kinds -> 0..Jitter],
           prune \in {PruneInterval, Off} :
        /\ \A k \in Kinds : last[k] \in LastRuns(k)
        /\ due' = [j \in Jobs |-> IF j = "prune" THEN prune ELSE DueFrom(wanted[j], last[j], jitter[j])]
        /\ counted' = [k \in Kinds |-> CountsFrom(wanted[k], last[k])]
  BY DEF Start
<1>2. /\ process' = [up |-> TRUE, stopping |-> FALSE, uptime |-> 0] /\ loop' = [at |-> "wait", running |-> FALSE]
      /\ sched' = wanted /\ wanted' = wanted /\ since' = since /\ offered' = [k \in Kinds |-> None]
  BY DEF Start
<1>3. /\ process' \in ProcessType /\ process'.up /\ process'.uptime = 0 /\ loop' \in LoopType /\ loop'.at = "wait"
      /\ \A k \in Kinds : ~Runs(k)'
  BY <1>2, StartupAssumption DEF ProcessType, LoopType, Runs
<1>4. ASSUME NEW k \in Kinds
      PROVE  /\ due'[k] = DueFrom(wanted[k], last[k], jitter[k]) /\ wanted[k] \in Schedules
             /\ last[k] \in LastRuns(k) /\ jitter[k] \in 0..Jitter
  BY <1>1, Kind DEF IInv, Typed
<1>5. \A k \in Kinds : due'[k] \in Dues /\ (due'[k] = Off <=> wanted[k] = Off)
  BY <1>4, LastType, DueType
<1>6. due'["prune"] \in Dues
  <2>1. PruneInterval \in Dues
    BY IntervalsAssumption, HorizonBounds, Numbers
  <2>2. due'["prune"] = prune
    BY <1>1, Kind
  <2>3. QED
    BY <2>1, <2>2, Numbers
<1>7. due' \in [Jobs -> Dues]
  BY <1>1, <1>5, <1>6 DEF Jobs
<1>8. counted' \in [Kinds -> Ages]
  <2>1. \A k \in Kinds : CountsFrom(wanted[k], last[k]) \in Ages
    BY <1>4, LastType, Numbers DEF CountsFrom
  <2>2. QED
    BY <1>1, <2>1
<1>9. Typed'
  BY <1>1, <1>2, <1>3, <1>5, <1>7, <1>8 DEF IInv, Typed
<1>10. ASSUME NEW k \in Kinds PROVE Spaces(k)'
  <2>1. sched'[k] = wanted[k] /\ counted'[k] = CountsFrom(wanted[k], last[k]) /\ process'.uptime \in Nat
    BY <1>1, <1>2, <1>3
  <2>2. QED
    BY <1>4, <2>1, SetsSpaces
<1>11. QED
  BY <1>3, <1>9, <1>10 DEF IInv, Warm

\* An ended process leaves receipts.
LEMMA EndKeeps == ASSUME IInv, EndProcess PROVE IInv'
<1>1. /\ process' = Down /\ loop' = Gone /\ due' = [j \in Jobs |-> Off] /\ offered' = [k \in Kinds |-> None]
      /\ counted' = [k \in Kinds |-> None] /\ UNCHANGED <<sched, wanted, since>>
  BY DEF EndProcess
<1>2. due' \in [Jobs -> Dues] /\ counted' \in [Kinds -> Ages] /\ \A k \in Kinds : due'[k] = Off
  BY <1>1, Kind, Numbers
<1>3. Typed'
  BY <1>1, <1>2, Records DEF IInv, Typed
<1>4. QED
  BY <1>1, <1>2, <1>3, Records DEF IInv, Spaces, Warm, Runs, Gone

\* A schedule is taken and computed anew only when it differs.
LEMMA TakeKeeps == ASSUME IInv, NEW k \in Kinds, TakeSchedule(k) PROVE IInv'
<1>0. Typed /\ \A l \in Kinds : Spaces(l) /\ Warm(l)
  BY DEF IInv
<1>1. PICK s \in Schedules : s = offered[k] /\ Reschedule(k, s)
  BY <1>0 DEF TakeSchedule, Typed
<1>2. /\ UNCHANGED <<process, loop, wanted, since>> /\ sched' = [sched EXCEPT ![k] = s]
      /\ offered' = [offered EXCEPT ![k] = None] /\ loop.at = "wait" /\ process.up
  BY <1>0, <1>1 DEF TakeSchedule, Reschedule, Idle, Typed
<1>3. /\ sched' \in [Kinds -> Schedules] /\ sched'[k] = s /\ \A l \in Kinds \ {k} : sched'[l] = sched[l]
      /\ offered' \in [Kinds -> Schedules \cup {None}]
  BY <1>0, <1>2 DEF Typed
<1>4. process.uptime \in Nat
  BY <1>0, Records, StartupAssumption DEF Typed
<1>5. CASE s = sched[k]
  <2>1. due' = due /\ counted' = counted /\ sched' = sched
    BY <1>0, <1>1, <1>2, <1>5 DEF Reschedule, Typed
  <2>2. Typed'
    BY <1>0, <1>2, <1>3, <2>1 DEF Typed
  <2>3. QED
    BY <1>0, <1>2, <2>1, <2>2 DEF IInv, Spaces, Warm, Runs
<1>6. CASE s # sched[k]
  <2>1. PICK last \in LastRuns(k), jitter \in 0..Jitter :
          due' = [due EXCEPT ![k] = DueFrom(s, last, jitter)] /\ counted' = [counted EXCEPT ![k] = CountsFrom(s, last)]
    BY <1>1, <1>6 DEF Reschedule
  <2>2. /\ due'[k] = DueFrom(s, last, jitter) /\ counted'[k] = CountsFrom(s, last)
        /\ \A l \in Kinds \ {k} : due'[l] = due[l] /\ counted'[l] = counted[l]
        /\ counted' \in [Kinds -> Ages]
    <3>1. CountsFrom(s, last) \in Ages
      BY LastType, Numbers DEF CountsFrom
    <3>2. QED
      BY <1>0, <2>1, <3>1, Kind DEF Typed
  <2>3. due'[k] \in Dues /\ (due'[k] = Off <=> s = Off)
    BY <2>2, LastType, DueType
  <2>4. due' \in [Jobs -> Dues]
    BY <1>0, <2>1, <2>2, <2>3 DEF Typed
  <2>5. \A l \in Kinds : due'[l] = Off <=> (~process.up \/ sched'[l] = Off)
    BY <1>0, <1>2, <1>3, <2>2, <2>3 DEF Typed
  <2>6. Typed'
    BY <1>0, <1>2, <1>3, <2>2, <2>4, <2>5 DEF Typed
  <2>7. Spaces(k)'
    BY <1>2, <1>3, <1>4, <2>2, SetsSpaces
  <2>8. \A l \in Kinds \ {k} : Spaces(l)'
    BY <1>0, <1>2, <1>3, <2>2 DEF Spaces
  <2>9. QED
    BY <1>0, <1>2, <2>6, <2>7, <2>8 DEF IInv, Warm, Runs
<1>7. QED
  BY <1>5, <1>6

\* The next pass is due an interval after this one, whose receipt is the newest.
LEMMA FinishKeeps == ASSUME IInv, NEW j \in Jobs, Finish(j) PROVE IInv'
<1>0. Typed /\ \A k \in Kinds : Spaces(k) /\ Warm(k)
  BY DEF IInv
<1>1. /\ UNCHANGED <<process, sched, offered, wanted>> /\ due' = [due EXCEPT ![j] = Rest(j)]
      /\ loop = [at |-> j, running |-> TRUE] /\ loop' = [at |-> Next1(j), running |-> FALSE]
  BY DEF Finish, Receipt, Runs
<1>2. /\ due'[j] = Rest(j) /\ \A k \in Kinds \ {j} : due'[k] = due[k]
  BY <1>0, <1>1, Kind DEF Typed
<1>3. since' \in [Kinds -> Ages]
  <2>1. CASE since' = since
    BY <1>0, <2>1 DEF Typed
  <2>2. CASE since' = [k \in Kinds |-> IF k = j THEN 0 ELSE since[k]]
    <3>1. 0 \in Ages
      BY Numbers
    <3>2. \A k \in Kinds : since'[k] = (IF k = j THEN 0 ELSE since[k]) /\ since[k] \in Ages
      BY <1>0, <2>2 DEF Typed
    <3>3. QED
      BY <2>2, <3>1, <3>2
  <2>3. QED
    BY <2>1, <2>2 DEF Finish, Receipt
<1>4. /\ counted' \in [Kinds -> Ages]
       /\ \A k \in Kinds : counted'[k] = IF k = j THEN 0 ELSE counted[k]
  <2>1. 0 \in Ages
    BY Numbers
  <2>2. counted' = [k \in Kinds |-> IF k = j THEN 0 ELSE counted[k]]
    BY DEF Finish, Receipt
  <2>3. QED
    BY <1>0, <2>1, <2>2 DEF Typed
<1>5. Rest(j) \in Dues /\ (j \in Kinds => Rest(j) = sched[j])
  <2>1. CASE j = "prune"
    BY <2>1, IntervalsAssumption, HorizonBounds, Numbers, Kind DEF Rest
  <2>2. CASE j # "prune"
    <3>1. j \in Kinds /\ Rest(j) = sched[j]
      BY <2>2 DEF Jobs, Rest
    <3>2. sched[j] \in Intervals \cup {Off}
      BY <1>0, <3>1 DEF Schedules, Typed
    <3>3. Off \in Dues /\ \A i \in Intervals : i \in Dues
      BY HorizonBounds, IntervalsAssumption, Numbers
    <3>4. QED
      BY <3>1, <3>2, <3>3
  <2>3. QED
    BY <2>1, <2>2
<1>6. due' \in [Jobs -> Dues]
  BY <1>0, <1>1, <1>5 DEF Typed
<1>7. loop' \in LoopType /\ loop'.at # "gone" /\ loop.at # "gone" /\ ~loop'.running
  BY <1>1 DEF LoopType, Next1, Jobs, Kinds
<1>8. \A k \in Kinds : due'[k] = Off <=> (~process.up \/ sched[k] = Off)
  BY <1>0, <1>2, <1>5, <1>7 DEF Typed
<1>9. Typed'
  BY <1>0, <1>1, <1>3, <1>6, <1>7, <1>8, <1>4 DEF Typed
<1>10. ASSUME NEW k \in Kinds, k # j PROVE Spaces(k)'
  BY <1>0, <1>1, <1>2, <1>10, <1>4 DEF Spaces
<1>11. ASSUME j \in Kinds PROVE Spaces(j)'
  <2>1. SUFFICES ASSUME sched[j] # Off
                 PROVE  /\ due'[j] + process'.uptime >= Delay
                        /\ counted'[j] = None \/ due'[j] + counted'[j] >= sched'[j]
    BY <1>2, <1>5, <1>11 DEF Spaces
  <2>2. due'[j] = sched[j] /\ process.uptime \in Nat /\ Delay \in Nat
    BY <1>0, <1>2, <1>5, <1>11, Records, StartupAssumption DEF Typed
  <2>3. sched[j] \in Nat
    BY <1>0, <1>11, <2>1, IntervalsAssumption DEF Schedules, Typed
  <2>4. process.uptime >= Delay
    BY <1>0, <1>1, <1>11 DEF Warm, Runs
  <2>5. counted'[j] = 0
    BY <1>11, <1>4
  <2>6. QED
    BY <1>1, <2>2, <2>3, <2>4, <2>5
<1>12. QED
  BY <1>7, <1>9, <1>10, <1>11 DEF IInv, Warm, Runs

\* An age grows by one, up to the horizon.
LEMMA AgedType ==
    ASSUME NEW a \in Ages, a # None
    PROVE  /\ a \in Nat /\ Aged(a) \in Ages /\ Aged(a) # None
           /\ Aged(a) = IF a < Horizon THEN a + 1 ELSE a
<1>1. a \in Nat /\ a <= Horizon /\ Horizon \in Nat
  BY Numbers
<1>2. Aged(a) = IF a < Horizon THEN a + 1 ELSE a
  BY DEF Aged
<1>3. Aged(a) \in Nat /\ Aged(a) <= Horizon
  BY <1>1, <1>2
<1>4. Aged(a) # None /\ None \notin Nat
  BY <1>3, MarksAssumption
<1>5. QED
  BY <1>1, <1>2, <1>3, <1>4, Numbers

\* Time brings every pass nearer by as much as it adds to the receipts and the uptime.
LEMMA TickKeeps == ASSUME IInv, Tick PROVE IInv'
<1>0. Typed /\ \A k \in Kinds : Spaces(k) /\ Warm(k)
  BY DEF IInv
<1>1. /\ due' = [j \in Jobs |-> IF due[j] \in {Off, 0} THEN due[j] ELSE due[j] - 1]
      /\ since' = [k \in Kinds |-> IF since[k] = None THEN None ELSE Aged(since[k])]
      /\ process' = [process EXCEPT !.uptime = IF @ < MinUptime /\ process.up THEN @ + 1 ELSE @]
      /\ counted' = [k \in Kinds |-> IF counted[k] = None THEN None ELSE Aged(counted[k])]
      /\ UNCHANGED <<loop, sched, offered, wanted>>
  BY DEF Tick
<1>2. MinUptime \in Nat /\ Delay \in Nat /\ Delay < MinUptime /\ Horizon \in Nat
  BY StartupAssumption, HorizonBounds
<1>3. /\ process' \in ProcessType /\ process'.up = process.up /\ process.uptime \in 0..MinUptime
      /\ process'.uptime = IF process.uptime < MinUptime /\ process.up THEN process.uptime + 1 ELSE process.uptime
  <2>1. process \in ProcessType
    BY <1>0 DEF Typed
  <2>2. QED
    BY <1>1, <1>2, <2>1 DEF ProcessType
<1>4. ASSUME NEW j \in Jobs
      PROVE  /\ due'[j] \in Dues /\ (due'[j] = Off <=> due[j] = Off)
             /\ due[j] # Off => due[j] \in Nat /\ due'[j] = IF due[j] = 0 THEN 0 ELSE due[j] - 1
  <2>1. due[j] \in Dues
    BY <1>0 DEF Typed
  <2>2. CASE due[j] = Off
    BY <1>1, <2>2, Numbers
  <2>3. CASE due[j] # Off
    <3>1. due'[j] = IF due[j] = 0 THEN 0 ELSE due[j] - 1
      BY <1>1, <2>3
    <3>2. due[j] \in Nat /\ due[j] <= Horizon
      BY <2>1, <2>3, Numbers
    <3>3. due'[j] \in Nat /\ due'[j] <= Horizon
      BY <1>2, <3>1, <3>2
    <3>4. QED
      BY <2>3, <3>1, <3>2, <3>3, Numbers
  <2>4. QED
    BY <2>2, <2>3
<1>5. ASSUME NEW k \in Kinds
      PROVE  /\ since'[k] \in Ages /\ counted'[k] \in Ages
             /\ counted'[k] = None <=> counted[k] = None
             /\ counted[k] # None =>
                   counted[k] \in Nat /\ counted'[k] = IF counted[k] < Horizon THEN counted[k] + 1 ELSE counted[k]
  <2>1. since[k] \in Ages /\ counted[k] \in Ages
    BY <1>0 DEF Typed
  <2>2. since'[k] = (IF since[k] = None THEN None ELSE Aged(since[k])) /\ counted'[k] = (IF counted[k] = None THEN None ELSE Aged(counted[k]))
    BY <1>1
  <2>3. QED
    BY <2>1, <2>2, AgedType
<1>6. Typed'
  <2>1. due' \in [Jobs -> Dues]
    BY <1>1, <1>4
  <2>2. since' \in [Kinds -> Ages] /\ counted' \in [Kinds -> Ages]
    BY <1>1, <1>5
  <2>3. \A k \in Kinds : due'[k] = Off <=> (~process.up \/ sched[k] = Off)
    BY <1>0, <1>4, Kind DEF Typed
  <2>4. QED
    BY <1>0, <1>1, <1>3, <2>1, <2>2, <2>3 DEF Typed
<1>7. ASSUME NEW k \in Kinds PROVE Spaces(k)'
  <2>1. SUFFICES ASSUME due[k] # Off
                 PROVE  /\ due'[k] + process'.uptime >= Delay
                        /\ counted'[k] = None \/ due'[k] + counted'[k] >= sched'[k]
    BY <1>4, Kind DEF Spaces
  <2>2. /\ due[k] + process.uptime >= Delay
        /\ counted[k] = None \/ due[k] + counted[k] >= sched[k]
    BY <1>0, <2>1 DEF Spaces
  <2>3. process.up /\ sched[k] \in Nat /\ sched[k] <= Horizon
    BY <1>0, <2>1, IntervalsAssumption, HorizonBounds DEF Schedules, Typed
  <2>4. due[k] \in Nat /\ due'[k] = IF due[k] = 0 THEN 0 ELSE due[k] - 1
    BY <1>4, <2>1, Kind
  <2>5. due'[k] + process'.uptime >= Delay
    BY <1>2, <1>3, <2>2, <2>3, <2>4
  <2>6. CASE counted[k] = None
    BY <1>5, <2>5, <2>6
  <2>7. CASE counted[k] # None
    <3>1. counted[k] \in Nat /\ counted'[k] = IF counted[k] < Horizon THEN counted[k] + 1 ELSE counted[k]
      BY <1>5, <2>7
    <3>2. due'[k] + counted'[k] >= sched'[k]
      BY <1>1, <1>2, <2>2, <2>3, <2>4, <2>7, <3>1
    <3>3. QED
      BY <2>5, <3>2
  <2>8. QED
    BY <2>6, <2>7
<1>8. \A k \in Kinds : Warm(k)'
  <2>1. process'.uptime >= process.uptime /\ process'.uptime \in Nat /\ process.uptime \in Nat
    BY <1>2, <1>3
  <2>2. QED
    BY <1>0, <1>1, <1>2, <2>1 DEF Warm, Runs
<1>9. QED
  BY <1>6, <1>7, <1>8 DEF IInv

-----------------------------------------------------------------------------
\* Every step keeps the invariant.
LEMMA Steps == ASSUME IInv, [Next]_vars PROVE IInv'
<1>0. /\ process \in ProcessType /\ loop \in LoopType /\ wanted \in [Kinds -> Schedules] /\ since \in [Kinds -> Ages]
      /\ offered \in [Kinds -> Schedules \cup {None}] /\ (loop.at = "gone" <=> ~process.up)
  BY DEF IInv, Typed
<1>1. CASE Terminate
  <2>1. process' = [process EXCEPT !.stopping = TRUE] /\ UNCHANGED <<loop, due, sched, offered, wanted, since, counted>>
    BY <1>1 DEF Terminate
  <2>2. QED
    BY <1>0, <2>1, Records, Moves DEF Runs
<1>2. CASE Fire
  <2>1. /\ loop.at = "wait" /\ loop' = [at |-> "prune", running |-> FALSE]
        /\ UNCHANGED <<process, due, sched, offered, wanted, since, counted>>
    BY <1>2 DEF Fire, Idle
  <2>2. loop' \in LoopType /\ \A k \in Kinds : ~Runs(k)'
    BY <2>1 DEF LoopType, Runs, Jobs
  <2>3. loop.at # "gone" /\ loop'.at # "gone"
    BY <2>1
  <2>4. QED
    BY <1>0, <2>1, <2>2, <2>3, Moves
<1>3. ASSUME NEW j \in Jobs, Begin(j) PROVE IInv'
  <2>1. /\ loop = [at |-> j, running |-> FALSE] /\ due[j] = 0 /\ loop' = [loop EXCEPT !.running = TRUE]
        /\ UNCHANGED <<process, due, sched, offered, wanted, since, counted>>
    BY <1>3 DEF Begin
  <2>2. loop' \in LoopType /\ loop'.at = j /\ loop.at = j /\ j # "gone"
    BY <1>0, <2>1, Records DEF Jobs, Kinds
  <2>3. \A k \in Kinds : Runs(k)' => due[k] = 0
    BY <2>1, <2>2 DEF Runs
  <2>4. QED
    BY <1>0, <2>1, <2>2, <2>3, Moves
<1>4. ASSUME NEW j \in Jobs, Skip(j) PROVE IInv'
  <2>1. /\ loop = [at |-> j, running |-> FALSE] /\ loop' = [at |-> Next1(j), running |-> FALSE]
        /\ UNCHANGED <<process, due, sched, offered, wanted, since, counted>>
    BY <1>4 DEF Skip
  <2>2. loop' \in LoopType /\ loop'.at # "gone" /\ loop.at # "gone" /\ \A k \in Kinds : ~Runs(k)'
    BY <2>1 DEF LoopType, Next1, Jobs, Kinds, Runs
  <2>3. QED
    BY <1>0, <2>1, <2>2, Moves
<1>5. ASSUME NEW new \in [Kinds -> Schedules], Reload(new) PROVE IInv'
  <2>1. /\ wanted' = new /\ offered' = [k \in Kinds |-> new[k]]
        /\ UNCHANGED <<process, loop, due, sched, since, counted>>
    BY <1>5 DEF Reload, Offer
  <2>2. offered' \in [Kinds -> Schedules \cup {None}]
    BY <2>1
  <2>3. QED
    BY <1>0, <2>1, <2>2, Moves DEF Runs
<1>6. ASSUME NEW k \in Kinds, CommandRuns(k) PROVE IInv'
  <2>1. /\ since' = [since EXCEPT ![k] = 0]
        /\ UNCHANGED <<process, loop, due, sched, offered, wanted, counted>>
    BY <1>6 DEF CommandRuns
  <2>2. since' \in [Kinds -> Ages]
    BY <1>0, <2>1, Numbers
  <2>3. QED
    BY <1>0, <2>1, <2>2, Moves DEF Runs
<1>7. CASE UNCHANGED vars
  BY <1>0, <1>7, Moves DEF vars, Runs
<1>8. QED
  BY <1>1, <1>2, <1>3, <1>4, <1>5, <1>6, <1>7, CommandsAssumption, StartKeeps, EndKeeps, TakeKeeps, FinishKeeps, TickKeeps
     DEF Next, LoopStep, Stop, Crash

LEMMA Starts == Init => IInv
<1> SUFFICES ASSUME Init PROVE IInv
  OBVIOUS
<1>1. due \in [Jobs -> Dues] /\ \A k \in Kinds : due[k] = Off
  BY Kind, Numbers DEF Init
<1>2. Typed
  BY <1>1, Records, Numbers DEF Init, Schedules, Typed
<1>3. QED
  BY <1>1, <1>2, Records DEF Init, IInv, Spaces, Warm, Runs, Gone

LEMMA Invariance == Spec => []IInv
<1>1. IInv /\ [Next]_vars => IInv'
  BY Steps
<1>2. QED
  BY <1>1, Starts, PTL DEF Spec

\* Every variable keeps its type, and a job is scheduled exactly while the process is up
\* and its schedule says so.
THEOREM TypeCorrect == Spec => []TypeOK
<1>1. IInv => TypeOK
  BY DEF IInv, Typed, ProcessType, LoopType, Dues, Ages, TypeOK
<1>2. QED
  BY <1>1, Invariance, PTL

\* However often the process starts, reloads or overruns, a sweep or vacuum never begins
\* within the startup delay, nor within an interval of the pass the loop counts from, its
\* own last one included, nor of the last receipt in the store but for one it overlooks
\* (sweepDue, reschedule, runDue).
THEOREM PassesAreSpaced == Spec => RunsAreSpaced
<1> DEFINE Spaced == \A k \in Kinds : Begin(k) =>
                        /\ process.uptime >= Delay
                        /\ counted[k] = None \/ counted[k] >= sched[k]
                        /\ since[k] = None \/ since[k] >= sched[k] \/ Overlooked(k)
<1>1. IInv => [Spaced]_vars
  <2> SUFFICES ASSUME IInv, NEW k \in Kinds, Begin(k)
               PROVE  /\ process.uptime >= Delay
                      /\ counted[k] = None \/ counted[k] >= sched[k]
                      /\ since[k] = None \/ since[k] >= sched[k] \/ Overlooked(k)
    OBVIOUS
  <2>1. due[k] = 0 /\ 0 # Off /\ Spaces(k) /\ Typed
    BY MarksAssumption DEF Begin, IInv
  <2>2. process.uptime \in Nat /\ (since[k] = None \/ since[k] \in Nat) /\ (counted[k] = None \/ counted[k] \in Nat)
    BY <2>1, Records, Numbers, StartupAssumption DEF Typed
  <2>3. sched[k] \in Nat
    BY <2>1, IntervalsAssumption DEF Schedules, Typed
  <2>4. process.uptime >= Delay /\ (counted[k] = None \/ counted[k] >= sched[k])
    BY <2>1, <2>2, <2>3, StartupAssumption DEF Spaces
  <2>5. QED
    BY <2>2, <2>3, <2>4 DEF Overlooked
<1>2. QED
  BY <1>1, Invariance, PTL DEF Spec, RunsAreSpaced
=================================================================================
