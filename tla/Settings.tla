-------------------------------- MODULE Settings --------------------------------
(* What an operator writes about a target's schedule, its retries and its     *)
(* bodies, on the target itself, under defaults and under scheduler: what     *)
(* Config.Validate refuses, and what an accepted file resolves to             *)
(* (config/validate.go, bodies.go, resolve.go, retry/retry.go).  The file is  *)
(* written one setting at a time.  Ratios are in tenths.                      *)
EXTENDS Integers, FiniteSets

CONSTANTS Intervals, Counts, Backoffs, Caps, Windows, Ratios,   \* what may be written
          DefaultInterval, DefaultAttempts, DefaultBackoff, DefaultCap, DefaultWindow,
          Hashes,         \* what a key may hash to with the number of each attempt
          Word,           \* a duration is an integer of Word values
          MaxWritten      \* settings a file has

SettingsAssumption ==
  /\ Intervals \cup Counts \cup Backoffs \cup Caps \cup Windows \cup Ratios \subseteq Nat
  /\ {DefaultInterval, DefaultAttempts, DefaultBackoff, DefaultCap, DefaultWindow, Word} \subseteq Nat \ {0}
  /\ \A h \in Hashes, n \in Counts : \A k \in 2..n : h[k] \in Nat

VARIABLE file
Levels == <<"target", "defaults", "scheduler">>
NotSet == -1
Block == [cron |-> FALSE, interval |-> 0, attempts |-> 0, backoff |-> 0, cap |-> 0,
          storeBodies |-> "", store |-> "", ratio |-> NotSet, window |-> 0]
\* The zero value of a setting is how the program knows it was not written.
Values == [cron |-> {TRUE}, interval |-> Intervals, attempts |-> Counts, backoff |-> Backoffs, cap |-> Caps,
           storeBodies |-> {"true", "false"}, store |-> {"none", "hashed"}, ratio |-> Ratios, window |-> Windows]
Written(level) == {s \in DOMAIN Block : file[level][s] # Block[s]}
TypeOK == /\ DOMAIN file = {"target", "defaults", "scheduler"}
          /\ \A level \in DOMAIN file : \A s \in Written(level) : file[level][s] \in Values[s]
T == file.target
D == file.defaults
S == file.scheduler

-----------------------------------------------------------------------------
(* retry.Policy                                                              *)

Wrap(n) == ((n + Word \div 2) % Word) - Word \div 2
\* Go's division cuts towards zero.
Jitter(base, h) == IF base < 10 THEN 0 ELSE h % (base \div 10)
Capped(policy, base) == IF policy.cap > 0 /\ base > policy.cap THEN policy.cap ELSE base
\* The wait before attempt n, its jitter left out; doubling stops at the cap.
Base(policy, n) ==
  LET twice[k \in 2..n] ==
        IF k = 2 THEN policy.backoff
        ELSE LET b == twice[k - 1] IN
             IF policy.cap > 0 /\ b = policy.cap THEN b
             ELSE LET c == Wrap(2 * b) IN IF policy.cap > 0 /\ c >= policy.cap THEN policy.cap ELSE c
  IN Capped(policy, twice[n])
Delay(policy, n, h) == Base(policy, n) + Jitter(Base(policy, n), h[n])
\* Mutant: the wait before the second attempt is left out.
FromThird(policy, h) ==
  LET sum[n \in 2..policy.attempts] == IF n = 2 THEN 0 ELSE Wrap(sum[n - 1] + Delay(policy, n, h))
  IN IF policy.attempts < 2 THEN 0 ELSE sum[policy.attempts]
TotalDelay(policy, h) ==
  LET sum[n \in 2..policy.attempts] == IF n = 2 THEN Delay(policy, 2, h) ELSE Wrap(sum[n - 1] + Delay(policy, n, h))
  IN IF policy.attempts < 2 THEN 0 ELSE sum[policy.attempts]

-----------------------------------------------------------------------------
(* resolveTargetFields                                                       *)

FirstOf(own, inherited, fallback) == CASE own > 0 -> own [] own <= 0 /\ inherited > 0 -> inherited [] OTHER -> fallback
Retry == [attempts |-> FirstOf(T.attempts, D.attempts, DefaultAttempts),
          backoff |-> FirstOf(T.backoff, D.backoff, DefaultBackoff),
          cap |-> FirstOf(T.cap, D.cap, DefaultCap)]
Inherited == IF S.interval = 0 THEN DefaultInterval ELSE S.interval
Schedule == CASE T.cron -> [cron |-> TRUE, interval |-> 0]
  [] ~T.cron /\ T.interval > 0 -> [cron |-> FALSE, interval |-> T.interval]
  [] ~T.cron /\ T.interval = 0 /\ D.cron -> [cron |-> TRUE, interval |-> 0]
  [] ~T.cron /\ T.interval = 0 /\ ~D.cron /\ D.interval > 0 -> [cron |-> FALSE, interval |-> D.interval]
  [] OTHER -> [cron |-> S.cron, interval |-> IF S.cron THEN 0 ELSE Inherited]

\* levelBodies: storeBodies is a shorthand.
LevelBodies(b) == CASE b.store # "" \/ b.ratio # NotSet \/ b.window > 0 -> [store |-> b.store, ratio |-> b.ratio, window |-> b.window]
  [] b.storeBodies = "true" -> [store |-> "hashed", ratio |-> 10, window |-> 0]
  [] b.storeBodies = "false" -> [store |-> "none", ratio |-> NotSet, window |-> 0]
  [] OTHER -> [store |-> "", ratio |-> NotSet, window |-> 0]
BodyPolicy == LET own == LevelBodies(T) def == LevelBodies(D) IN
  [store |-> CASE own.store # "" -> own.store [] own.store = "" /\ def.store # "" -> def.store [] OTHER -> "none",
   ratio |-> CASE own.ratio # NotSet -> own.ratio [] own.ratio = NotSet /\ def.ratio # NotSet -> def.ratio [] OTHER -> 10,
   window |-> FirstOf(own.window, def.window, DefaultWindow)]

-----------------------------------------------------------------------------
(* Validate                                                                  *)

BodiesWritten(b) == b.store # "" \/ b.ratio # NotSet \/ b.window > 0
ValidateLevel(b) ==
  /\ ~(b.cron /\ b.interval > 0)
  /\ b.cap > 0 => b.backoff <= b.cap
  /\ ~(BodiesWritten(b) /\ b.storeBodies # "")
ValidateScheduler == ~(S.cron /\ S.interval > 0 /\ S.interval # DefaultInterval)
\* validateRetryFitsInterval: what the target itself says, and the name it has.
OwnRetry == [attempts |-> T.attempts, backoff |-> IF T.backoff = 0 THEN DefaultBackoff ELSE T.backoff, cap |-> T.cap]
RetryFitsInterval(h) == T.interval > 0 /\ T.attempts > 1 => TotalDelay(OwnRetry, h) < T.interval
ValidateBodyPolicy ==
  BodyPolicy.store = "hashed" /\ BodyPolicy.ratio \in 1..9 /\ Schedule.interval > 0 => BodyPolicy.window >= Schedule.interval
Validate(h) ==
  /\ ValidateLevel(T) /\ ValidateLevel(D) /\ ValidateScheduler
  /\ RetryFitsInterval(h) /\ ValidateBodyPolicy

-----------------------------------------------------------------------------
Init == file = [l \in {"target", "defaults", "scheduler"} |-> Block]
Total == Cardinality(Written("target")) + Cardinality(Written("defaults")) + Cardinality(Written("scheduler"))
Writable(level) == IF level = "scheduler" THEN {"cron", "interval"} ELSE DOMAIN Block
Write == \E level \in DOMAIN file : \E s \in Writable(level) : \E v \in Values[s] :
  /\ file[level][s] = Block[s] /\ Total < MaxWritten
  /\ file' = [file EXCEPT ![level][s] = v]
Next == Write
Spec == Init /\ [][Next]_file

(* A target of an accepted file has one schedule, a cron or an interval, and  *)
(* it is the one written nearest to the target (resolveTargetFields).         *)
Says(b) == b.cron \/ b.interval > 0
OneSchedule == \A h \in Hashes : Validate(h) =>
  /\ Schedule.cron <=> Schedule.interval = 0
  /\ \A i \in 1..3 : LET b == file[Levels[i]] IN
       Says(b) /\ (\A j \in 1..i - 1 : ~Says(file[Levels[j]])) => (Schedule.cron <=> b.cron) /\ (~b.cron => Schedule.interval = b.interval)

(* The waits between the attempts of a target that writes all their settings  *)
(* itself add up to less than its interval, give or take their jitter,        *)
(* whatever the mode whose name they are spread by (validateRetryFitsInterval *)
(* judges the file's settings by the target's name, the scheduler waits by    *)
(* the resolved ones and the key).  The time the attempts take comes on top   *)
(* and is not judged, against "retrying must finish inside the target's own   *)
(* schedule" (validate.go:328): retries may be running when the next scan is  *)
(* due.                                                                       *)
Waits(key) ==
  LET sum[n \in 2..Retry.attempts] == IF n = 2 THEN Delay(Retry, 2, key) ELSE sum[n - 1] + Delay(Retry, n, key)
  IN IF Retry.attempts < 2 THEN 0 ELSE sum[Retry.attempts]
Own == T.interval > 0 /\ T.attempts > 1 /\ T.backoff > 0 /\ T.cap > 0
OwnWaitsFit == \A name, key \in Hashes : Own /\ Validate(name) => 10 * Waits(key) < 11 * T.interval

(* The shorthand means what it says at the level it stands on, whatever the   *)
(* other level samples: true keeps the bodies of every scan, false none, and  *)
(* under defaults it holds until the target says otherwise (levelBodies,      *)
(* bodyPolicy, validateBodies; README.md:361).                                *)
KeepsAll == BodyPolicy.store = "hashed" /\ BodyPolicy.ratio = 10
KeepsNone == BodyPolicy.store = "none"
ShorthandIsWhole == \A h \in Hashes : Validate(h) =>
  /\ (T.storeBodies = "true" => KeepsAll) /\ (T.storeBodies = "false" => KeepsNone)
  /\ T.storeBodies = "" /\ T.store = "" =>
       /\ D.storeBodies = "true" /\ T.ratio = NotSet => KeepsAll
       /\ D.storeBodies = "false" => KeepsNone
=================================================================================
