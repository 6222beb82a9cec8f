------------------------------ MODULE BodySamples ------------------------------
(* The ledger that decides which scans of a series keep their bodies          *)
(* (store/bodysamples.go, scanner/bodies.go).  An observation is a scheduled  *)
(* scan with its retries: its first attempt reads the window and claims a     *)
(* place in one transaction, a retry inherits the decision, and each attempt  *)
(* settles the row.  Observations of one series overlap, in one process and   *)
(* in several; a restart loses retries, and a rebuilt index gets its rows     *)
(* back from the stored documents, on several workers and in any order.       *)
(* One series is modelled: no query or row concerns two.                      *)
EXTENDS Naturals, FiniteSets

CONSTANTS Observations,
          Num, Den,       \* the ratio Num/Den, between 0 and 1
          Window,         \* ratioWindow
          StaleAfter,     \* retryHorizon
          MaxAttempts,
          Ends,           \* what an attempt may come to: "ok", "cut" (truncated, which
                          \* the policy retries), "failed", "skipped" (robots)
          Moments         \* the times at which anything happens, from 0

BodySamplesAssumption ==
  /\ IsFiniteSet(Observations) /\ 0 \notin Observations
  /\ {Window, StaleAfter, MaxAttempts} \subseteq Nat /\ MaxAttempts > 0
  /\ Ends \subseteq {"ok", "cut", "failed", "skipped"} /\ Moments \subseteq Nat /\ 0 \in Moments

VARIABLES now, enabled,   \* the clock, and whether configuration stores bodies
          ledger,         \* the rows: a function on the observations that have one
          obs,            \* [Observations -> [at, attempt, decision, end]]
          lock, seen,     \* who is in the ledger's transaction; the rows it read
          documents,      \* stored results: [of, ok, kind]
          merged,         \* documents a rebuild has merged since the index was lost
          succeeded       \* history: observations whose success the ledger has been told of

vars == <<now, enabled, ledger, obs, lock, seen, documents, merged, succeeded>>

Decisions == {"none", "disabled", "sampled", "notSampled", "forced", "unavailable", "disabledByReload"}
Row == [at : Moments, sampled : BOOLEAN, outcome : {"pending", "completed", "failed"}]
Nobody == 0
HasRow == DOMAIN ledger

TypeOK ==
  /\ now \in Moments /\ enabled \in BOOLEAN /\ lock \in Observations \cup {Nobody}
  /\ HasRow \subseteq Observations /\ \A o \in HasRow : ledger[o] \in Row
  /\ obs \in [Observations -> [at : {"idle", "read", "claim", "scan", "settle", "wait", "over"},
                               attempt : 1..MaxAttempts, decision : Decisions, end : Ends \cup {"none"}]]
  /\ seen \subseteq Observations /\ succeeded \subseteq Observations
  /\ documents \subseteq [of : Observations, ok : BOOLEAN, kind : Decisions] /\ merged \subseteq documents
  /\ lock = Nobody <=> \A o \in Observations : obs[o].at # "claim"

Init ==
  /\ now = 0 /\ enabled = TRUE /\ ledger = [o \in {} |-> 0] /\ lock = Nobody /\ seen = {}
  /\ obs = [o \in Observations |-> [at |-> "idle", attempt |-> 1, decision |-> "none", end |-> "none"]]
  /\ documents = {} /\ merged = {} /\ succeeded = {}

Sets(o, at, decision) == obs' = [obs EXCEPT ![o].at = at, ![o].decision = decision]
Goes(o, at) == Sets(o, at, obs[o].decision)

-----------------------------------------------------------------------------
(* The decision                                                              *)

Tick == (\E t \in Moments : now < t /\ now' = t) /\ UNCHANGED <<enabled, ledger, obs, lock, seen, documents, merged, succeeded>>
Reload == enabled /\ enabled' = FALSE /\ UNCHANGED <<now, ledger, obs, lock, seen, documents, merged, succeeded>>

\* decideBodies of a first attempt; wsaw scan --bodies forces the decision.
Begin(o) ==
  /\ obs[o].at = "idle"
  /\ IF enabled THEN \E d \in {"none", "forced"} : Sets(o, "read", d)
                ELSE \/ Sets(o, "read", "forced") \/ Sets(o, "scan", "disabled")
  /\ UNCHANGED <<now, enabled, ledger, lock, seen, documents, merged, succeeded>>

\* Without the ledger a forced scan is sampled all the same, and so is every scan or
\* none when the ratio needs no history; the rest is a gap.
Unavailable(o) == CASE obs[o].decision = "forced" -> "forced"
  [] obs[o].decision # "forced" /\ Num >= Den -> "sampled"
  [] obs[o].decision # "forced" /\ Num < Den /\ Num = 0 -> "notSampled"
  [] OTHER -> "unavailable"
LedgerFails(o) ==
  /\ obs[o].at = "read" /\ Sets(o, "scan", Unavailable(o))
  /\ UNCHANGED <<now, enabled, ledger, lock, seen, documents, merged, succeeded>>

\* Mutant: the window is read outside the lock and the transaction.
Unlocked == TRUE
\* ledgerMu within a process, the isolation of ledgerTxOptions between two.
Exclusive == lock = Nobody
ReadWindow(o) ==
  /\ obs[o].at = "read" /\ Exclusive
  /\ lock' = o /\ seen' = HasRow /\ Goes(o, "claim")
  /\ UNCHANGED <<now, enabled, ledger, documents, merged, succeeded>>

InWindow(r) == ledger[r].at + Window >= now
Stale(r) == InWindow(r) /\ ledger[r].outcome = "pending" /\ ledger[r].at + StaleAfter < now
Counted == {r \in seen \cap HasRow : InWindow(r) /\ ~Stale(r) /\ ledger[r].outcome # "failed"}
\* model.SampleWanted: sampled < ratio * scans, rounded up.
Wanted(scans, sampled) == sampled * Den < Num * scans
Sampled(o) == obs[o].decision = "forced"
              \/ Wanted(Cardinality(Counted) + 1, Cardinality({r \in Counted : ledger[r].sampled}))

MaxOf(a, b) == IF a > b THEN a ELSE b
Kept(r) == ledger[r].at + MaxOf(2 * Window, StaleAfter) >= now
Decided(o) == [r \in {q \in HasRow : Kept(q)} \cup {o} |->
                 CASE r = o -> [at |-> now, sampled |-> Sampled(o), outcome |-> "pending"]
                   [] r # o /\ Stale(r) -> [ledger[r] EXCEPT !.outcome = "failed"]
                   [] OTHER -> ledger[r]]
Verdict(o) == IF obs[o].decision = "forced" THEN "forced" ELSE IF Sampled(o) THEN "sampled" ELSE "notSampled"

\* A commit whose answer is lost is tried again, and the row is there already:
\* the caller is told that the ledger is unavailable.
Claim(o) ==
  /\ obs[o].at = "claim" /\ ledger' = Decided(o)
  /\ lock' = Nobody /\ seen' = {}
  /\ Sets(o, "scan", Verdict(o)) \/ Sets(o, "scan", Unavailable(o))
  /\ succeeded' = succeeded \cap DOMAIN ledger'
  /\ UNCHANGED <<now, enabled, documents, merged>>

Rollback(o) ==
  /\ obs[o].at = "claim" /\ lock' = Nobody /\ seen' = {} /\ Goes(o, "read")
  /\ UNCHANGED <<now, enabled, ledger, documents, merged, succeeded>>

-----------------------------------------------------------------------------
(* Attempts                                                                  *)

Retryable(end) == end \in {"failed", "cut"}
Ok(end) == end \in {"ok", "cut"}

Over == [at |-> "over", attempt |-> 1, decision |-> "none", end |-> "none"]
Ledgered == {"sampled", "notSampled", "forced"}

\* Scan ends and its result is stored with the decision it ran under; a retry that
\* is skipped never comes to a decision, and nothing settles its observation.
EndAttempt(o) == \E end \in Ends :
  /\ obs[o].at = "scan" /\ (end = "skipped" => obs[o].attempt > 1)
  /\ obs' = [obs EXCEPT ![o] = IF end = "skipped" THEN Over ELSE [@ EXCEPT !.at = "settle", !.end = end]]
  /\ documents' = IF end = "skipped" \/ obs[o].decision \in {"disabled", "unavailable"} THEN documents
                  ELSE documents \cup {[of |-> o, ok |-> Ok(end), kind |-> obs[o].decision]}
  /\ UNCHANGED <<now, enabled, ledger, lock, seen, merged, succeeded>>

Outcome(o) == IF ~Retryable(obs[o].end) THEN "completed"
              ELSE IF obs[o].attempt < MaxAttempts THEN "pending" ELSE "failed"
Settles(o) == obs[o].decision \in Ledgered \cup {"disabledByReload"} /\ o \in HasRow
Leaves(o) == obs' = [obs EXCEPT ![o] = IF Retryable(@.end) /\ @.attempt < MaxAttempts
                                       THEN [@ EXCEPT !.at = "wait", !.end = "none"] ELSE Over]

\* settleBodies: a row trimmed or never written is nothing to settle.
Settle(o) ==
  /\ obs[o].at = "settle"
  /\ Leaves(o)
  /\ IF Settles(o)
     THEN /\ ledger' = [ledger EXCEPT ![o].outcome = Outcome(o)]
          /\ succeeded' = IF Outcome(o) = "completed" THEN succeeded \cup {o} ELSE succeeded
     ELSE UNCHANGED <<ledger, succeeded>>
  /\ UNCHANGED <<now, enabled, lock, seen, documents, merged>>

SettleFails(o) ==
  /\ obs[o].at = "settle"
  /\ Leaves(o)
  /\ UNCHANGED <<now, enabled, ledger, lock, seen, documents, merged, succeeded>>

\* inheritBodies: storage turned off by a reload applies to a retry at once.
Inherited(o) == IF obs[o].decision = "sampled" /\ ~enabled THEN "disabledByReload" ELSE obs[o].decision
Retry(o) ==
  /\ obs[o].at = "wait"
  /\ obs' = [obs EXCEPT ![o] = [at |-> "scan", attempt |-> @.attempt + 1, decision |-> Inherited(o), end |-> "none"]]
  /\ UNCHANGED <<now, enabled, ledger, lock, seen, documents, merged, succeeded>>

\* A restart, or a reload that removed the target.
LoseRetry(o) ==
  /\ obs[o].at \in {"scan", "settle", "wait"} /\ obs' = [obs EXCEPT ![o] = Over]
  /\ UNCHANGED <<now, enabled, ledger, lock, seen, documents, merged, succeeded>>

-----------------------------------------------------------------------------
(* wsaw store rebuild-index                                                  *)

LoseIndex ==
  /\ lock = Nobody /\ HasRow # {} /\ ledger' = [o \in {} |-> 0] /\ merged' = {} /\ succeeded' = {}
  /\ UNCHANGED <<now, enabled, obs, lock, seen, documents>>

\* One success settles the observation however many attempts failed.
Merged(d) == IF d.ok \/ (d.of \in HasRow /\ ledger[d.of].outcome = "completed") THEN "completed" ELSE "failed"

\* rebuildBodySample; the row's time is that of the attempt, which approximates it.
RebuildRow(d) ==
  /\ Exclusive /\ d \notin merged /\ d.kind \in Ledgered
  /\ ledger' = [o \in HasRow \cup {d.of} |->
        IF o # d.of THEN ledger[o]
        ELSE IF o \in HasRow THEN [ledger[o] EXCEPT !.outcome = Merged(d)]
        ELSE [at |-> now, sampled |-> d.kind # "notSampled", outcome |-> Merged(d)]]
  /\ merged' = merged \cup {d}
  /\ succeeded' = IF d.ok /\ obs[d.of].at = "over" THEN succeeded \cup {d.of} ELSE succeeded
  /\ UNCHANGED <<now, enabled, obs, lock, seen, documents>>

-----------------------------------------------------------------------------
Attempt(o) == EndAttempt(o) \/ Settle(o) \/ SettleFails(o) \/ Retry(o) \/ LoseRetry(o)
Decide(o) == Begin(o) \/ LedgerFails(o) \/ ReadWindow(o) \/ Claim(o) \/ Rollback(o)
Next == \/ Tick \/ Reload \/ LoseIndex
        \/ \E o \in Observations : Decide(o) \/ Attempt(o)
        \/ \E d \in documents : RebuildRow(d)
Spec == Init /\ [][Next]_vars

-----------------------------------------------------------------------------
(* One success settles an observation: once the ledger was told of it, by the *)
(* attempt or by a rebuild after the last attempt, nothing takes it back, be  *)
(* it an earlier attempt merged later or a row read as stale while its retry  *)
(* was late; and no row is completed without a result.                        *)
OutcomeIsTrue == \A o \in HasRow :
  /\ o \in succeeded => ledger[o].outcome = "completed"
  /\ ledger[o].outcome = "completed" => \E d \in documents : d.of = o /\ d.ok

(* An observation whose retry is due keeps its place in the window, so that   *)
(* the retry cannot lose its sample to the next scheduled scan, until the     *)
(* retry is too late to come.                                                 *)
RetryKeepsItsPlace == \A o \in HasRow :
  /\ obs[o].at = "wait" /\ ~(\E d \in merged : d.of = o)
  => ledger[o].outcome = "pending" \/ ledger[o].at + StaleAfter < now

(* Two scans of a series that start together, in one process or in two, never *)
(* both claim the last place: nothing is decided between a decision's look at *)
(* the window and its claim (DecideBodySample).                               *)
ClaimsUnderLock == \A o \in Observations :
  obs[o].at = "claim" /\ obs'[o].at = "scan" => HasRow \subseteq seen /\ lock = o
ClaimsAreSerial == [][ClaimsUnderLock]_vars
================================================================================
