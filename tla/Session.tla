-------------------------------- MODULE Session --------------------------------
(* Four machines of one scan, each on its own: part says which one a          *)
(* behaviour is of, the variables of the others are Nil, and the clock is of  *)
(* the one that runs.  A part of its own reads robots.txt files.              *)
EXTENDS Integers, Sequences, FiniteSets

CONSTANTS
  Ids, Document, Scripts, Heartbeats, Moved, Sockets, Posts, Heavy, Slow,     \* Capture
  Modes, Endings, AfterLoad, Workers, MaxRecords, QueueSize,
  RuleLists,                                                                  \* Consent
  Observations, Num, Den, SampleWindow, StaleAfter, MaxAttempts, Ends, Moments, \* BodySamples
  Answers, Paths, Letters, Agent, Checks, Ttl, FetchLimit, MaxClock,          \* Robots
  FallbackAllow,
  RobotsFiles                                                                 \* the files read

VARIABLES part,
  mode, wire, touched, records, current, inflight, exceeded, phase, bodyWanted, payloadWanted,
  docFailed, stage, run, runErr, busy, stopped, calm, late, result,
  rules, shown, comes, tcf, old, clicked, choice, stored, budget, found, seenTCF, blind,
  pc, at, step, using, ran, marked, attempted, stale, outcome, by,
  now, enabled, ledger, obs, lock, seen, documents, merged, succeeded,
  served, broken, cache, check, last

C == INSTANCE Capture WITH Steps <- AfterLoad
H == INSTANCE Consent
B == INSTANCE BodySamples WITH Window <- SampleWindow
R == INSTANCE Robots

ASSUME SessionAssumption ==
  /\ C!CaptureAssumption /\ H!ConsentAssumption /\ B!BodySamplesAssumption /\ R!RobotsAssumption
  /\ RobotsFiles \subseteq R!Files

ReadsFile == \E f \in RobotsFiles :
  /\ now = 0 /\ served = [t \in 0..0 |-> [ok |-> TRUE, file |-> f]] /\ broken = {}
  /\ cache = [answer |-> R!Failed, fetched |-> R!Never]
  /\ check = [c \in Checks |-> R!Idle] /\ last = [allowed |-> {}, at |-> R!Never]

captureVars == <<mode, wire, touched, records, current, inflight, exceeded, phase, bodyWanted,
  payloadWanted, docFailed, stage, run, runErr, busy, stopped, calm, late, result>>
consentVars == <<rules, shown, comes, tcf, old, clicked, choice, stored, budget, found, seenTCF, blind,
  pc, at, step, using, ran, marked, attempted, stale, outcome, by>>
robotsVars == <<served, broken, cache, check, last>>
ledgerVars == <<enabled, ledger, obs, lock, seen, documents, merged, succeeded>>
vars == <<part, now, captureVars, consentVars, ledgerVars, robotsVars>>

Nil == <<>>
NoCapture == /\ mode = Nil /\ wire = Nil /\ touched = Nil /\ records = Nil /\ current = Nil
             /\ inflight = Nil /\ exceeded = Nil /\ phase = Nil /\ bodyWanted = Nil /\ payloadWanted = Nil
             /\ docFailed = Nil /\ stage = Nil /\ run = Nil /\ runErr = Nil /\ busy = Nil
             /\ stopped = Nil /\ calm = Nil /\ late = Nil /\ result = Nil
NoConsent == /\ rules = Nil /\ shown = Nil /\ comes = Nil /\ tcf = Nil /\ old = Nil /\ clicked = Nil
             /\ choice = Nil /\ stored = Nil /\ budget = Nil /\ found = Nil /\ seenTCF = Nil /\ blind = Nil
             /\ pc = Nil /\ at = Nil /\ step = Nil /\ using = Nil /\ ran = Nil /\ marked = Nil
             /\ attempted = Nil /\ stale = Nil /\ outcome = Nil /\ by = Nil
NoLedger == /\ enabled = Nil /\ ledger = Nil /\ obs = Nil /\ lock = Nil /\ seen = Nil
            /\ documents = Nil /\ merged = Nil /\ succeeded = Nil

NoRobots == served = Nil /\ broken = Nil /\ cache = Nil /\ check = Nil /\ last = Nil

Init ==
  \/ part = "capture" /\ C!Init /\ NoConsent /\ NoLedger /\ NoRobots /\ now = Nil
  \/ part = "consent" /\ NoCapture /\ H!Init /\ NoLedger /\ NoRobots /\ now = Nil
  \/ part = "bodies" /\ NoCapture /\ NoConsent /\ B!Init /\ NoRobots
  \/ part = "robots" /\ NoCapture /\ NoConsent /\ NoLedger /\ R!Init
  \/ part = "file" /\ NoCapture /\ NoConsent /\ NoLedger /\ ReadsFile

Next ==
  \/ part = "capture" /\ C!Next /\ UNCHANGED <<part, now, consentVars, ledgerVars, robotsVars>>
  \/ part = "consent" /\ H!Next /\ UNCHANGED <<part, now, captureVars, ledgerVars, robotsVars>>
  \/ part = "bodies" /\ B!Next /\ UNCHANGED <<part, captureVars, consentVars, robotsVars>>
  \/ part = "robots" /\ R!Next /\ UNCHANGED <<part, captureVars, consentVars, ledgerVars>>
Spec == Init /\ [][Next]_vars

-----------------------------------------------------------------------------
(* Whatever events, reads and the end of the scan interleave to: the wait for *)
(* a quiet network counts right, "idle" means idle, every body of the result  *)
(* is there or has its reason, and nothing the consent interaction caused is  *)
(* counted as traffic from before it.                                         *)
CaptureIsHonest == part = "capture" =>
  C!TypeOK /\ C!InflightIsTrue /\ C!IdleMeansIdle /\ C!EveryBodyAccounted /\ C!PhaseIsHonest

(* "applied" rests on something that was done and seen to work, "not needed"  *)
(* on a page nothing was done to, the plain reject is the last thing tried,   *)
(* and the phase ended before the page was touched.                           *)
ConsentIsHonest == part = "consent" =>
  H!TypeOK /\ H!AppliedIsEarned /\ H!NotNeededIsUntouched /\ H!FallbackIsLastResort /\ H!MarkedBeforeActing

(* One success settles an observation for good, one whose retry is due keeps  *)
(* its place in the window, and no two scans claim the same place.            *)
LedgerIsTrue ==
  [][part = "bodies" => (B!TypeOK /\ B!OutcomeIsTrue /\ B!RetryKeepsItsPlace)' /\ B!ClaimsUnderLock]_vars

(* A robots.txt file is read as the convention has it, but for a $ behind a   *)
(* star and for an agent addressed in several groups, and a decision stands   *)
(* on what the site said no longer ago than the TTL and one fetch.            *)
RobotsAreFollowed ==
  /\ part = "file" => R!FileIsFollowed
  /\ part = "robots" => R!TypeOK /\ R!DecisionIsCurrent
================================================================================
