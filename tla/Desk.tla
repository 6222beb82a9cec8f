---------------------------------- MODULE Desk ----------------------------------
(* Seven machines around the scans, each on its own: part says which one a    *)
(* behaviour is of, the variables of the others are Nil, and a name that two  *)
(* machines use is of the one that runs.                                      *)
EXTENDS Integers, FiniteSets, Sequences

CONSTANTS
  Presses, Typed, Configured, Limit, Hour, MinInterval, MaxTime,              \* ScanDesk
  Assets, Page, Cause, Domains, Domain, Script, Versions, Setters, Outcomes,  \* Drift
  Stacks, Allow, Deny, Healthy, RatioNum, RatioDen,
  Procs, Pids, Boxes, None,                                                   \* Containers
  Files, Paths, Certs, Expires, Urgent, Horizon, MaxEdits, MaxHups,           \* Reload
  Scans, Refs, Names, SeriesOf, Readers, Keys, Validity, DefaultValidity, MaxValidity,  \* Shares
  SignedTtl, SignLimit, MaxClock, MaxLinks, NoKey,
  Intervals, Counts, Backoffs, Caps, Windows, Ratios, DefaultInterval,        \* Settings
  DefaultAttempts, DefaultBackoff, DefaultCap, DefaultWindow, Hashes, Word, MaxWritten,
  Urls, Bodies, Configs, Third, NoName                                        \* AssetKeys

VARIABLES part, now, stored, file, rules, seen,
  press, budget, live, admitted, knew,
  basis, base, gone, latest, report, known,
  pid, at, kind, tried, runtime, listed, held, box, by, left, taken,
  disk, hup, pc, next, start, app, daemon, certPaths, cert, reading, edits, hups,
  written, inUse, rotated, swapped, noSigning, links, request, signed, reads

U == INSTANCE ScanDesk
D == INSTANCE Drift
C == INSTANCE Containers
R == INSTANCE Reload
S == INSTANCE Shares
L == INSTANCE Settings
A == INSTANCE AssetKeys

ASSUME DeskAssumption ==
  /\ U!DeskAssumption /\ D!DriftAssumption /\ C!ContainersAssumption /\ R!ReloadAssumption
  /\ S!SharesAssumption /\ L!SettingsAssumption /\ A!AssetsAssumption

deskVars == <<press, budget, live, admitted, knew>>
driftVars == <<basis, base, gone, latest, report, known>>
boxVars == <<pid, at, kind, tried, runtime, listed, held, box, by, left, taken>>
reloadVars == <<disk, hup, pc, next, start, app, daemon, certPaths, cert, reading, edits, hups>>
shareVars == <<written, inUse, rotated, swapped, noSigning, links, request, signed, reads>>
vars == <<part, now, stored, file, rules, seen, deskVars, driftVars, boxVars, reloadVars, shareVars>>

Nil == <<>>
NoDesk == press = Nil /\ budget = Nil /\ live = Nil /\ admitted = Nil /\ knew = Nil
NoDrift == basis = Nil /\ base = Nil /\ gone = Nil /\ latest = Nil /\ report = Nil /\ known = Nil
NoBoxes == /\ pid = Nil /\ at = Nil /\ kind = Nil /\ tried = Nil /\ runtime = Nil /\ listed = Nil
           /\ held = Nil /\ box = Nil /\ by = Nil /\ left = Nil /\ taken = Nil
NoReload == /\ disk = Nil /\ hup = Nil /\ pc = Nil /\ next = Nil /\ start = Nil /\ app = Nil
            /\ daemon = Nil /\ certPaths = Nil /\ cert = Nil /\ reading = Nil /\ edits = Nil /\ hups = Nil
NoShares == /\ written = Nil /\ inUse = Nil /\ rotated = Nil /\ swapped = Nil /\ noSigning = Nil
            /\ links = Nil /\ request = Nil /\ signed = Nil /\ reads = Nil

Init ==
  \/ /\ part = "desk" /\ U!Init /\ file = Nil /\ rules = Nil /\ seen = Nil
     /\ NoDrift /\ NoBoxes /\ NoReload /\ NoShares
  \/ /\ part = "drift" /\ D!Init /\ now = Nil /\ stored = Nil /\ file = Nil /\ rules = Nil /\ seen = Nil
     /\ NoDesk /\ NoBoxes /\ NoReload /\ NoShares
  \/ /\ part = "boxes" /\ C!Init /\ now = Nil /\ stored = Nil /\ file = Nil /\ rules = Nil /\ seen = Nil
     /\ NoDesk /\ NoDrift /\ NoReload /\ NoShares
  \/ /\ part = "reload" /\ R!Init /\ stored = Nil /\ rules = Nil
     /\ NoDesk /\ NoDrift /\ NoBoxes /\ NoShares
  \/ /\ part = "shares" /\ S!Init /\ file = Nil /\ rules = Nil /\ seen = Nil
     /\ NoDesk /\ NoDrift /\ NoBoxes /\ NoReload
  \/ /\ part = "settings" /\ L!Init /\ now = Nil /\ stored = Nil /\ rules = Nil /\ seen = Nil
     /\ NoDesk /\ NoDrift /\ NoBoxes /\ NoReload /\ NoShares
  \/ /\ part = "assets" /\ A!Init /\ now = Nil /\ stored = Nil /\ file = Nil
     /\ NoDesk /\ NoDrift /\ NoBoxes /\ NoReload /\ NoShares

Next ==
  \/ /\ part = "desk" /\ U!Next
     /\ UNCHANGED <<part, file, rules, seen, driftVars, boxVars, reloadVars, shareVars>>
  \/ /\ part = "drift" /\ D!Next
     /\ UNCHANGED <<part, now, stored, file, rules, seen, deskVars, boxVars, reloadVars, shareVars>>
  \/ /\ part = "boxes" /\ C!Next
     /\ UNCHANGED <<part, now, stored, file, rules, seen, deskVars, driftVars, reloadVars, shareVars>>
  \/ /\ part = "reload" /\ R!Next
     /\ UNCHANGED <<part, stored, rules, deskVars, driftVars, boxVars, shareVars>>
  \/ /\ part = "shares" /\ S!Next
     /\ UNCHANGED <<part, file, rules, seen, deskVars, driftVars, boxVars, reloadVars>>
  \/ /\ part = "settings" /\ L!Next
     /\ UNCHANGED <<part, now, stored, rules, seen, deskVars, driftVars, boxVars, reloadVars, shareVars>>
  \/ /\ part = "assets" /\ A!Next
     /\ UNCHANGED <<part, now, stored, file, deskVars, driftVars, boxVars, reloadVars, shareVars>>
Spec == Init /\ [][Next]_vars

-----------------------------------------------------------------------------
(* Typed addresses are scanned within the rolling budget and, as far as the   *)
(* store knows of the scans before, no sooner than the minimum apart.         *)
DeskHolds == part = "desk" => U!TypeOK /\ U!BudgetHolds /\ U!AddressesRest

(* Two scans saw one asset exactly when the rules in force say so, whatever   *)
(* rules they ran under, and a script changed when what the rules read did.   *)
AssetsFollowRules == part = "assets" => A!TypeOK /\ A!AssetsFollowTheRules /\ A!ScriptChangesAreReal

(* No host slips into the baseline unsaid, what is reported as removed is,    *)
(* and a scan the comparison distrusts is not banded as one to be trusted.    *)
DriftIsReported == part = "drift" => D!TypeOK /\ D!NothingSlipsIn /\ D!RemovalIsReal /\ D!BandAgrees

(* Only what a dead process left is reaped, and whatever is left behind was   *)
(* left by a failure that says so.                                            *)
BoxesAreAccounted == part = "boxes" => C!TypeOK /\ C!OnlyOrphansAreReaped /\ C!EveryBoxIsAccounted

(* A reload is whole or not at all, and a certificate is replaced only by one *)
(* that matches its key and has not expired.                                  *)
ReloadIsSafe == [][part = "reload" => (R!TypeOK /\ R!AdoptedWhole)' /\ R!TakesTheSound]_vars

(* A link opens its one scan, and of one other shows what changed; nothing    *)
(* leaves the host by it after it ends but for the time of one signature, and *)
(* a key that is gone opens nothing.                                          *)
SharesHold == part = "shares" => S!TypeOK /\ S!LinkOpensOneScan /\ S!AccessEndsWithLink /\ S!RotationWithdraws

(* A file that is accepted gives a target one schedule, waits between its     *)
(* attempts that fit its interval, and the bodies the shorthand asks for.     *)
SettingsWork == part = "settings" => L!TypeOK /\ L!OneSchedule /\ L!OwnWaitsFit /\ L!ShorthandIsWhole
================================================================================
