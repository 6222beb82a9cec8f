-------------------------------- MODULE ScanDesk --------------------------------
(* Scans asked for by people and programs (httpapi/scanurl.go, rescan.go and  *)
(* api.go, app/adhoc.go, scanner/live.go), beside those of the scheduler.  A  *)
(* press of "Scan now", of the form for a typed URL, or a call of the API is  *)
(* admitted by checks made one after the other and starts its scan after the  *)
(* last of them, the web interface in a goroutine of its own once the reader  *)
(* has been answered.                                                         *)
EXTENDS Naturals, FiniteSets

CONSTANTS Presses,        \* presses, each of which asks once
          Typed,          \* names typed addresses derive to (adhoc.Name), ...
          Configured,     \* ... which may be configured targets too; the scheduler scans these
          Limit, Hour,    \* the rolling budget of typed URLs
          MinInterval,
          MaxTime         \* bound of the clock

DeskAssumption ==
  /\ Limit \in Nat /\ Hour \in Nat \ {0} /\ MinInterval \in Nat /\ MaxTime \in Nat
  /\ IsFiniteSet(Presses) /\ "scheduler" \notin Presses

VARIABLES now,
          press,          \* [Presses -> [at, name, url]]: url, if it is an address somebody typed
          budget,         \* rollingBudget.started: [by, at], one for each press let in
          live,           \* scans running: [who, name, began]
          stored,         \* starts of the stored results: [name, began]
          admitted,       \* history: when the budget was taken
          knew            \* history: [Presses -> what was stored at its last check]

vars == <<now, press, budget, live, stored, admitted, knew>>

TargetNames == Typed \cup Configured
Scheduler == "scheduler"
Series(name) == {s \in live : s.name = name}

TypeOK ==
  /\ now \in 0..MaxTime
  /\ press \in [Presses -> [at : {"idle", "look", "take", "begin", "start", "scan", "over"},
                            name : TargetNames, url : BOOLEAN]]
  /\ budget \subseteq [by : Presses, at : 0..MaxTime] /\ Cardinality(budget) <= Limit
  /\ live \subseteq [who : Presses \cup {Scheduler}, name : TargetNames, began : 0..MaxTime]
  /\ stored \subseteq [name : TargetNames, began : 0..MaxTime]
  /\ admitted \in [Presses -> SUBSET (0..MaxTime)] /\ knew \in [Presses -> SUBSET stored]
  /\ \A p \in Presses : press[p].at \in {"take", "begin"} => press[p].url
  /\ \A p \in Presses : press[p].at = "scan" <=> \E s \in live : s.who = p

Init ==
  /\ now = 0 /\ budget = {} /\ live = {} /\ stored = {}
  /\ press \in [Presses -> [at : {"idle"}, name : Typed, url : {TRUE}] \cup [at : {"idle"}, name : Configured, url : {FALSE}]]
  /\ admitted = [p \in Presses |-> {}] /\ knew = [p \in Presses |-> {}]

Goes(p, at) == press' = [press EXCEPT ![p].at = at]
Unspent == UNCHANGED <<budget, admitted>>
Unscanned == UNCHANGED <<live, stored>>

Tick == now < MaxTime /\ now' = now + 1 /\ UNCHANGED <<press, budget, live, stored, admitted, knew>>

-----------------------------------------------------------------------------
(* Admission                                                                 *)

\* The newest start the store knows of (App.LastScan); what still runs is not there.
LastScan(name) == {s.began : s \in {t \in stored : t.name = name}}
\* adHocCooldown: the floor between two scans of one address.
TooSoon(name) == \E t \in LastScan(name) : now - t < MinInterval

\* CSRF, read-only mode, whether and in which modes this deployment offers it, and
\* whether the target is configured, or the address one it will fetch.
Submit(p) ==
  /\ press[p].at = "idle"
  /\ \/ Goes(p, "over")
     \/ ~(press[p].url /\ TooSoon(press[p].name)) /\ Goes(p, "look")
  /\ UNCHANGED <<now, knew>> /\ Unspent /\ Unscanned

\* runningFor: refused when a scan of the same series is running.
LookAtRunning(p) ==
  /\ press[p].at = "look"
  /\ LET running == Series(press[p].name) # {}
     IN Goes(p, CASE running -> "over" [] ~running /\ press[p].url -> "take" [] OTHER -> "start")
  /\ UNCHANGED <<now, knew>> /\ Unspent /\ Unscanned

Within(starts) == {s \in starts : now - s.at < Hour}

\* rollingBudget.take: one step under the lock; what it let in is spent, whatever
\* becomes of the scan.
TakeBudget(p) ==
  /\ press[p].at = "take"
  /\ LET left == Within(budget)
     IN IF Cardinality(left) >= Limit
        THEN budget' = left /\ Goes(p, "over") /\ UNCHANGED admitted
        ELSE /\ budget' = left \cup {[by |-> p, at |-> now]} /\ Goes(p, "begin")
             /\ admitted' = [admitted EXCEPT ![p] = {now}]
  /\ UNCHANGED <<now, knew>> /\ Unscanned

\* handleUIScanURL shows what is left, which drops what has expired.
Remaining ==
  /\ budget # Within(budget) /\ budget' = Within(budget)
  /\ UNCHANGED <<now, press, live, stored, admitted, knew>>

\* Mutant: the checks AcceptURL made are trusted when the scan starts.
TrustAccepted(p) ==
  /\ press[p].at = "begin" /\ Goes(p, "start") /\ knew' = [knew EXCEPT ![p] = stored]
  /\ UNCHANGED now /\ Unspent /\ Unscanned
\* ScanURL repeats AcceptURL's checks; the address may resolve differently by now.
ScanURL(p) ==
  /\ press[p].at = "begin" /\ knew' = [knew EXCEPT ![p] = stored]
  /\ IF TooSoon(press[p].name) THEN Goes(p, "over") ELSE Goes(p, "start") \/ Goes(p, "over")
  /\ UNCHANGED now /\ Unspent /\ Unscanned

-----------------------------------------------------------------------------
(* Scans                                                                     *)

\* Scanner.Scan registers the scan before anything can fail.
Begin(p) ==
  /\ press[p].at = "start" /\ Goes(p, "scan")
  /\ live' = live \cup {[who |-> p, name |-> press[p].name, began |-> now]}
  /\ UNCHANGED <<now, stored, knew>> /\ Unspent

\* The scheduler does not ask what is running.
BeginScheduled(name) ==
  /\ ~\E s \in live : s.who = Scheduler /\ s.name = name
  /\ live' = live \cup {[who |-> Scheduler, name |-> name, began |-> now]}
  /\ UNCHANGED <<now, press, stored, knew>> /\ Unspent

\* The result is stored, which may fail, and the scan is unregistered after that;
\* a daemon that ends takes its scans with it.
End(s) ==
  /\ s \in live /\ live' = live \ {s}
  /\ stored' \in {stored, stored \cup {[name |-> s.name, began |-> s.began]}}
  /\ IF s.who \in Presses THEN Goes(s.who, "over") ELSE UNCHANGED press
  /\ UNCHANGED <<now, knew>> /\ Unspent

-----------------------------------------------------------------------------
Ask(p) == Submit(p) \/ LookAtRunning(p) \/ TakeBudget(p) \/ ScanURL(p) \/ Begin(p)
Next == \/ Tick \/ Remaining
        \/ \E p \in Presses : Ask(p)
        \/ \E name \in Configured : BeginScheduled(name)
        \/ \E s \in live : End(s)
Spec == Init /\ [][Next]_vars

-----------------------------------------------------------------------------
(* In no hour are more scans of typed URLs let in than the budget allows,     *)
(* whoever asks, by whichever way, and however often the form is looked at.   *)
BudgetHolds == \A t \in 0..MaxTime :
  Cardinality({p \in Presses : \E a \in admitted[p] : a \in t..(t + Hour - 1)}) <= Limit

(* An address somebody types is not scanned again before minInterval is over, *)
(* if the store knew of the last scan when the later one was about to begin:  *)
(* only a scan still running, or one that could not be stored, goes unseen.   *)
AddressesRest == \A s \in {t \in live : t.who \in Presses /\ press[t.who].url} :
  \A earlier \in knew[s.who] : earlier.name = s.name => earlier.began + MinInterval <= s.began
================================================================================
