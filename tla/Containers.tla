------------------------------ MODULE Containers ------------------------------
(* What browsers leave on the host over the lives of several wsaw processes   *)
(* that share its container runtimes: where the browser runs is decided at    *)
(* startup, orphans are reaped, browsers are launched and closed              *)
(* (container/container.go, app/app.go, browser/browser.go).  A member of     *)
(* Procs is one process: it starts once, exits or crashes, and its pid may be *)
(* given to a later one.                                                      *)
EXTENDS Naturals, FiniteSets, Sequences

CONSTANTS Procs, Pids,
          Boxes,          \* containers and profile directories, none ever made twice
          None

Runtimes == {"podman", "docker"}
AutoOrder == <<"podman", "docker">>
Kinds == Runtimes \cup {"auto", "local"}

ContainersAssumption == None \notin Pids /\ None \notin Procs /\ None \notin Boxes /\ None \notin Kinds

VARIABLES
  pid,        \* pid[p]: the process's pid, None before its start
  at,         \* at[p]: where the process stands
  kind,       \* kind[p]: browser.runtime
  tried,      \* tried[p]: how many runtimes of AutoOrder it has passed over
  runtime,    \* runtime[p]: where its browsers run, None while undecided
  listed,     \* listed[p]: containers Reap has still to look at
  held,       \* held[p]: the container or directory of the browser it starts or has
  box,        \* box[b]: the runtime b is in, and the owner b's label names
  by,         \* history: the process that made b
  left,       \* history: how its process lost hold of b, "" if it did not
  taken       \* history: containers reaped while their process used them

procVars == <<pid, at, kind, tried, runtime, listed, held>>
boxVars == <<box, by, left, taken>>
vars == <<procVars, boxVars>>

Up(p) == at[p] \notin {"new", "over"}
Gone == [on |-> None, owner |-> None]
There == {b \in Boxes : box[b].on # None}
InUse(b) == by[b] # None /\ Up(by[b]) /\ held[by[b]] = b

TypeOK ==
  /\ pid \in [Procs -> Pids \cup {None}]
  /\ at \in [Procs -> {"new", "resolve", "list", "reap", "ready", "wait", "attach", "open", "over"}]
  /\ kind \in [Procs -> Kinds \cup {None}] /\ tried \in [Procs -> 0..Len(AutoOrder)]
  /\ runtime \in [Procs -> Runtimes \cup {"local", None}]
  /\ listed \in [Procs -> SUBSET Boxes] /\ held \in [Procs -> Boxes \cup {None}]
  /\ box \in [Boxes -> [on : Runtimes \cup {"local", None}, owner : Pids \cup {None}]]
  /\ by \in [Boxes -> Procs \cup {None}] /\ taken \subseteq Boxes
  /\ left \in [Boxes -> {"", "version", "run", "attach", "remove", "crash"}]

Init ==
  /\ pid = [p \in Procs |-> None] /\ at = [p \in Procs |-> "new"] /\ kind = [p \in Procs |-> None]
  /\ tried = [p \in Procs |-> 0] /\ runtime = [p \in Procs |-> None]
  /\ listed = [p \in Procs |-> {}] /\ held = [p \in Procs |-> None]
  /\ box = [b \in Boxes |-> Gone] /\ by = [b \in Boxes |-> None] /\ left = [b \in Boxes |-> ""] /\ taken = {}

Goes(p, place) == at' = [at EXCEPT ![p] = place]
Holds(p, b) == held' = [held EXCEPT ![p] = b]
Makes(p, b, on, owner, how) ==
  /\ by[b] = None /\ by' = [by EXCEPT ![b] = p]
  /\ box' = [box EXCEPT ![b] = [on |-> on, owner |-> owner]]
  /\ left' = [left EXCEPT ![b] = how] /\ UNCHANGED taken

-----------------------------------------------------------------------------
(* Startup: where the browser runs (resolveBrowser).                         *)

\* The runtime asked now: the one named, or the next of the order.
Asked(p) == IF kind[p] \in Runtimes THEN kind[p] ELSE AutoOrder[tried[p] + 1]
Asking(p) == at[p] = "resolve" /\ kind[p] # "local" /\ tried[p] < Len(AutoOrder)

Start(p) == \E n \in Pids, k \in Kinds :
  /\ at[p] = "new" /\ \A q \in Procs : Up(q) => pid[q] # n
  /\ pid' = [pid EXCEPT ![p] = n] /\ kind' = [kind EXCEPT ![p] = k] /\ Goes(p, "resolve")
  /\ UNCHANGED <<tried, runtime, listed, held>> /\ UNCHANGED boxVars

\* Detect and BrowserVersion: a runtime that does not work or lacks the image
\* is passed over by auto and ends a process that named it.
PassOver(p) ==
  /\ Asking(p)
  /\ IF kind[p] = "auto" THEN tried' = [tried EXCEPT ![p] = @ + 1] /\ UNCHANGED at
                         ELSE Goes(p, "over") /\ UNCHANGED tried
  /\ UNCHANGED <<pid, kind, runtime, listed, held>> /\ UNCHANGED boxVars

\* BrowserVersion fails for another reason; one that ran out of time leaves a
\* container without a label.
NoVersion(p) ==
  /\ Asking(p) /\ Goes(p, "over")
  /\ (UNCHANGED boxVars \/ \E b \in Boxes : Makes(p, b, Asked(p), None, "version"))
  /\ UNCHANGED <<pid, kind, tried, runtime, listed, held>>

UseContainer(p) ==
  /\ Asking(p) /\ runtime' = [runtime EXCEPT ![p] = Asked(p)] /\ Goes(p, "list")
  /\ UNCHANGED <<pid, kind, tried, listed, held>> /\ UNCHANGED boxVars

ResolveLocal(p) ==
  /\ at[p] = "resolve" /\ (kind[p] = "local" \/ tried[p] = Len(AutoOrder))
  /\ (runtime' = [runtime EXCEPT ![p] = "local"] /\ Goes(p, "ready")) \/ (Goes(p, "over") /\ UNCHANGED runtime)
  /\ UNCHANGED <<pid, kind, tried, listed, held>> /\ UNCHANGED boxVars

-----------------------------------------------------------------------------
(* Reap, once, before the first launch.                                      *)

List(p) ==
  /\ at[p] = "list"
  /\ (listed' = [listed EXCEPT ![p] = {b \in There : box[b].on = runtime[p] /\ box[b].owner # None}] /\ Goes(p, "reap"))
     \/ (Goes(p, "ready") /\ UNCHANGED listed)
  /\ UNCHANGED <<pid, kind, tried, runtime, held>> /\ UNCHANGED boxVars

ProcessAlive(n) == \E p \in Procs : Up(p) /\ pid[p] = n

\* Signal 0 and rm are one step: an owner that was dead stays dead, whoever
\* gets its pid.
Reap(p) == \E b \in listed[p] :
  /\ at[p] = "reap" /\ listed' = [listed EXCEPT ![p] = @ \ {b}]
  /\ UNCHANGED boxVars       \* not inspected, owned, or not removed
     \/ (/\ b \in There /\ ~ProcessAlive(box[b].owner)
         /\ box' = [box EXCEPT ![b] = Gone] /\ taken' = IF InUse(b) THEN taken \cup {b} ELSE taken
         /\ UNCHANGED <<by, left>>)
  /\ UNCHANGED <<pid, at, kind, tried, runtime, held>>

Reaped(p) ==
  /\ at[p] = "reap" /\ listed[p] = {} /\ Goes(p, "ready")
  /\ UNCHANGED <<pid, kind, tried, runtime, listed, held>> /\ UNCHANGED boxVars

-----------------------------------------------------------------------------
(* A browser (Launch, Runtime.Start, Close).                                 *)

\* The container runs and its client says so, or the client was stopped by
\* the budget or by the caller before it could: then nobody knows its ID.
Run(p) == \E b \in Boxes :
  /\ at[p] = "ready" /\ runtime[p] \in Runtimes
  /\ (Makes(p, b, runtime[p], pid[p], "") /\ Holds(p, b) /\ Goes(p, "wait"))
     \/ (Makes(p, b, runtime[p], pid[p], "run") /\ UNCHANGED <<held, at>>)
  /\ UNCHANGED <<pid, kind, tried, runtime, listed>>

MkdirTemp(p) == \E b \in Boxes :
  /\ at[p] = "ready" /\ runtime[p] = "local"
  /\ Makes(p, b, "local", None, "") /\ Holds(p, b) /\ Goes(p, "attach")
  /\ UNCHANGED <<pid, kind, tried, runtime, listed>>

\* Remove: gone already is success; an error is told and nothing tries again.
Remove(b) == \/ box' = [box EXCEPT ![b] = Gone] /\ UNCHANGED left
             \/ b \in There /\ left' = [left EXCEPT ![b] = "remove"] /\ UNCHANGED box
Answers(p) == at[p] = "wait" /\ Goes(p, "attach")
  /\ UNCHANGED <<pid, kind, tried, runtime, listed, held>> /\ UNCHANGED boxVars
\* Mutant: a container that did not answer in time is not removed.
LeaveUnanswered(p) ==
  /\ at[p] = "wait" /\ Holds(p, None) /\ Goes(p, "ready")
  /\ UNCHANGED <<pid, kind, tried, runtime, listed>> /\ UNCHANGED boxVars
Unanswered(p) ==
  /\ at[p] = "wait" /\ Remove(held[p]) /\ Holds(p, None) /\ Goes(p, "ready")
  /\ UNCHANGED <<pid, kind, tried, runtime, listed, by, taken>>

Attached(p) == at[p] = "attach" /\ Goes(p, "open")
  /\ UNCHANGED <<pid, kind, tried, runtime, listed, held>> /\ UNCHANGED boxVars
\* forceClose cancels the connection and removes nothing.
AttachFails(p) ==
  /\ at[p] = "attach" /\ left' = [left EXCEPT ![held[p]] = "attach"] /\ Holds(p, None) /\ Goes(p, "ready")
  /\ UNCHANGED <<pid, kind, tried, runtime, listed, box, by, taken>>

Close(p) ==
  /\ at[p] = "open" /\ Remove(held[p]) /\ Holds(p, None) /\ Goes(p, "ready")
  /\ UNCHANGED <<pid, kind, tried, runtime, listed, by, taken>>

-----------------------------------------------------------------------------
\* A container ends by itself (--rm), whatever anyone does with it.
Ends(b) == b \in There /\ box[b].on # "local" /\ box' = [box EXCEPT ![b] = Gone]
  /\ UNCHANGED <<by, left, taken>> /\ UNCHANGED procVars

Exit(p) == at[p] = "ready" /\ Goes(p, "over")
  /\ UNCHANGED <<pid, kind, tried, runtime, listed, held>> /\ UNCHANGED boxVars
Crash(p) ==
  /\ Up(p) /\ Goes(p, "over") /\ Holds(p, None)
  /\ left' = IF held[p] = None THEN left ELSE [left EXCEPT ![held[p]] = "crash"]
  /\ UNCHANGED <<pid, kind, tried, runtime, listed, box, by, taken>>

Step(p) ==
  \/ Start(p) \/ PassOver(p) \/ NoVersion(p) \/ UseContainer(p) \/ ResolveLocal(p)
  \/ List(p) \/ Reap(p) \/ Reaped(p)
  \/ Run(p) \/ MkdirTemp(p) \/ Answers(p) \/ Unanswered(p) \/ Attached(p) \/ AttachFails(p) \/ Close(p)
  \/ Exit(p) \/ Crash(p)
Next == (\E p \in Procs : Step(p)) \/ (\E b \in Boxes : Ends(b))
Spec == Init /\ [][Next]_vars

-----------------------------------------------------------------------------
(* Reaping never takes the browser of a wsaw that is alive, however processes *)
(* overlap and whatever pids are used again (Reap, processAlive).             *)
OnlyOrphansAreReaped == taken = {}

(* Every container and profile directory that is there belongs to a browser   *)
(* of a live process, or was lost in a way that is known: the client did not  *)
(* live to learn of it, the attach failed, removing it failed, or its process *)
(* crashed (Start, Launch, shutdown).                                         *)
EveryBoxIsAccounted == \A b \in There : InUse(b) \/ left[b] # ""
================================================================================
