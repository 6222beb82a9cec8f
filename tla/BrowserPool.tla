------------------------------ MODULE BrowserPool ------------------------------
(***************************************************************************)
(* The pool of browsers that scans and the report printer share            *)
(* (internal/browser: Pool, Lease, Browser; scanner.capture, Printer).     *)
(*                                                                         *)
(* A token of the slots channel is the permission to hold one browser.     *)
(* One mutex guards the idle stack, the live counter, the generation and   *)
(* the closed flag; everything slow, a launch, a health check, a close,    *)
(* happens between two of its critical sections, so each section is an     *)
(* action.  Switch retires the browsers of an older image while scans go   *)
(* on, and Close takes every token before it closes what is idle.          *)
(***************************************************************************)
EXTENDS Naturals, Sequences, FiniteSets, SequencesExt

CONSTANTS
    Clients,    \* goroutines that scan or print and come back for more; one whose context
                \* ends while it waits is as one that goes on waiting
    Browsers,   \* names for browsers; one is used again once its process is gone
    Size,       \* PoolOptions.Size
    Limit,      \* PoolOptions.MaxScansPerBrowser as configured; 0 is no limit
    MaxScans,   \* the scans a browser serves are counted up to here (a bound)
    MaxGeneration   \* calls of Switch (a bound)

ASSUME SizeAssumption == Size \in Nat \ {0} /\ Limit \in Nat /\ MaxScans \in Nat /\ MaxGeneration \in Nat
ASSUME SetsAssumption == IsFiniteSet(Clients) /\ IsFiniteSet(Browsers)

VARIABLES
    slots,      \* tokens in the channel
    idle,       \* the idle browsers, the last one on top
    live,       \* how many browsers the pool says it holds
    closed, generation,
    contexts,   \* browsers give each scan a context: what the probe found at startup
    browser,    \* [Browsers -> [state, gen, scans, dead]]
    client,     \* [Clients -> [at, has, gen]]: where it is, its browser, the generation it read
    retiring,   \* idle browsers that Switch took and is closing
    closer      \* what Close is at: its place, the tokens it took, the browsers it closes

poolVars == <<idle, live, closed, generation>>
ends == <<retiring, closer>>
vars == <<slots, poolVars, contexts, browser, client, ends>>

\* What is there of a browser, of its process, container and profile directory: nothing,
\* all of it, what a failed launch left, or what could not be removed.
Left == {"halfLaunched", "notRemoved"}
States == {"none", "runs"} \cup Left
Blank == [state |-> "none", gen |-> 0, scans |-> 0, dead |-> FALSE]

Places == {"wait", "take", "vet", "check", "launch", "join", "open", "scan",
           "put", "recycle", "shut", "abandon", "leave"}
\* Places at which the pool counts the browser of a client.
Counted == {"vet", "check", "open", "scan", "put", "recycle", "shut"}

Elsewhere == ToSet(idle) \cup ToSet(retiring) \cup ToSet(closer.closes)
Held == {b \in Browsers : \E c \in Clients : client[c].at \in Counted /\ client[c].has = {b}}

\* MaxScansPerBrowser after the fallback to process isolation.
EffectiveLimit == IF contexts THEN Limit ELSE 1

TypeOK ==
    /\ slots \in 0..Size /\ live \in Nat /\ closed \in BOOLEAN
    /\ contexts \in BOOLEAN /\ generation \in 0..MaxGeneration
    /\ idle \in Seq(Browsers) /\ retiring \in Seq(Browsers)
    /\ browser \in [Browsers -> [state : States, gen : 0..MaxGeneration,
                                 scans : 0..MaxScans, dead : BOOLEAN]]
    /\ client \in [Clients -> [at : Places, has : SUBSET Browsers, gen : 0..MaxGeneration]]
    /\ closer \in [at : {"rest", "drain", "close", "done"}, took : 0..Size, closes : Seq(Browsers)]

-----------------------------------------------------------------------------
\* NewPool, and the probe at startup, before anything else uses the pool: its browser is
\* kept when it can separate scans, retired when it cannot, and may not have started.
Init ==
    /\ contexts \in BOOLEAN
    /\ idle \in {<<>>} \cup {<<b>> : b \in {x \in Browsers : contexts}}
    /\ browser = [b \in Browsers |-> IF <<b>> = idle THEN [Blank EXCEPT !.state = "runs"] ELSE Blank]
    /\ live = Len(idle)
    /\ slots = Size /\ closed = FALSE /\ generation = 0
    /\ client = [c \in Clients |-> [at |-> "wait", has |-> {}, gen |-> 0]]
    /\ retiring = <<>> /\ closer = [at |-> "rest", took |-> 0, closes |-> <<>>]

-----------------------------------------------------------------------------
\* Acquire

At(c, place) == client[c].at = place
Goes(c, place) == client' = [client EXCEPT ![c].at = place]
GoesWith(c, place, b) == client' = [client EXCEPT ![c].at = place, ![c].has = {b}]
GoesWithout(c, place) == client' = [client EXCEPT ![c].at = place, ![c].has = {}]

TakeSlot(c) == /\ At(c, "wait") /\ slots > 0
               /\ slots' = slots - 1 /\ Goes(c, "take")
               /\ UNCHANGED <<poolVars, contexts, browser, ends>>

\* take, up to the end of its critical section; launch reads the options and the
\* generation together, in a section of its own that follows at once.
Take(c) ==
    /\ At(c, "take")
    /\ \/ /\ closed /\ Goes(c, "leave") /\ UNCHANGED idle
       \/ /\ ~closed /\ idle # <<>>
          /\ GoesWith(c, "vet", Last(idle)) /\ idle' = Front(idle)
       \/ /\ ~closed /\ idle = <<>>
          /\ client' = [client EXCEPT ![c].at = "launch", ![c].gen = generation] /\ UNCHANGED idle
    /\ UNCHANGED <<slots, live, closed, generation, contexts, browser, ends>>

\* stale
Vet(c, b) ==
    /\ At(c, "vet") /\ client[c].has = {b}
    /\ Goes(c, IF browser[b].gen = generation THEN "check" ELSE "recycle")
    /\ UNCHANGED <<slots, poolVars, contexts, browser, ends>>

\* shouldRecycle; Alive, which marks dead what does not answer, as it may at any time.
WornOut(b) == EffectiveLimit > 0 /\ browser[b].scans >= EffectiveLimit
Check(c, b) ==
    /\ At(c, "check") /\ client[c].has = {b}
    /\ \E silent \in BOOLEAN :
          /\ silent => ~WornOut(b)
          /\ browser' = [browser EXCEPT ![b].dead = @ \/ silent]
          /\ Goes(c, IF silent \/ WornOut(b) THEN "recycle" ELSE "open")
    /\ UNCHANGED <<slots, poolVars, contexts, ends>>

Launch(c, b) ==
    /\ At(c, "launch") /\ browser[b].state = "none"
    /\ browser' = [browser EXCEPT ![b] = [Blank EXCEPT !.state = "runs", !.gen = client[c].gen]]
    /\ GoesWith(c, "join", b)
    /\ UNCHANGED <<slots, poolVars, contexts, ends>>

\* A mutant: the error of a launch is returned without the slot.
LaunchFailsWithSlot(c) ==
    /\ At(c, "launch") /\ Goes(c, "wait")
    /\ UNCHANGED <<slots, poolVars, contexts, browser, ends>>

\* Launch returns an error: nothing was made, or the browser did not come up and forceClose,
\* which only ends the process, left the container or the profile directory that was.
LaunchFails(c) ==
    /\ At(c, "launch") /\ Goes(c, "leave")
    /\ \/ UNCHANGED browser
       \/ \E b \in Browsers : /\ browser[b].state = "none"
                             /\ browser' = [browser EXCEPT ![b] = [Blank EXCEPT !.state = "halfLaunched"]]
    /\ UNCHANGED <<slots, poolVars, contexts, ends>>

\* A mutant: the browser is counted before the pool is seen to be closed.
JoinAnyway(c) ==
    /\ At(c, "join") /\ live' = live + 1
    /\ Goes(c, IF closed THEN "abandon" ELSE "open")
    /\ UNCHANGED <<slots, idle, closed, generation, contexts, browser, ends>>

\* launch, its second critical section.
Join(c) ==
    /\ At(c, "join")
    /\ IF closed THEN Goes(c, "abandon") /\ UNCHANGED live
                 ELSE Goes(c, "open") /\ live' = live + 1
    /\ UNCHANGED <<slots, idle, closed, generation, contexts, browser, ends>>

-----------------------------------------------------------------------------
\* A lease

\* NewScanContext
Open(c, b) ==
    /\ At(c, "open") /\ client[c].has = {b} /\ browser[b].scans < MaxScans
    /\ browser' = [browser EXCEPT ![b].scans = @ + 1]
    /\ Goes(c, "scan")
    /\ UNCHANGED <<slots, poolVars, contexts, ends>>

\* Discard: the context could not be opened, or the scan failed at the browser level.
Discard(c, b) ==
    /\ client[c].at \in {"open", "scan"} /\ client[c].has = {b}
    /\ browser' = [browser EXCEPT ![b].dead = TRUE]
    /\ Goes(c, "put")
    /\ UNCHANGED <<slots, poolVars, contexts, ends>>

\* Release, also when the capture panics.
Release(c) ==
    /\ At(c, "scan") /\ Goes(c, "put")
    /\ UNCHANGED <<slots, poolVars, contexts, browser, ends>>

\* A mutant: the generation is only compared when a browser is taken.
PutUnchecked(c, b) ==
    /\ At(c, "put") /\ client[c].has = {b}
    /\ IF closed \/ browser[b].dead
       THEN Goes(c, "shut") /\ UNCHANGED idle
       ELSE GoesWithout(c, "leave") /\ idle' = Append(idle, b)
    /\ UNCHANGED <<slots, live, closed, generation, contexts, browser, ends>>

\* put, up to the end of its critical section.
Put(c, b) ==
    /\ At(c, "put") /\ client[c].has = {b}
    /\ IF closed \/ browser[b].dead \/ browser[b].gen # generation
       THEN Goes(c, "shut") /\ UNCHANGED idle
       ELSE GoesWithout(c, "leave") /\ idle' = Append(idle, b)
    /\ UNCHANGED <<slots, live, closed, generation, contexts, browser, ends>>

\* Browser.Close, once the pool is done with a browser: the container or the profile
\* directory may refuse to go, which is logged or returned, and the browser is forgotten.
Ends(b) == \E end \in {"none", "notRemoved"} : browser' = [browser EXCEPT ![b] = [Blank EXCEPT !.state = end]]

\* closeBrowser, for a browser given back, for one that take turned down, and the close of
\* one that was launched while the pool closed.
CloseReturned(c, b) ==
    /\ At(c, "shut") /\ client[c].has = {b}
    /\ Ends(b) /\ live' = live - 1 /\ GoesWithout(c, "leave")
    /\ UNCHANGED <<slots, idle, closed, generation, contexts, ends>>

Recycle(c, b) ==
    /\ At(c, "recycle") /\ client[c].has = {b}
    /\ Ends(b) /\ live' = live - 1 /\ GoesWithout(c, "take")
    /\ UNCHANGED <<slots, idle, closed, generation, contexts, ends>>

\* A mutant: what was launched while the pool closed is just dropped.
AbandonRunning(c, b) ==
    /\ At(c, "abandon") /\ client[c].has = {b} /\ GoesWithout(c, "leave")
    /\ UNCHANGED <<slots, poolVars, contexts, browser, ends>>

Abandon(c, b) ==
    /\ At(c, "abandon") /\ client[c].has = {b}
    /\ Ends(b) /\ GoesWithout(c, "leave")
    /\ UNCHANGED <<slots, poolVars, contexts, ends>>

\* The slot goes back last, on every path.
ReturnSlot(c) == /\ At(c, "leave") /\ Goes(c, "wait")
                 /\ slots' = slots + 1
                 /\ UNCHANGED <<poolVars, contexts, browser, ends>>

-----------------------------------------------------------------------------
\* Switch: the idle browsers of the old image are closed without a slot.
Switch ==
    /\ generation < MaxGeneration /\ retiring = <<>>
    /\ generation' = generation + 1 /\ retiring' = idle /\ idle' = <<>>
    /\ UNCHANGED <<slots, live, closed, contexts, browser, client, closer>>

CloseRetired ==
    /\ retiring # <<>>
    /\ Ends(Head(retiring)) /\ live' = live - 1 /\ retiring' = Tail(retiring)
    /\ UNCHANGED <<slots, idle, closed, generation, contexts, client, closer>>

\* Close
StartClose ==
    /\ closer.at = "rest" /\ closed' = TRUE /\ closer' = [closer EXCEPT !.at = "drain"]
    /\ UNCHANGED <<slots, idle, live, generation, contexts, browser, client, retiring>>

\* It takes the slots one by one, and keeps them.
Drain ==
    /\ closer.at = "drain" /\ slots > 0 /\ closer.took < Size
    /\ slots' = slots - 1 /\ closer' = [closer EXCEPT !.took = @ + 1]
    /\ UNCHANGED <<poolVars, contexts, browser, client, retiring>>

\* A mutant: it does not wait for the slots.
TakeIdleAtOnce ==
    /\ closer.at = "drain"
    /\ closer' = [closer EXCEPT !.at = "close", !.closes = idle] /\ idle' = <<>>
    /\ UNCHANGED <<slots, live, closed, generation, contexts, browser, client, retiring>>

TakeIdle ==
    /\ closer.at = "drain" /\ closer.took = Size
    /\ closer' = [closer EXCEPT !.at = "close", !.closes = idle] /\ idle' = <<>>
    /\ UNCHANGED <<slots, live, closed, generation, contexts, browser, client, retiring>>

CloseIdle ==
    /\ closer.at = "close" /\ closer.closes # <<>>
    /\ Ends(Head(closer.closes)) /\ live' = live - 1
    /\ closer' = [closer EXCEPT !.closes = Tail(@)]
    /\ UNCHANGED <<slots, idle, closed, generation, contexts, client, retiring>>

FinishClose ==
    /\ closer.at = "close" /\ closer.closes = <<>>
    /\ closer' = [closer EXCEPT !.at = "done"]
    /\ UNCHANGED <<slots, poolVars, contexts, browser, client, retiring>>

-----------------------------------------------------------------------------
\* What a client does once it has a slot, and what ends a scan.
Works(c) ==
    \/ Take(c) \/ LaunchFails(c) \/ Join(c) \/ Release(c) \/ ReturnSlot(c)
    \/ \E b \in Browsers : \/ Vet(c, b) \/ Check(c, b) \/ Launch(c, b) \/ Open(c, b) \/ Discard(c, b)
                           \/ Put(c, b) \/ CloseReturned(c, b) \/ Recycle(c, b) \/ Abandon(c, b)
ClientNext(c) == TakeSlot(c) \/ Works(c)
CloserNext == StartClose \/ Drain \/ TakeIdle \/ CloseIdle \/ FinishClose

Next == \/ \E c \in Clients : ClientNext(c)
        \/ Switch \/ CloseRetired \/ CloserNext

Spec == Init /\ [][Next]_vars

\* Launches, checks, closes and scans are bounded by timeouts, so a client goes on; waiting
\* receivers of a channel are served in their order, so no one of them is passed over forever.
Fairness ==
    /\ \A c \in Clients : WF_vars(Works(c)) /\ SF_vars(TakeSlot(c))
    /\ WF_vars(CloseRetired) /\ SF_vars(Drain) /\ WF_vars(TakeIdle \/ CloseIdle \/ FinishClose)
FairSpec == Spec /\ Fairness

-----------------------------------------------------------------------------
(* live counts the browsers that are idle, leased or being closed, and each  *)
(* of them is in one place: no browser is closed twice, none is forgotten.   *)
LiveIsTrue ==
    /\ live = Cardinality(Held) + Len(idle) + Len(retiring) + Len(closer.closes)
    /\ Cardinality(Held \cup Elsewhere) = live

(* put compares the generation under the lock that guards the idle stack, so *)
(* a browser a scan gave back after a switch is never kept for another one.  *)
IdleIsCurrent == \A b \in ToSet(idle) : browser[b].gen = generation

(* When Close returns, nothing is there of any browser the pool had, the one *)
(* that was being launched when it began included, but for three things: the *)
(* browsers Switch is still closing, what a failed launch left, and what     *)
(* refused to be removed.  The comments promise more than the code does:     *)
(* pool.go:391 "no Chrome process and no profile directory is left behind",  *)
(* browser.go:619 "removed on every exit path, including a failed launch".   *)
NoneOutlivesClose ==
    closer.at = "done" =>
        \A b \in Browsers : \/ browser[b].state = "none"
                           \/ b \in ToSet(retiring)
                           \/ browser[b].state \in Left

(* A scan that waits for a browser gets its turn or finds the pool closing:  *)
(* every path gives its slot back.                                           *)
WaitersAreServed == \A c \in Clients : At(c, "wait") ~> (~At(c, "wait") \/ closed)

(* Close returns, whatever scans are doing when it is called.                *)
CloseReturns == closer.at = "drain" ~> closer.at = "done"

(* Nobody waits for ever, neither a scan for a slot nor Close for all.       *)
NobodyWaitsForEver == WaitersAreServed /\ CloseReturns

(* The pool keeps the promise of Leases.  A scan has a browser from the time *)
(* its context is open; the pool has shut once it has every slot.            *)
Promise == INSTANCE Leases WITH
    serves <- [c \in Clients |-> IF At(c, "scan") THEN client[c].has ELSE {}],
    used <- {b \in Browsers : browser[b].scans > 0},
    separates <- contexts,
    shut <- closer.at \in {"close", "done"}
LeasesAreKept == Promise!Spec
================================================================================
