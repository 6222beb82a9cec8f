----------------------------- MODULE Notifications -----------------------------
(***************************************************************************)
(* From a finished scan to a delivered alert (internal/daemon publish,     *)
(* internal/diff FlapSuppressor, internal/notify Dispatcher, and the end   *)
(* of the process in cmd/wsaw supervise).                                  *)
(*                                                                         *)
(* Every scan goroutine filters the changes of its scan through the one    *)
(* flap suppressor and queues an event per change, then one for the whole  *)
(* scan.  One worker takes events off the bounded queue and posts each to  *)
(* the notifiers that want it.  The suppressor has no lock: Filter is a    *)
(* read and a write here, and two goroutines in it may race or bring the   *)
(* process down, as concurrent access to a Go map does.                    *)
(***************************************************************************)
EXTENDS Naturals, Sequences, FiniteSets

CONSTANTS
    Scans,          \* the scans whose outcome may be published
    Subjects,       \* what can change: the identity keyOf gives a change
    Webhooks,       \* notifiers of single changes, numbered in their order
    Channels,       \* notifiers of whole scans, numbered in their order
    Wanted,         \* [Webhooks \cup Channels -> SUBSET Subjects]: the severity and type filters
    Dropping,       \* notifiers whose confidence gate drops what is below it
    QueueSize,      \* DispatcherOptions.QueueSize
    MaxRetries,     \* attempts of one delivery
    Window,         \* ticks of the flap window
    MaxTicks        \* bound on the ticks of a behaviour

Notifiers == Webhooks \cup Channels
Whole == "scan"

ASSUME SubjectsAssumption == Scans # {} /\ Whole \notin Subjects
ASSUME NotifiersAssumption ==
    /\ Notifiers \subseteq Nat /\ IsFiniteSet(Notifiers) /\ Webhooks \cap Channels = {}
    /\ Wanted \in [Notifiers -> SUBSET Subjects] /\ Dropping \subseteq Notifiers
ASSUME BoundsAssumption == /\ QueueSize \in Nat \ {0} /\ MaxRetries \in Nat \ {0}
                           /\ Window \in Nat \ {0} /\ MaxTicks \in Nat

VARIABLES
    phase,      \* "running", "stopping" (runCtx is cancelled), "exited", "faulted"
    errored,    \* errCh holds the error of a component
    scan,       \* what each scan goroutine is at, and its outcome
    seen,       \* FlapSuppressor.seen: ticks since an identity was emitted, up to Window
    queue,      \* Dispatcher.queue
    worker,     \* the delivery worker
    ticks,
    published,  \* history: events given to enqueue
    dropped,    \* history: events a full queue refused, counted by onFailed
    settled     \* history: what became of each delivery, counted by its callback

scanVars == <<scan, seen>>
sendVars == <<queue, worker>>
histVars == <<published, dropped, settled>>
vars == <<phase, errored, scanVars, sendVars, ticks, histVars>>

Unseen == Window + 1

Event == [scan: Scans, what: Subjects \cup {Whole}]
NoEvent == [scan |-> CHOOSE s \in Scans : TRUE, what |-> Whole]

\* An outcome: the changes of its diff, and how far the scan can be trusted:
\* fully, below the confidence thresholds, with a caveat of its own, or not at
\* all, because it failed and observed nothing.
Trust == {"full", "low", "caveat", "nothing"}
Outcome == [changes: SUBSET Subjects, trust: Trust]
Outcomes == {o \in Outcome : o.trust = "nothing" => o.changes = {}}
NoOutcome == [changes |-> {}, trust |-> "full"]

Delivery == [event: Event, notifier: Notifiers, how: {"sent", "failed", "held"}]

Places == {"idle", "scanning", "filter", "filtering", "queue", "done"}
Filtering == {s \in Scans : scan[s].at = "filtering"}

Elements(seq) == {seq[i] : i \in 1 .. Len(seq)}

-----------------------------------------------------------------------------
Init == /\ phase = "running" /\ errored = FALSE
        /\ scan = [s \in Scans |-> [at |-> "idle", outcome |-> NoOutcome, emit |-> {}, sent |-> {},
                                 when |-> 0]]
        /\ seen = [c \in Subjects |-> Unseen]
        /\ queue = <<>>
        /\ worker = [at |-> "select", draining |-> FALSE, expired |-> FALSE,
                     event |-> NoEvent, todo |-> {}, attempt |-> 0]
        /\ ticks = 0
        /\ published = {} /\ dropped = {} /\ settled = {}

Alive == phase \in {"running", "stopping"}
At(s, place) == scan' = [scan EXCEPT ![s].at = place]

\* The scheduler starts scans until it is told to stop; one that runs then may
\* still finish in the grace period.
StartScan(s) ==
    /\ phase = "running" /\ scan[s].at = "idle"
    /\ At(s, "scanning")
    /\ UNCHANGED <<phase, errored, seen, sendVars, ticks, histVars>>

\* publish: without changes there is nothing to filter.
FinishScan(s, o) ==
    /\ Alive /\ scan[s].at = "scanning"
    /\ scan' = [scan EXCEPT ![s] = [@ EXCEPT !.at = IF o.changes = {} THEN "queue" ELSE "filter",
                                             !.outcome = o]]
    /\ UNCHANGED <<phase, errored, seen, sendVars, ticks, histVars>>

\* FlapSuppressor.Filter, up to its last look at the map ...
FilterReads(s) ==
    /\ Alive /\ scan[s].at = "filter"
    /\ scan' = [scan EXCEPT ![s] =
                  [@ EXCEPT !.at = "filtering",
                            !.emit = {c \in scan[s].outcome.changes : seen[c] >= Window}]]
    /\ UNCHANGED <<phase, errored, seen, sendVars, ticks, histVars>>

\* A mutant: what is suppressed is remembered anew.
FilterRemembersAll(s) ==
    /\ Alive /\ scan[s].at = "filtering"
    /\ scan' = [scan EXCEPT ![s] = [@ EXCEPT !.at = "queue", !.when = ticks]]
    /\ seen' = [c \in Subjects |-> IF c \in scan[s].outcome.changes THEN 0 ELSE seen[c]]
    /\ UNCHANGED <<phase, errored, sendVars, ticks, histVars>>

\* ... and its writes: what is emitted is remembered.
FilterWrites(s) ==
    /\ Alive /\ scan[s].at = "filtering"
    /\ scan' = [scan EXCEPT ![s] = [@ EXCEPT !.at = "queue", !.when = ticks]]
    /\ seen' = [c \in Subjects |-> IF c \in scan[s].emit THEN 0 ELSE seen[c]]
    /\ UNCHANGED <<phase, errored, sendVars, ticks, histVars>>

\* A mutant: the scan's own event may come before its changes.
ToQueueUnordered(s) ==
    {[scan |-> s, what |-> c] : c \in scan[s].emit \ scan[s].sent}
    \cup {[scan |-> s, what |-> Whole] : n \in {m \in Channels : Whole \notin scan[s].sent}}

\* The events of an outcome that are not yet queued, changes before the scan.
Remaining(s) ==
    {[scan |-> s, what |-> c] : c \in scan[s].emit \ scan[s].sent}
WholeOf(s) == [scan |-> s, what |-> Whole]
ToQueue(s) ==
    IF Remaining(s) # {} THEN Remaining(s)
    ELSE IF Channels # {} /\ Whole \notin scan[s].sent THEN {WholeOf(s)} ELSE {}

\* A mutant: what a full queue refuses goes unreported.
EnqueueSilently(s) ==
    /\ Alive /\ scan[s].at = "queue"
    /\ \E e \in ToQueue(s) :
          /\ queue' = IF Len(queue) < QueueSize THEN Append(queue, e) ELSE queue
          /\ published' = published \cup {e}
          /\ scan' = [scan EXCEPT ![s].sent = @ \cup {e.what}]
    /\ UNCHANGED <<phase, errored, seen, worker, ticks, dropped, settled>>

\* Dispatcher.Publish queues one event and never waits for room.
Enqueue(s) ==
    /\ Alive /\ scan[s].at = "queue"
    /\ \E e \in ToQueue(s) :
          /\ \/ Len(queue) < QueueSize /\ queue' = Append(queue, e) /\ UNCHANGED dropped
             \/ Len(queue) = QueueSize /\ dropped' = dropped \cup {e} /\ UNCHANGED queue
          /\ published' = published \cup {e}
          /\ scan' = [scan EXCEPT ![s].sent = @ \cup {e.what}]
    /\ UNCHANGED <<phase, errored, seen, worker, ticks, settled>>

Published(s) ==
    /\ Alive /\ scan[s].at = "queue" /\ ToQueue(s) = {}
    /\ At(s, "done")
    /\ UNCHANGED <<phase, errored, seen, sendVars, ticks, histVars>>

-----------------------------------------------------------------------------
(* The delivery worker.                                                    *)

\* Webhook.Wants: the changes of the modes, types and severities it asks for.
Wants(n, e) == e.what \in Wanted[n]

\* A webhook takes changes, a channel takes a scan with one that it asks for, and
\* every scan that cannot be trusted (wantsScanEvent).
WantedBy(e) ==
    IF e.what = Whole
    THEN {n \in Channels : \/ scan[e.scan].outcome.trust \in {"caveat", "nothing"}
                           \/ scan[e.scan].emit \cap Wanted[n] # {}}
    ELSE {n \in Webhooks : Wants(n, e)}

\* ConfidenceGate.drops: no threshold holds back a scan that observed nothing.
Drops(n, e) == n \in Dropping /\ scan[e.scan].outcome.trust = "low"

\* The worker takes the next event; a cancelled context does not keep its
\* select from choosing the queue.
Take ==
    /\ Alive /\ worker.at = "select" /\ queue # <<>>
    /\ queue' = Tail(queue)
    /\ worker' = [worker EXCEPT !.at = "deliver", !.event = Head(queue),
                                !.todo = WantedBy(Head(queue)), !.attempt = 0]
    /\ UNCHANGED <<phase, errored, scanVars, ticks, histVars>>

\* fanOut goes through the notifiers in their order.
IsNext(n) == n \in worker.todo /\ \A m \in worker.todo : n <= m

Settle(n, how) ==
    /\ settled' = settled \cup {[event |-> worker.event, notifier |-> n, how |-> how]}
    /\ worker' = [worker EXCEPT !.todo = @ \ {n}, !.attempt = 0]

HoldBack(n) ==
    /\ Alive /\ worker.at = "deliver"
    /\ IsNext(n) /\ Drops(n, worker.event)
    /\ Settle(n, "held")
    /\ UNCHANGED <<phase, errored, scanVars, queue, ticks, published, dropped>>

\* A mutant: the last attempt's failure is not returned.
PostNeverFails(n) ==
    /\ Alive /\ worker.at = "deliver"
    /\ IsNext(n) /\ ~Drops(n, worker.event)
    /\ \/ ~worker.expired /\ Settle(n, "sent")
       \/ /\ worker' = [worker EXCEPT !.todo = @ \ {n}, !.attempt = 0]
          /\ UNCHANGED settled
    /\ UNCHANGED <<phase, errored, scanVars, queue, ticks, published, dropped>>

\* post, retryable: a 2xx, no answer or one that may change (429, 5xx), or one that
\* will not.
Answers == {"accepted", "passing", "final"}
\* An expired drain budget cuts the backoff short.
TriesAgain(answer) == answer = "passing" /\ ~worker.expired /\ worker.attempt + 1 < MaxRetries

\* retryPost
Post(n) ==
    /\ Alive /\ worker.at = "deliver"
    /\ IsNext(n) /\ ~Drops(n, worker.event)
    /\ \E answer \in Answers :
          \/ answer = "accepted" /\ ~worker.expired /\ Settle(n, "sent")
          \/ answer # "accepted" /\ ~TriesAgain(answer) /\ Settle(n, "failed")
          \/ /\ TriesAgain(answer) /\ worker' = [worker EXCEPT !.attempt = @ + 1]
             /\ UNCHANGED settled
    /\ UNCHANGED <<phase, errored, scanVars, queue, ticks, published, dropped>>

\* The event is done with; a cancelled context is looked at again before the queue.
Delivered ==
    /\ Alive /\ worker.at = "deliver" /\ worker.todo = {}
    /\ worker' = [worker EXCEPT !.at = "select", !.event = NoEvent,
                                !.draining = @ \/ phase = "stopping"]
    /\ UNCHANGED <<phase, errored, scanVars, queue, ticks, histVars>>

\* The select chooses ctx.Done.
Drain ==
    /\ phase = "stopping" /\ worker.at = "select" /\ ~worker.draining
    /\ worker' = [worker EXCEPT !.draining = TRUE]
    /\ UNCHANGED <<phase, errored, scanVars, queue, ticks, histVars>>

DrainBudgetExpires ==
    /\ phase = "stopping" /\ worker.draining /\ ~worker.expired /\ worker.at # "done"
    /\ worker' = [worker EXCEPT !.expired = TRUE]
    /\ UNCHANGED <<phase, errored, scanVars, queue, ticks, histVars>>

\* A mutant: the drain waits for more to come.
DrainedWhenAllPublished ==
    /\ phase = "stopping" /\ worker.at = "select" /\ worker.draining
    /\ queue = <<>> /\ \A s \in Scans : scan[s].at = "done"
    /\ worker' = [worker EXCEPT !.at = "done"]
    /\ UNCHANGED <<phase, errored, scanVars, queue, ticks, histVars>>

\* An empty queue ends the drain, and the worker.
Drained ==
    /\ phase = "stopping" /\ worker.at = "select" /\ worker.draining /\ queue = <<>>
    /\ worker' = [worker EXCEPT !.at = "done"]
    /\ UNCHANGED <<phase, errored, scanVars, queue, ticks, histVars>>

-----------------------------------------------------------------------------
(* The process.                                                            *)

\* A signal cancels runCtx, as the failure of the server does.
Stop == /\ phase = "running"
        /\ phase' = "stopping" /\ errored' \in BOOLEAN
        /\ UNCHANGED <<scanVars, sendVars, ticks, histVars>>

ScansAreOver == \A s \in Scans : scan[s].at \in {"idle", "done"}

\* The daemon waits for its scans and prunes the suppressor; supervise waits for
\* the daemon and then for the worker; when it takes the
\* error of a component first, it does not wait for the worker.
Exit == /\ phase = "stopping" /\ ScansAreOver
        /\ errored \/ worker.at = "done"
        /\ phase' = "exited"
        /\ seen' = [c \in Subjects |-> IF seen[c] = Window THEN Unseen ELSE seen[c]]
        /\ UNCHANGED <<errored, scan, sendVars, ticks, histVars>>

\* Two goroutines in the map at once: the runtime may end the process.
MapFault ==
    /\ Alive /\ Cardinality(Filtering) > 1
    /\ phase' = "faulted"
    /\ UNCHANGED <<errored, scanVars, sendVars, ticks, histVars>>

\* Time passes, not during a Filter.
Tick == /\ Alive /\ Filtering = {}
        /\ ticks < MaxTicks
        /\ ticks' = ticks + 1
        /\ seen' = [c \in Subjects |-> IF seen[c] < Window THEN seen[c] + 1 ELSE seen[c]]
        /\ UNCHANGED <<phase, errored, scan, sendVars, histVars>>

Publishing(s) == FilterReads(s) \/ FilterWrites(s) \/ Enqueue(s) \/ Published(s)

Deliver == \/ Take \/ \E n \in Notifiers : HoldBack(n) \/ Post(n)
           \/ Delivered \/ Drain \/ DrainBudgetExpires \/ Drained

Next == \/ \E s \in Scans : StartScan(s) \/ \E o \in Outcomes : FinishScan(s, o)
        \/ \E s \in Scans : Publishing(s)
        \/ Deliver
        \/ Stop \/ Exit \/ MapFault \/ Tick

Spec == Init /\ [][Next]_vars

\* Goroutines run on; that a scan ends is the scheduler's promise.
FairSpec == Spec /\ \A s \in Scans : /\ WF_vars(\E o \in Outcomes : FinishScan(s, o))
                                     /\ WF_vars(Publishing(s))

\* No notifier hangs for ever, and time passes.  It is no part of FairSpec, since
\* scans must not depend on it.
WorkerRuns == WF_vars(Deliver) /\ WF_vars(Drain) /\ WF_vars(Exit) /\ WF_vars(Tick)

-----------------------------------------------------------------------------
TypeOK ==
    /\ phase \in {"running", "stopping", "exited", "faulted"} /\ errored \in BOOLEAN
    /\ scan \in [Scans -> [at: Places, outcome: Outcomes, emit: SUBSET Subjects,
                           sent: SUBSET (Subjects \cup {Whole}), when: 0 .. MaxTicks]]
    /\ seen \in [Subjects -> 0 .. Unseen]
    /\ queue \in Seq(Event) /\ Len(queue) <= QueueSize
    /\ worker \in [at: {"select", "deliver", "done"}, draining: BOOLEAN, expired: BOOLEAN,
                   event: Event, todo: SUBSET Notifiers, attempt: 0 .. MaxRetries - 1]
    /\ ticks \in 0 .. MaxTicks
    /\ published \subseteq Event /\ dropped \subseteq Event /\ settled \subseteq Delivery

\* While the process lives no event is lost or settled twice: at every notifier
\* that wants it, an event given to the dispatcher has exactly one fate.  It waits
\* in the queue, is in the worker's hands, was refused by the full queue and
\* counted, or was sent, failed or held back, and counted (enqueue, fanOut).
Ends(e, n) == {d \in settled : d.event = e /\ d.notifier = n}
InHand(e, n) == worker.at = "deliver" /\ worker.event = e /\ n \in worker.todo
Fates(e, n) == Cardinality(Ends(e, n)) + Cardinality({i \in 1 .. Len(queue) : queue[i] = e})
               + (IF e \in dropped THEN 1 ELSE 0) + (IF InHand(e, n) THEN 1 ELSE 0)
Accounted == \A e \in published : \A n \in WantedBy(e) : Fates(e, n) = 1

\* The message about a whole scan ends after everything about its changes, so a
\* channel and a webhook of one scan never tell their stories in the other order
\* (Publish, one queue).
WholeScanLast ==
    \A d \in settled : d.event.what = Whole =>
        \A e \in published : e.scan = d.event.scan /\ e # d.event =>
            e \notin Elements(queue) /\ \A n \in Notifiers : ~InHand(e, n)

\* A change is suppressed only for a window after it was last reported: what is
\* suppressed does not prolong its own silence, so a change that stays is
\* reported once a window (Filter).
SilenceFollowsReport ==
    \A c \in Subjects : seen[c] < Window =>
        \E s \in Scans : c \in scan[s].emit /\ scan[s].when + seen[c] = ticks

\* Every event given to the dispatcher ends at every notifier that wants it,
\* unless the process is gone first, while the worker runs.
Over == phase \in {"exited", "faulted"}
SettledOrOver(e) == Over \/ e \in dropped \/ \A n \in WantedBy(e) : Ends(e, n) # {}
EventsAreSettled == WorkerRuns => \A e \in Event : e \in published ~> SettledOrOver(e)

\* A process told to stop stops, through the drain, while the worker runs.
DrainCompletes == WorkerRuns => (phase = "stopping" ~> Over)
================================================================================
