-------------------------- MODULE NotificationsProofs --------------------------
(* What Notifications keeps for every number of scans, changes and notifiers, *)
(* every queue, retry and window: no event is lost or settled twice, the      *)
(* message about a whole scan ends last, and silence follows a report.        *)
EXTENDS Notifications, TLAPS, FiniteSetTheorems, SequenceTheorems

-----------------------------------------------------------------------------
(* The inductive invariant.                                                   *)

\* The worker has taken event e off the queue and is not done with it.
Held(e) == worker.at = "deliver" /\ worker.event = e

\* A scan emits after it was filtered, and what it emits is queued after that.
Unpublished == \A s \in Scans :
    /\ scan[s].at \in {"idle", "scanning", "filter"} => scan[s].emit = {}
    /\ scan[s].at \notin {"queue", "done"} => scan[s].sent = {}
\* What was given to the dispatcher is what the scans' goroutines remember.
Recorded == published = {e \in Event : e.what \in scan[e.scan].sent}
\* An event is in one place: once in the queue, or with the worker, or refused.
Apart ==
    /\ \A i, j \in 1 .. Len(queue) : queue[i] = queue[j] => i = j
    /\ \A i \in 1 .. Len(queue) : queue[i] \in published /\ queue[i] \notin dropped /\ ~Held(queue[i])
    /\ dropped \subseteq published /\ \A e \in dropped : ~Held(e)
    /\ worker.at = "deliver" => worker.event \in published
\* What is settled is settled for good, once at each notifier, and whoever wants an
\* event that is nowhere has had it.
Fated ==
    /\ \A d \in settled : /\ d.event \in published \ dropped /\ ~InHand(d.event, d.notifier)
                          /\ \A i \in 1 .. Len(queue) : queue[i] # d.event
    /\ \A d, f \in settled : d.event = f.event /\ d.notifier = f.notifier => d = f
    /\ \A e \in published : \A n \in WantedBy(e) :
          (\E i \in 1 .. Len(queue) : queue[i] = e) \/ e \in dropped \/ InHand(e, n) \/ Ends(e, n) # {}
\* A scan's own event comes after its changes, in the queue and beyond it.
InOrder ==
    /\ \A s \in Scans : Whole \in scan[s].sent => scan[s].emit \subseteq scan[s].sent
    /\ \A i, j \in 1 .. Len(queue) :
          queue[i].what = Whole /\ queue[j].scan = queue[i].scan => j <= i
    /\ worker.at = "deliver" /\ worker.event.what = Whole =>
          \A i \in 1 .. Len(queue) : queue[i].scan # worker.event.scan
    /\ \A d \in settled : d.event.what = Whole =>
          /\ \A i \in 1 .. Len(queue) : queue[i].scan # d.event.scan
          /\ worker.at = "deliver" /\ worker.event.scan = d.event.scan => worker.event = d.event

\* The types of a scan goroutine and of the worker.
ScanType == [at: Places, outcome: Outcomes, emit: SUBSET Subjects,
             sent: SUBSET (Subjects \cup {Whole}), when: 0 .. MaxTicks]
WorkerType == [at: {"select", "deliver", "done"}, draining: BOOLEAN, expired: BOOLEAN,
               event: Event, todo: SUBSET Notifiers, attempt: 0 .. MaxRetries - 1]

\* Neither Accounted nor WholeScanLast is inductive: both say what has become of an
\* event and rest on where it is and on what follows it.
IInv == TypeOK /\ Unpublished /\ Recorded /\ Apart /\ Fated /\ InOrder /\ SilenceFollowsReport

-----------------------------------------------------------------------------
(* Types, and what a step that moves no event leaves alone.                   *)

\* The type invariant with its records named.
LEMMA Types ==
    TypeOK <=> /\ phase \in {"running", "stopping", "exited", "faulted"} /\ errored \in BOOLEAN
               /\ scan \in [Scans -> ScanType] /\ seen \in [Subjects -> 0 .. Unseen]
               /\ queue \in Seq(Event) /\ Len(queue) <= QueueSize
               /\ worker \in WorkerType /\ ticks \in 0 .. MaxTicks
               /\ published \subseteq Event /\ dropped \subseteq Event /\ settled \subseteq Delivery
BY DEF TypeOK, ScanType, WorkerType

\* The bounds are numbers, and the worker's resting place is an event.
LEMMA Bounds ==
    /\ Unseen \in Nat /\ Window \in Nat \ {0} /\ Unseen = Window + 1 /\ MaxTicks \in Nat
    /\ QueueSize \in Nat \ {0} /\ MaxRetries \in Nat \ {0} /\ NoEvent \in Event
<1>1. (CHOOSE s \in Scans : TRUE) \in Scans
  BY SubjectsAssumption
<1>2. QED
  BY <1>1, BoundsAssumption DEF Unseen, NoEvent, Event

\* What a scan's record holds.
LEMMA ScanFields ==
    ASSUME NEW r \in ScanType
    PROVE  /\ r.at \in Places /\ r.outcome \in Outcomes /\ r.emit \subseteq Subjects
           /\ r.sent \subseteq Subjects \cup {Whole} /\ r.when \in 0 .. MaxTicks
           /\ \A place \in Places : [r EXCEPT !.at = place] \in ScanType
BY DEF ScanType

\* A step of one scan goroutine leaves the others alone.
LEMMA Steps ==
    ASSUME IInv, NEW s \in Scans, NEW r \in ScanType, scan' = [scan EXCEPT ![s] = r]
    PROVE  /\ scan' \in [Scans -> ScanType] /\ scan'[s] = r
           /\ \A t \in Scans \ {s} : scan'[t] = scan[t]
<1>1. scan \in [Scans -> ScanType]
  BY Types DEF IInv
<1>2. QED
  BY <1>1

\* Events stay where they are when queue and worker do, since an outcome is fixed
\* before the first of its events is queued.
LEMMA MailRests ==
    ASSUME IInv, UNCHANGED <<queue, published, dropped, settled>>, worker' \in WorkerType,
           worker'.at = "deliver" <=> worker.at = "deliver",
           worker'.event = worker.event, worker'.todo = worker.todo,
           \A s \in Scans : scan'[s].sent = scan[s].sent,
           \A s \in Scans : scan[s].sent # {} => scan'[s].emit = scan[s].emit /\ scan'[s].outcome = scan[s].outcome
    PROVE  Recorded' /\ Apart' /\ Fated' /\ InOrder'
<1>0. TypeOK /\ Recorded /\ Apart /\ Fated /\ InOrder
  BY DEF IInv
<1>1. \A e \in Event : e.scan \in Scans
  BY DEF Event
<1>2. Recorded'
  BY <1>0, <1>1 DEF Recorded
<1>3. \A e : Held(e)' <=> Held(e)
  BY DEF Held
<1>4. Apart'
  BY <1>0, <1>3 DEF Apart
<1>5. \A e, n : (InHand(e, n)' <=> InHand(e, n)) /\ Ends(e, n)' = Ends(e, n)
  BY DEF InHand, Ends
<1>6. \A e \in published : WantedBy(e)' = WantedBy(e)
  BY <1>0, <1>1 DEF Recorded, WantedBy, Wants
<1>7. Fated'
  BY <1>0, <1>5, <1>6 DEF Fated
<1>8. InOrder'
  <2>1. \A s \in Scans : Whole \in scan'[s].sent => scan'[s].emit \subseteq scan'[s].sent
    BY <1>0 DEF InOrder
  <2>2. QED
    BY <1>0, <2>1 DEF InOrder
<1>9. QED
  BY <1>2, <1>4, <1>7, <1>8

\* No report is forgotten by a step that leaves the suppressor and the clock alone.
LEMMA SilenceRests ==
    ASSUME IInv, UNCHANGED <<seen, ticks>>,
           \A s \in Scans : scan'[s].when = scan[s].when,
           \A s \in Scans : scan[s].emit \subseteq scan'[s].emit
    PROVE  SilenceFollowsReport'
BY DEF IInv, SilenceFollowsReport

-----------------------------------------------------------------------------
(* Scan goroutines.                                                           *)

\* A scan that starts, ends or has queued all of its events keeps the invariant.
LEMMA ScanStarts ==
    ASSUME IInv, NEW s \in Scans, StartScan(s) \/ Published(s) \/ \E o \in Outcomes : FinishScan(s, o)
    PROVE  IInv'
<1>0. TypeOK /\ Unpublished /\ scan[s] \in ScanType /\ worker \in WorkerType
  BY Types DEF IInv
<1>1. PICK r \in ScanType :
         /\ scan' = [scan EXCEPT ![s] = r]
         /\ r.emit = scan[s].emit /\ r.sent = scan[s].sent /\ r.when = scan[s].when
         /\ r.outcome = scan[s].outcome \/ scan[s].at = "scanning"
         /\ \/ r.at \in {"scanning", "filter"} /\ scan[s].at \in {"idle", "scanning"}
            \/ r.at = "queue" /\ scan[s].at = "scanning"
            \/ r.at = "done" /\ scan[s].at = "queue"
  <2>1. CASE StartScan(s)
    <3> DEFINE r == [scan[s] EXCEPT !.at = "scanning"]
    <3>1. r \in ScanType /\ r.at = "scanning" /\ r.emit = scan[s].emit /\ r.sent = scan[s].sent
          /\ r.when = scan[s].when /\ r.outcome = scan[s].outcome
      BY <1>0 DEF ScanType, Places
    <3>2. scan' = [scan EXCEPT ![s] = r] /\ scan[s].at = "idle"
      BY <2>1 DEF StartScan, At
    <3> HIDE DEF r
    <3>3. QED
      BY <3>1, <3>2
  <2>2. CASE Published(s)
    <3> DEFINE r == [scan[s] EXCEPT !.at = "done"]
    <3>1. r \in ScanType /\ r.at = "done" /\ r.emit = scan[s].emit /\ r.sent = scan[s].sent
          /\ r.when = scan[s].when /\ r.outcome = scan[s].outcome
      BY <1>0 DEF ScanType, Places
    <3>2. scan' = [scan EXCEPT ![s] = r] /\ scan[s].at = "queue"
      BY <2>2 DEF Published, At
    <3> HIDE DEF r
    <3>3. QED
      BY <3>1, <3>2
  <2>3. CASE \E o \in Outcomes : FinishScan(s, o)
    <3> PICK o \in Outcomes : FinishScan(s, o)
      BY <2>3
    <3> DEFINE place == IF o.changes = {} THEN "queue" ELSE "filter"
               r == [scan[s] EXCEPT !.at = place, !.outcome = o]
    <3>1. r \in ScanType /\ r.at = place /\ r.emit = scan[s].emit /\ r.sent = scan[s].sent
          /\ r.when = scan[s].when
      BY <1>0 DEF ScanType, Places
    <3>2. scan' = [scan EXCEPT ![s] = r] /\ scan[s].at = "scanning"
      BY DEF FinishScan
    <3>3. place \in {"queue", "filter"}
      OBVIOUS
    <3> HIDE DEF r, place
    <3>4. QED
      BY <3>1, <3>2, <3>3
  <2>4. QED
    BY <2>1, <2>2, <2>3
<1>2. UNCHANGED <<phase, errored, seen, queue, worker, ticks, published, dropped, settled>>
  BY DEF StartScan, Published, FinishScan, sendVars, histVars
<1>3. /\ scan' \in [Scans -> ScanType] /\ scan'[s] = r
      /\ \A t \in Scans \ {s} : scan'[t] = scan[t]
  BY <1>1, Steps
<1>4. \A t \in Scans : scan'[t].emit = scan[t].emit /\ scan'[t].sent = scan[t].sent /\ scan'[t].when = scan[t].when
  BY <1>1, <1>3
<1>5. TypeOK'
  BY <1>0, <1>2, <1>3, Types DEF TypeOK, ScanType, WorkerType
<1>6. Unpublished'
  BY <1>0, <1>1, <1>3 DEF Unpublished
<1>7. \A t \in Scans : scan[t].sent # {} => scan'[t].outcome = scan[t].outcome
  BY <1>0, <1>1, <1>3 DEF Unpublished
<1>8. Recorded' /\ Apart' /\ Fated' /\ InOrder'
  BY <1>0, <1>2, <1>4, <1>7, MailRests
<1>9. SilenceFollowsReport'
  BY <1>2, <1>4, SilenceRests
<1>10. QED
  BY <1>5, <1>6, <1>8, <1>9 DEF IInv

\* Filter keeps the invariant, though its read and its write may be interleaved with
\* those of others.
LEMMA FilterKeeps ==
    ASSUME IInv, NEW s \in Scans, FilterReads(s) \/ FilterWrites(s)
    PROVE  IInv'
<1>0. TypeOK /\ Unpublished /\ scan[s] \in ScanType /\ scan[s].emit \subseteq Subjects /\ SilenceFollowsReport
      /\ seen \in [Subjects -> 0 .. Unseen] /\ ticks \in 0 .. MaxTicks /\ worker \in WorkerType
  BY Types, ScanFields DEF IInv
<1>1. UNCHANGED <<phase, errored, queue, worker, ticks, published, dropped, settled>>
  BY DEF FilterReads, FilterWrites, sendVars, histVars
<1>2. CASE FilterReads(s)
  <2> DEFINE emit == {c \in scan[s].outcome.changes : seen[c] >= Window}
             r == [scan[s] EXCEPT !.at = "filtering", !.emit = emit]
  <2>1. emit \subseteq Subjects
    BY <1>0, ScanFields DEF Outcomes, Outcome
  <2>2. scan' = [scan EXCEPT ![s] = r] /\ scan[s].at = "filter" /\ seen' = seen
    BY <1>2 DEF FilterReads
  <2> HIDE DEF emit
  <2>3. r \in ScanType /\ r.at = "filtering" /\ r.sent = scan[s].sent /\ r.when = scan[s].when
        /\ r.outcome = scan[s].outcome
    BY <1>0, <2>1 DEF ScanType, Places
  <2> HIDE DEF r
  <2>4. /\ scan' \in [Scans -> ScanType] /\ scan'[s] = r /\ \A t \in Scans \ {s} : scan'[t] = scan[t]
    BY <2>2, <2>3, Steps
  <2>5. scan[s].emit = {} /\ scan[s].sent = {}
    BY <1>0, <2>2 DEF Unpublished
  <2>6. TypeOK'
    BY <1>0, <1>1, <2>2, <2>4, Types DEF TypeOK, ScanType, WorkerType
  <2>7. Unpublished'
    BY <1>0, <2>3, <2>4, <2>5 DEF Unpublished
  <2>8. \A t \in Scans : scan'[t].sent = scan[t].sent /\ scan'[t].when = scan[t].when /\ scan[t].emit \subseteq scan'[t].emit
    BY <2>3, <2>4, <2>5
  <2>9. \A t \in Scans : scan[t].sent # {} => scan'[t].emit = scan[t].emit /\ scan'[t].outcome = scan[t].outcome
    BY <2>4, <2>5
  <2>10. Recorded' /\ Apart' /\ Fated' /\ InOrder'
    BY <1>0, <1>1, <2>8, <2>9, MailRests
  <2>11. SilenceFollowsReport'
    BY <1>1, <2>2, <2>8, SilenceRests
  <2>12. QED
    BY <2>6, <2>7, <2>10, <2>11 DEF IInv
<1>3. CASE FilterWrites(s)
  <2> DEFINE r == [scan[s] EXCEPT !.at = "queue", !.when = ticks]
  <2>1. scan' = [scan EXCEPT ![s] = r] /\ scan[s].at = "filtering"
        /\ seen' = [c \in Subjects |-> IF c \in scan[s].emit THEN 0 ELSE seen[c]]
    BY <1>3 DEF FilterWrites
  <2>2. r \in ScanType /\ r.at = "queue" /\ r.sent = scan[s].sent /\ r.when = ticks
        /\ r.outcome = scan[s].outcome /\ r.emit = scan[s].emit
    BY <1>0 DEF ScanType, Places
  <2> HIDE DEF r
  <2>3. /\ scan' \in [Scans -> ScanType] /\ scan'[s] = r /\ \A t \in Scans \ {s} : scan'[t] = scan[t]
    BY <2>1, <2>2, Steps
  <2>4. seen' \in [Subjects -> 0 .. Unseen]
    BY <1>0, <2>1, Bounds
  <2>5. TypeOK'
    BY <1>0, <1>1, <2>3, <2>4, Types DEF TypeOK, ScanType, WorkerType
  <2>6. Unpublished'
    BY <1>0, <2>2, <2>3 DEF Unpublished
  <2>7. \A t \in Scans : scan'[t].sent = scan[t].sent /\ scan'[t].emit = scan[t].emit /\ scan'[t].outcome = scan[t].outcome
    BY <2>2, <2>3
  <2>8. Recorded' /\ Apart' /\ Fated' /\ InOrder'
    BY <1>0, <1>1, <2>7, MailRests
  <2>9. SilenceFollowsReport'
    <3> SUFFICES ASSUME NEW c \in Subjects, seen'[c] < Window
                 PROVE  \E t \in Scans : c \in scan'[t].emit /\ scan'[t].when + seen'[c] = ticks'
      BY DEF SilenceFollowsReport
    <3>1. CASE c \in scan[s].emit
      <4>1. seen'[c] = 0 /\ scan'[s].when + 0 = ticks' /\ c \in scan'[s].emit
        BY <1>0, <1>1, <2>1, <2>2, <2>3, <3>1, Bounds
      <4>2. QED
        BY <4>1
    <3>2. CASE c \notin scan[s].emit
      <4>1. seen'[c] = seen[c]
        BY <2>1, <3>2
      <4>2. PICK t \in Scans : c \in scan[t].emit /\ scan[t].when + seen[c] = ticks
        BY <1>0, <4>1 DEF SilenceFollowsReport
      <4>3. t # s
        BY <3>2, <4>2
      <4>4. QED
        BY <1>1, <2>3, <4>1, <4>2, <4>3
    <3>3. QED
      BY <3>1, <3>2
  <2>10. QED
    BY <2>5, <2>6, <2>8, <2>9 DEF IInv
<1>4. QED
  BY <1>2, <1>3

\* Publish keeps the invariant, with room in the queue and without: what it queues
\* was nowhere before, and nothing follows the scan's own event.
LEMMA EnqueueKeeps ==
    ASSUME IInv, NEW s \in Scans, Enqueue(s)
    PROVE  IInv'
<1>0. /\ TypeOK /\ Unpublished /\ Recorded /\ Apart /\ Fated /\ InOrder /\ scan[s] \in ScanType
      /\ scan[s].emit \subseteq Subjects /\ scan[s].sent \subseteq Subjects \cup {Whole}
      /\ worker \in WorkerType /\ queue \in Seq(Event)
      /\ published \subseteq Event /\ dropped \subseteq Event /\ Len(queue) <= QueueSize
  BY Types, ScanFields DEF IInv
<1>1. PICK e \in ToQueue(s) :
          /\ \/ Len(queue) < QueueSize /\ queue' = Append(queue, e) /\ UNCHANGED dropped
             \/ Len(queue) = QueueSize /\ dropped' = dropped \cup {e} /\ UNCHANGED queue
          /\ published' = published \cup {e}
          /\ scan' = [scan EXCEPT ![s].sent = @ \cup {e.what}]
  BY DEF Enqueue
<1>2. scan[s].at = "queue" /\ UNCHANGED <<phase, errored, seen, worker, ticks, settled>>
  BY DEF Enqueue
<1>3. /\ e \in Event /\ e.scan = s /\ e.what \notin scan[s].sent
      /\ e.what = Whole => scan[s].emit \subseteq scan[s].sent
      /\ e.what # Whole => e.what \in scan[s].emit
  <2>1. CASE e \in Remaining(s)
    <3>1. PICK c \in scan[s].emit \ scan[s].sent : e = [scan |-> s, what |-> c]
      BY <2>1 DEF Remaining
    <3>2. c \in Subjects /\ c # Whole
      BY <1>0, <3>1, SubjectsAssumption
    <3>3. QED
      BY <3>1, <3>2 DEF Event
  <2>2. CASE e \notin Remaining(s)
    <3>1. Remaining(s) = {} /\ Whole \notin scan[s].sent /\ e = [scan |-> s, what |-> Whole]
      BY <1>1, <2>2 DEF ToQueue, WholeOf
    <3>2. scan[s].emit \subseteq scan[s].sent
      BY <3>1 DEF Remaining
    <3>3. QED
      BY <3>1, <3>2 DEF Event
  <2>3. QED
    BY <2>1, <2>2
<1> DEFINE r == [scan[s] EXCEPT !.sent = @ \cup {e.what}]
<1>4. r \in ScanType /\ r.at = "queue" /\ r.sent = scan[s].sent \cup {e.what} /\ r.emit = scan[s].emit
      /\ r.outcome = scan[s].outcome /\ r.when = scan[s].when
  BY <1>0, <1>2, <1>3 DEF ScanType, Event
<1>5. scan' = [scan EXCEPT ![s] = r]
  BY <1>1
<1> HIDE DEF r
<1>6. /\ scan' \in [Scans -> ScanType] /\ scan'[s] = r /\ \A t \in Scans \ {s} : scan'[t] = scan[t]
  BY <1>4, <1>5, Steps
<1>7. /\ \A t \in Scans : scan'[t].emit = scan[t].emit /\ scan'[t].outcome = scan[t].outcome /\ scan'[t].when = scan[t].when
      /\ \A t \in Scans \ {s} : scan'[t].sent = scan[t].sent
      /\ scan'[s].sent = scan[s].sent \cup {e.what}
  BY <1>4, <1>6
<1>8. e \notin published /\ \A d \in settled : d.event # e
  BY <1>0, <1>3 DEF Recorded, Fated
<1>9. /\ e \notin dropped /\ ~Held(e)
      /\ \A i \in 1 .. Len(queue) : queue[i] # e
  BY <1>0, <1>8 DEF Apart, Held
<1>10. Len(queue) \in Nat /\ \A i \in 1 .. Len(queue) : queue[i] \in Event
  BY <1>0, LenProperties, ElementOfSeq
<1>11. /\ queue' \in Seq(Event) /\ dropped' \subseteq Event /\ Len(queue') <= QueueSize
       /\ \/ /\ Len(queue') = Len(queue) + 1 /\ queue'[Len(queue) + 1] = e /\ dropped' = dropped
             /\ \A i \in 1 .. Len(queue) : queue'[i] = queue[i]
          \/ queue' = queue /\ dropped' = dropped \cup {e}
  <2>1. CASE Len(queue) < QueueSize /\ queue' = Append(queue, e) /\ UNCHANGED dropped
    <3>1. /\ queue' \in Seq(Event) /\ Len(queue') = Len(queue) + 1 /\ queue'[Len(queue) + 1] = e
          /\ \A i \in 1 .. Len(queue) : queue'[i] = queue[i]
      BY <1>0, <1>3, <2>1, AppendProperties
    <3>2. QED
      BY <1>0, <1>10, <2>1, <3>1, Bounds
  <2>2. CASE Len(queue) = QueueSize /\ dropped' = dropped \cup {e} /\ UNCHANGED queue
    BY <1>0, <1>3, <2>2
  <2>3. QED
    BY <1>1, <2>1, <2>2
<1>12. \A i \in 1 .. Len(queue') : \/ i \in 1 .. Len(queue) /\ queue'[i] = queue[i]
                                   \/ i = Len(queue) + 1 /\ queue'[i] = e
  BY <1>10, <1>11
<1>13. TypeOK'
  BY <1>0, <1>1, <1>2, <1>3, <1>6, <1>11, Types DEF TypeOK, ScanType, WorkerType
<1>14. Unpublished'
  BY <1>0, <1>2, <1>4, <1>6 DEF Unpublished
<1>15. Recorded'
  <2>1. \A f \in Event : f.what \in scan'[f.scan].sent <=> f.what \in scan[f.scan].sent \/ f = e
    BY <1>3, <1>7 DEF Event
  <2>2. QED
    BY <1>0, <1>1, <1>3, <2>1 DEF Recorded
<1>16. \A f : Held(f)' <=> Held(f)
  BY <1>2 DEF Held
<1>17. Apart'
  <2>1. \A i, j \in 1 .. Len(queue') : queue'[i] = queue'[j] => i = j
    BY <1>0, <1>9, <1>12 DEF Apart
  <2>2. \A i \in 1 .. Len(queue') : queue'[i] \in published' /\ queue'[i] \notin dropped' /\ ~Held(queue'[i])
    BY <1>0, <1>1, <1>9, <1>11, <1>12 DEF Apart
  <2>3. dropped' \subseteq published' /\ \A f \in dropped' : ~Held(f)
    BY <1>0, <1>1, <1>9, <1>11 DEF Apart
  <2>4. worker'.at = "deliver" => worker'.event \in published'
    BY <1>0, <1>1, <1>2 DEF Apart
  <2>5. QED
    BY <1>16, <2>1, <2>2, <2>3, <2>4 DEF Apart
<1>18. \A f, n : (InHand(f, n)' <=> InHand(f, n)) /\ Ends(f, n)' = Ends(f, n)
  BY <1>2 DEF InHand, Ends
<1>19. \A f \in Event : WantedBy(f)' = WantedBy(f)
  BY <1>7 DEF WantedBy, Wants, Event
<1>20. Fated'
  <2>1. ASSUME NEW d \in settled
        PROVE  /\ d.event \in published' \ dropped' /\ ~InHand(d.event, d.notifier)
               /\ \A i \in 1 .. Len(queue') : queue'[i] # d.event
    BY <1>0, <1>1, <1>8, <1>11, <1>12 DEF Fated
  <2>2. ASSUME NEW f \in published', NEW n \in WantedBy(f)
        PROVE  (\E i \in 1 .. Len(queue') : queue'[i] = f) \/ f \in dropped' \/ InHand(f, n) \/ Ends(f, n) # {}
    <3>1. CASE f = e
      BY <1>10, <1>11, <3>1
    <3>2. CASE f \in published
      <4>1. (\E i \in 1 .. Len(queue) : queue[i] = f) \/ f \in dropped \/ InHand(f, n) \/ Ends(f, n) # {}
        BY <1>0, <3>2 DEF Fated
      <4>2. \A i \in 1 .. Len(queue) : i \in 1 .. Len(queue') /\ queue'[i] = queue[i]
        BY <1>10, <1>11
      <4>3. QED
        BY <1>11, <4>1, <4>2
    <3>3. QED
      BY <1>1, <3>1, <3>2
  <2>3. \A f \in published' : f \in Event
    BY <1>0, <1>1, <1>3
  <2>4. \A d, f \in settled : d.event = f.event /\ d.notifier = f.notifier => d = f
    BY <1>0 DEF Fated
  <2>5. QED
    BY <1>2, <1>18, <1>19, <2>1, <2>2, <2>3, <2>4 DEF Fated
<1>21. InOrder'
  <2>1. \A t \in Scans : Whole \in scan'[t].sent => scan'[t].emit \subseteq scan'[t].sent
    <3>1. Whole \in scan'[s].sent => scan'[s].emit \subseteq scan'[s].sent
      BY <1>0, <1>3, <1>7 DEF InOrder
    <3>2. QED
      BY <1>0, <1>7, <3>1 DEF InOrder
  <2>2. \A f \in published : f.what = Whole => f.scan # s
    <3> SUFFICES ASSUME NEW f \in published, f.what = Whole, f.scan = s PROVE FALSE
      OBVIOUS
    <3>1. Whole \in scan[s].sent
      BY <1>0 DEF Recorded
    <3>2. scan[s].emit \subseteq scan[s].sent
      BY <1>0, <3>1 DEF InOrder
    <3>3. QED
      BY <1>3, <3>1, <3>2
  <2>3. \A i, j \in 1 .. Len(queue') :
          queue'[i].what = Whole /\ queue'[j].scan = queue'[i].scan => j <= i
    <3> SUFFICES ASSUME NEW i \in 1 .. Len(queue'), NEW j \in 1 .. Len(queue'),
                        queue'[i].what = Whole, queue'[j].scan = queue'[i].scan
                 PROVE  j <= i
      OBVIOUS
    <3>1. CASE i \in 1 .. Len(queue) /\ queue'[i] = queue[i]
      <4>1. queue[i] \in published
        BY <1>0, <3>1 DEF Apart
      <4>2. queue'[j] # e
        BY <1>3, <2>2, <3>1, <4>1
      <4>3. j \in 1 .. Len(queue) /\ queue'[j] = queue[j]
        BY <1>12, <4>2
      <4>4. QED
        BY <1>0, <3>1, <4>3 DEF InOrder
    <3>2. CASE i = Len(queue) + 1
      BY <1>10, <1>12, <3>2
    <3>3. QED
      BY <1>12, <3>1, <3>2
  <2>4. worker.at = "deliver" /\ worker.event.what = Whole =>
          \A i \in 1 .. Len(queue') : queue'[i].scan # worker.event.scan
    BY <1>0, <1>3, <1>12, <2>2 DEF InOrder, Apart
  <2>5. ASSUME NEW d \in settled, d.event.what = Whole
        PROVE  /\ \A i \in 1 .. Len(queue') : queue'[i].scan # d.event.scan
               /\ worker.at = "deliver" /\ worker.event.scan = d.event.scan => worker.event = d.event
    <3>1. d.event \in published
      BY <1>0 DEF Fated
    <3>2. QED
      BY <1>0, <1>3, <1>12, <2>2, <2>5, <3>1 DEF InOrder
  <2>6. QED
    BY <1>2, <2>1, <2>3, <2>4, <2>5 DEF InOrder
<1>22. SilenceFollowsReport'
  BY <1>2, <1>7, SilenceRests
<1>23. QED
  BY <1>13, <1>14, <1>15, <1>17, <1>20, <1>21, <1>22 DEF IInv

-----------------------------------------------------------------------------
(* The worker, and the process.                                               *)

\* What the worker's record holds ...
LEMMA WorkerRecord ==
    ASSUME TypeOK
    PROVE  worker \in WorkerType /\ worker.event \in Event /\ worker.todo \subseteq Notifiers
           /\ worker.attempt \in 0 .. MaxRetries - 1 /\ worker.draining \in BOOLEAN
BY Types DEF WorkerType

\* ... and keeps to hold.
LEMMA WorkerMoves ==
    ASSUME NEW w \in WorkerType
    PROVE  /\ \A e \in Event : \A todo \in SUBSET Notifiers :
                [w EXCEPT !.at = "deliver", !.event = e, !.todo = todo, !.attempt = 0] \in WorkerType
           /\ \A n \in Notifiers : [w EXCEPT !.todo = @ \ {n}, !.attempt = 0] \in WorkerType
<1>1. 0 \in 0 .. MaxRetries - 1
  BY Bounds
<1> DEFINE Attempts == 0 .. MaxRetries - 1
<1>2. 0 \in Attempts
  BY <1>1
<1>3. WorkerType = [at: {"select", "deliver", "done"}, draining: BOOLEAN, expired: BOOLEAN,
                    event: Event, todo: SUBSET Notifiers, attempt: Attempts]
  BY DEF WorkerType
<1> HIDE DEF Attempts
<1>4. QED
  BY <1>2, <1>3

\* The worker's next event leaves the queue for its hands.
LEMMA TakeKeeps ==
    ASSUME IInv, Take
    PROVE  IInv'
<1>0. /\ TypeOK /\ Unpublished /\ Recorded /\ Apart /\ Fated /\ InOrder /\ worker \in WorkerType
      /\ queue \in Seq(Event) /\ published \subseteq Event /\ Len(queue) <= QueueSize
  BY Types DEF IInv
<1>1. /\ worker.at = "select" /\ queue # <<>> /\ queue' = Tail(queue)
      /\ worker' = [worker EXCEPT !.at = "deliver", !.event = Head(queue),
                                  !.todo = WantedBy(Head(queue)), !.attempt = 0]
      /\ UNCHANGED <<phase, errored, scan, seen, ticks, published, dropped, settled>>
  BY DEF Take, scanVars, histVars
<1> DEFINE e == Head(queue)
<1>2. /\ e = queue[1] /\ e \in Event /\ queue' \in Seq(Event) /\ Len(queue) \in Nat \ {0}
      /\ Len(queue') = Len(queue) - 1 /\ \A i \in 1 .. Len(queue') : queue'[i] = queue[i + 1]
  BY <1>0, <1>1, HeadTailProperties, LenProperties, EmptySeq
<1>3. 1 \in 1 .. Len(queue) /\ \A i \in 1 .. Len(queue') : i + 1 \in 1 .. Len(queue) /\ i + 1 # 1
  BY <1>2
<1> HIDE DEF e
<1>4. worker'.at = "deliver" /\ worker'.event = e /\ worker'.todo = WantedBy(e)
  BY <1>0, <1>1 DEF WorkerType, e
<1>5. WantedBy(e) \subseteq Notifiers
  BY DEF WantedBy, Wants, Notifiers
<1>6. worker' \in WorkerType
  BY <1>0, <1>1, <1>2, <1>5, WorkerMoves DEF e
<1>7. TypeOK'
  <2>1. Len(queue') <= QueueSize
    BY <1>0, <1>2, Bounds
  <2>2. QED
    BY <1>0, <1>1, <1>2, <1>6, <2>1, Types DEF TypeOK, ScanType, WorkerType
<1>8. Unpublished' /\ Recorded'
  BY <1>0, <1>1 DEF Unpublished, Recorded
<1>9. e \in published /\ e \notin dropped
  BY <1>0, <1>2, <1>3 DEF Apart
<1>10. \A i \in 1 .. Len(queue') : queue'[i] # e
  BY <1>0, <1>2, <1>3 DEF Apart
<1>11. \A f : Held(f)' <=> f = e
  BY <1>4 DEF Held
<1>12. Apart'
  <2>1. \A i, j \in 1 .. Len(queue') : queue'[i] = queue'[j] => i = j
    <3> SUFFICES ASSUME NEW i \in 1 .. Len(queue'), NEW j \in 1 .. Len(queue'), queue'[i] = queue'[j]
                 PROVE  i = j
      OBVIOUS
    <3>1. queue[i + 1] = queue[j + 1]
      BY <1>2
    <3>2. i + 1 = j + 1
      BY <1>0, <1>3, <3>1 DEF Apart
    <3>3. QED
      BY <3>2
  <2>2. \A i \in 1 .. Len(queue') : queue'[i] \in published /\ queue'[i] \notin dropped
    BY <1>0, <1>2, <1>3 DEF Apart
  <2>3. dropped \subseteq published
    BY <1>0 DEF Apart
  <2>4. QED
    BY <1>1, <1>4, <1>9, <1>10, <1>11, <2>1, <2>2, <2>3 DEF Apart
<1>13. \A f : WantedBy(f)' = WantedBy(f)
  BY <1>1 DEF WantedBy, Wants
<1>14. \A f, n : /\ Ends(f, n)' = Ends(f, n)
                 /\ InHand(f, n)' <=> f = e /\ n \in WantedBy(e)
                 /\ ~InHand(f, n)
  BY <1>1, <1>4 DEF Ends, InHand
<1>15. \A d \in settled : d.event # e
  BY <1>0, <1>2, <1>3 DEF Fated
<1>16. Fated'
  <2>1. \A d \in settled : /\ d.event \in published \ dropped /\ d.event # e
                           /\ \A i \in 1 .. Len(queue') : queue'[i] # d.event
    BY <1>0, <1>2, <1>3, <1>15 DEF Fated
  <2>2. ASSUME NEW f \in published, NEW n \in WantedBy(f)
        PROVE  (\E i \in 1 .. Len(queue') : queue'[i] = f) \/ f \in dropped
               \/ (f = e /\ n \in WantedBy(e)) \/ Ends(f, n) # {}
    <3>1. CASE \E i \in 1 .. Len(queue) : queue[i] = f
      <4>1. PICK i \in 1 .. Len(queue) : queue[i] = f
        BY <3>1
      <4>2. CASE i = 1
        BY <1>2, <4>1, <4>2
      <4>3. CASE i # 1
        <5>1. i - 1 \in 1 .. Len(queue') /\ queue'[i - 1] = f
          BY <1>2, <4>1, <4>3
        <5>2. QED
          BY <5>1
      <4>4. QED
        BY <4>2, <4>3
    <3>2. CASE ~\E i \in 1 .. Len(queue) : queue[i] = f
      BY <1>0, <1>14, <3>2 DEF Fated
    <3>3. QED
      BY <3>1, <3>2
  <2>3. \A d, f \in settled : d.event = f.event /\ d.notifier = f.notifier => d = f
    BY <1>0 DEF Fated
  <2>4. QED
    BY <1>1, <1>13, <1>14, <2>1, <2>2, <2>3 DEF Fated
<1>17. InOrder'
  <2>1. \A i, j \in 1 .. Len(queue') :
          queue'[i].what = Whole /\ queue'[j].scan = queue'[i].scan => j <= i
    <3> SUFFICES ASSUME NEW i \in 1 .. Len(queue'), NEW j \in 1 .. Len(queue'),
                        queue'[i].what = Whole, queue'[j].scan = queue'[i].scan
                 PROVE  j <= i
      OBVIOUS
    <3>1. queue[i + 1].what = Whole /\ queue[j + 1].scan = queue[i + 1].scan
      BY <1>2
    <3>2. j + 1 <= i + 1
      BY <1>0, <1>3, <3>1 DEF InOrder
    <3>3. QED
      BY <3>2
  <2>2. ASSUME e.what = Whole, NEW i \in 1 .. Len(queue') PROVE queue'[i].scan # e.scan
    <3>1. SUFFICES ASSUME queue[i + 1].scan = queue[1].scan PROVE FALSE
      BY <1>2
    <3>2. i + 1 <= 1
      BY <1>0, <1>2, <1>3, <2>2, <3>1 DEF InOrder
    <3>3. QED
      BY <3>2
  <2>3. ASSUME NEW d \in settled, d.event.what = Whole
        PROVE  d.event.scan # e.scan /\ \A i \in 1 .. Len(queue') : queue'[i].scan # d.event.scan
    BY <1>0, <1>2, <1>3, <2>3 DEF InOrder
  <2>4. \A t \in Scans : Whole \in scan'[t].sent => scan'[t].emit \subseteq scan'[t].sent
    BY <1>0, <1>1 DEF InOrder
  <2>5. QED
    BY <1>1, <1>4, <2>1, <2>2, <2>3, <2>4 DEF InOrder
<1>18. SilenceFollowsReport'
  BY <1>1, SilenceRests
<1>19. QED
  BY <1>7, <1>8, <1>12, <1>16, <1>17, <1>18 DEF IInv

\* fanOut is done with one notifier.
LEMMA SettleKeeps ==
    ASSUME IInv, NEW n \in Notifiers, NEW how \in {"sent", "failed", "held"},
           worker.at = "deliver", n \in worker.todo, Settle(n, how),
           UNCHANGED <<phase, errored, scanVars, queue, ticks, published, dropped>>
    PROVE  IInv'
<1>0. /\ TypeOK /\ Unpublished /\ Recorded /\ Apart /\ Fated /\ InOrder /\ worker \in WorkerType
      /\ worker.event \in Event
  BY WorkerRecord DEF IInv
<1> DEFINE e == worker.event
           d == [event |-> e, notifier |-> n, how |-> how]
<1>1. /\ settled' = settled \cup {d} /\ worker' = [worker EXCEPT !.todo = @ \ {n}, !.attempt = 0]
      /\ UNCHANGED <<phase, errored, scan, seen, queue, ticks, published, dropped>>
  BY DEF Settle, scanVars
<1>2. /\ worker' \in WorkerType /\ worker'.at = "deliver" /\ worker'.event = e
      /\ worker'.todo = worker.todo \ {n}
  <2>1. worker' \in WorkerType
    BY <1>0, <1>1, WorkerMoves
  <2>2. worker' = [worker EXCEPT !.todo = worker.todo \ {n}, !.attempt = 0] /\ worker.at = "deliver"
    BY <1>1
  <2>3. worker'.at = "deliver" /\ worker'.event = worker.event /\ worker'.todo = worker.todo \ {n}
    BY <1>0, <2>2 DEF WorkerType
  <2>4. QED
    BY <2>1, <2>3
<1>3. d \in Delivery /\ d.event = e /\ d.notifier = n
  BY <1>0 DEF Delivery
<1> HIDE DEF d
<1>4. TypeOK'
  BY <1>0, <1>1, <1>2, <1>3, Types DEF TypeOK, ScanType, WorkerType
<1>5. Unpublished' /\ Recorded'
  BY <1>0, <1>1 DEF Unpublished, Recorded
<1>6. \A f : Held(f)' <=> Held(f)
  BY <1>2 DEF Held
<1>7. Apart'
  BY <1>0, <1>1, <1>2, <1>6 DEF Apart
<1>8. /\ e \in published \ dropped /\ \A i \in 1 .. Len(queue) : queue[i] # e
      /\ Held(e)
  BY <1>0 DEF Apart, Held
<1>9. \A f \in settled : f.event # e \/ f.notifier # n
  BY <1>0 DEF Fated, InHand
<1>10. \A f, m : InHand(f, m)' <=> InHand(f, m) /\ ~(f = e /\ m = n)
  BY <1>2 DEF InHand
<1>11. \A f : WantedBy(f)' = WantedBy(f)
  BY <1>1 DEF WantedBy, Wants
<1>12. /\ \A f, m : Ends(f, m) \subseteq Ends(f, m)'
       /\ d \in Ends(e, n)'
  BY <1>1, <1>3 DEF Ends
<1>13. Fated'
  <2>1. \A f \in settled' : /\ f.event \in published \ dropped /\ ~InHand(f.event, f.notifier)'
                            /\ \A i \in 1 .. Len(queue) : queue[i] # f.event
    BY <1>0, <1>1, <1>3, <1>8, <1>10 DEF Fated
  <2>2. \A f, g \in settled' : f.event = g.event /\ f.notifier = g.notifier => f = g
    BY <1>0, <1>1, <1>3, <1>9 DEF Fated
  <2>3. ASSUME NEW f \in published, NEW m \in WantedBy(f)
        PROVE  (\E i \in 1 .. Len(queue) : queue[i] = f) \/ f \in dropped
               \/ InHand(f, m)' \/ Ends(f, m)' # {}
    <3>1. CASE f = e /\ m = n
      <4>1. d \in Ends(f, m)'
        BY <1>2, <1>12, <3>1 DEF Ends
      <4>2. QED
        BY <4>1
    <3>2. CASE ~(f = e /\ m = n)
      <4>1. (\E i \in 1 .. Len(queue) : queue[i] = f) \/ f \in dropped \/ InHand(f, m) \/ Ends(f, m) # {}
        BY <1>0 DEF Fated
      <4>2. (InHand(f, m) => InHand(f, m)') /\ Ends(f, m) \subseteq Ends(f, m)'
        BY <1>10, <1>12, <3>2
      <4>3. QED
        BY <4>1, <4>2
    <3>3. QED
      BY <3>1, <3>2
  <2>4. QED
    BY <1>1, <1>11, <2>1, <2>2, <2>3 DEF Fated
<1>14. InOrder'
  <2>1. \A f \in settled' : f.event.what = Whole =>
          /\ \A i \in 1 .. Len(queue) : queue[i].scan # f.event.scan
          /\ e.scan = f.event.scan => e = f.event
    BY <1>0, <1>1, <1>3 DEF InOrder
  <2>2. QED
    BY <1>0, <1>1, <1>2, <2>1 DEF InOrder
<1>15. SilenceFollowsReport'
  BY <1>1, SilenceRests
<1>16. QED
  BY <1>4, <1>5, <1>7, <1>13, <1>14, <1>15 DEF IInv

\* fanOut is done with the last notifier.
LEMMA DeliveredKeeps ==
    ASSUME IInv, Delivered
    PROVE  IInv'
<1>0. /\ TypeOK /\ Unpublished /\ Recorded /\ Apart /\ Fated /\ InOrder /\ worker \in WorkerType
      /\ phase \in {"running", "stopping", "exited", "faulted"}
  BY Types DEF IInv
<1>1. /\ worker.at = "deliver" /\ worker.todo = {}
      /\ worker' = [worker EXCEPT !.at = "select", !.event = NoEvent, !.draining = @ \/ phase = "stopping"]
      /\ UNCHANGED <<phase, errored, scan, seen, queue, ticks, published, dropped, settled>>
  BY DEF Delivered, scanVars, histVars
<1>2. worker' \in WorkerType
  BY <1>0, <1>1, Bounds DEF WorkerType
<1>3. worker'.at = "select"
  BY <1>0, <1>1 DEF WorkerType
<1>4. TypeOK'
  BY <1>0, <1>1, <1>2, Types DEF TypeOK, ScanType, WorkerType
<1>5. Unpublished' /\ Recorded'
  BY <1>0, <1>1 DEF Unpublished, Recorded
<1>6. \A f : ~Held(f)'
  BY <1>3 DEF Held
<1>7. Apart'
  BY <1>0, <1>1, <1>3, <1>6 DEF Apart
<1>8. \A f, m : ~InHand(f, m)' /\ ~InHand(f, m) /\ Ends(f, m)' = Ends(f, m)
  BY <1>1, <1>3 DEF InHand, Ends
<1>9. \A f : WantedBy(f)' = WantedBy(f)
  BY <1>1 DEF WantedBy, Wants
<1>10. Fated'
  BY <1>0, <1>1, <1>8, <1>9 DEF Fated
<1>11. InOrder'
  BY <1>0, <1>1, <1>3 DEF InOrder
<1>12. SilenceFollowsReport'
  BY <1>1, SilenceRests
<1>13. QED
  BY <1>4, <1>5, <1>7, <1>10, <1>11, <1>12 DEF IInv

\* Every step of the worker keeps the invariant, the drain's included.
LEMMA DeliverKeeps ==
    ASSUME IInv, Deliver
    PROVE  IInv'
<1>0. TypeOK /\ Unpublished /\ worker \in WorkerType /\ worker.attempt \in 0 .. MaxRetries - 1
  BY WorkerRecord DEF IInv
<1>1. ASSUME NEW n \in Notifiers, HoldBack(n) PROVE IInv'
  BY <1>1, SettleKeeps DEF HoldBack, IsNext
<1>2. ASSUME UNCHANGED <<phase, errored, scanVars, queue, ticks, histVars>>, worker' \in WorkerType,
             worker'.at = "deliver" <=> worker.at = "deliver",
             worker'.event = worker.event, worker'.todo = worker.todo
      PROVE  IInv'
  <2>1. UNCHANGED <<phase, errored, scan, seen, queue, ticks, published, dropped, settled>>
    BY <1>2 DEF scanVars, histVars
  <2>2. TypeOK'
    BY <1>0, <1>2, <2>1, Types DEF TypeOK, ScanType, WorkerType
  <2>3. Unpublished'
    BY <1>0, <2>1 DEF Unpublished
  <2>4. Recorded' /\ Apart' /\ Fated' /\ InOrder'
    BY <1>2, <2>1, MailRests
  <2>5. SilenceFollowsReport'
    BY <2>1, SilenceRests
  <2>6. QED
    BY <2>2, <2>3, <2>4, <2>5 DEF IInv
<1>3. ASSUME NEW n \in Notifiers, Post(n) PROVE IInv'
  <2>1. /\ worker.at = "deliver" /\ n \in worker.todo
        /\ UNCHANGED <<phase, errored, scanVars, queue, ticks, published, dropped>>
    BY <1>3 DEF Post, IsNext
  <2>2. CASE \E how \in {"sent", "failed", "held"} : Settle(n, how)
    BY <2>1, <2>2, SettleKeeps
  <2>3. CASE /\ worker.attempt + 1 < MaxRetries /\ worker' = [worker EXCEPT !.attempt = @ + 1]
             /\ UNCHANGED settled
    <3>1. /\ worker' \in WorkerType /\ worker'.at = worker.at /\ worker'.event = worker.event
          /\ worker'.todo = worker.todo
      BY <1>0, <2>3, Bounds DEF WorkerType
    <3>2. UNCHANGED <<phase, errored, scanVars, queue, ticks, histVars>>
      BY <2>1, <2>3 DEF histVars
    <3>3. QED
      BY <1>2, <3>1, <3>2
  <2>4. QED
    BY <1>3, <2>2, <2>3 DEF Post, TriesAgain
<1>4. CASE Drain \/ DrainBudgetExpires \/ Drained
  <2>1. /\ worker' \in WorkerType /\ worker'.event = worker.event /\ worker'.todo = worker.todo
        /\ worker'.at = "deliver" <=> worker.at = "deliver"
    <3>1. CASE Drain
      BY <1>0, <3>1 DEF Drain, WorkerType
    <3>2. CASE DrainBudgetExpires
      BY <1>0, <3>2 DEF DrainBudgetExpires, WorkerType
    <3>3. CASE Drained
      BY <1>0, <3>3 DEF Drained, WorkerType
    <3>4. QED
      BY <1>4, <3>1, <3>2, <3>3
  <2>2. UNCHANGED <<phase, errored, scanVars, queue, ticks, histVars>>
    BY <1>4 DEF Drain, DrainBudgetExpires, Drained
  <2>3. QED
    BY <1>2, <2>1, <2>2
<1>5. QED
  BY <1>1, <1>3, <1>4, TakeKeeps, DeliveredKeeps DEF Deliver

\* So do the end of the process and time.
LEMMA ProcessKeeps ==
    ASSUME IInv, Stop \/ Exit \/ MapFault \/ Tick
    PROVE  IInv'
<1>0. /\ TypeOK /\ Unpublished /\ SilenceFollowsReport /\ worker \in WorkerType
      /\ seen \in [Subjects -> 0 .. Unseen] /\ ticks \in 0 .. MaxTicks
  BY Types DEF IInv
<1>1. UNCHANGED <<scan, queue, worker, published, dropped, settled>>
  BY DEF Stop, Exit, MapFault, Tick, scanVars, sendVars, histVars
<1>2. Recorded' /\ Apart' /\ Fated' /\ InOrder'
  BY <1>0, <1>1, MailRests
<1>3. Unpublished'
  BY <1>0, <1>1 DEF Unpublished
<1>4. /\ phase' \in {"running", "stopping", "exited", "faulted"} /\ errored' \in BOOLEAN
      /\ seen' \in [Subjects -> 0 .. Unseen] /\ ticks' \in 0 .. MaxTicks
      /\ SilenceFollowsReport'
  <2>1. phase \in {"running", "stopping", "exited", "faulted"} /\ errored \in BOOLEAN
    BY <1>0, Types
  <2>2. CASE Stop \/ MapFault
    <3>1. seen' = seen /\ ticks' = ticks
      BY <2>2 DEF Stop, MapFault, scanVars
    <3>2. SilenceFollowsReport'
      BY <1>1, <3>1, SilenceRests
    <3>3. phase' \in {"running", "stopping", "exited", "faulted"} /\ errored' \in BOOLEAN
      BY <2>1, <2>2 DEF Stop, MapFault
    <3>4. QED
      BY <1>0, <3>1, <3>2, <3>3
  <2>3. CASE Exit
    <3>1. /\ seen' = [c \in Subjects |-> IF seen[c] = Window THEN Unseen ELSE seen[c]]
          /\ ticks' = ticks /\ phase' = "exited" /\ errored' = errored
      BY <2>3 DEF Exit
    <3>2. \A c \in Subjects : seen'[c] < Window => seen'[c] = seen[c]
      BY <1>0, <3>1, Bounds
    <3>3. seen' \in [Subjects -> 0 .. Unseen]
      BY <1>0, <3>1, Bounds
    <3>4. SilenceFollowsReport'
      BY <1>0, <1>1, <3>1, <3>2 DEF SilenceFollowsReport
    <3>5. QED
      BY <1>0, <2>1, <3>1, <3>3, <3>4
  <2>4. CASE Tick
    <3>1. /\ seen' = [c \in Subjects |-> IF seen[c] < Window THEN seen[c] + 1 ELSE seen[c]]
          /\ ticks' = ticks + 1 /\ ticks < MaxTicks /\ phase' = phase /\ errored' = errored
      BY <2>4 DEF Tick
    <3>2. \A c \in Subjects : seen'[c] < Window => seen[c] < Window /\ seen'[c] = seen[c] + 1
      BY <1>0, <3>1, Bounds
    <3>3. seen' \in [Subjects -> 0 .. Unseen] /\ ticks' \in 0 .. MaxTicks
      BY <1>0, <3>1, Bounds
    <3>4. SilenceFollowsReport'
      <4> SUFFICES ASSUME NEW c \in Subjects, seen'[c] < Window
                   PROVE  \E s \in Scans : c \in scan[s].emit /\ scan[s].when + seen'[c] = ticks'
        BY <1>1 DEF SilenceFollowsReport
      <4>1. seen[c] < Window /\ seen'[c] = seen[c] + 1
        BY <3>2
      <4>2. PICK s \in Scans : c \in scan[s].emit /\ scan[s].when + seen[c] = ticks
        BY <1>0, <4>1 DEF SilenceFollowsReport
      <4>3. scan[s].when \in Nat /\ seen[c] \in Nat
        BY <1>0, Types, ScanFields, Bounds
      <4>4. scan[s].when + seen'[c] = ticks'
        BY <3>1, <4>1, <4>2, <4>3
      <4>5. QED
        BY <4>2, <4>4
    <3>5. QED
      BY <2>1, <3>1, <3>3, <3>4
  <2>5. QED
    BY <2>2, <2>3, <2>4
<1>5. TypeOK'
  BY <1>0, <1>1, <1>4, Types DEF TypeOK, ScanType, WorkerType
<1>6. QED
  BY <1>2, <1>3, <1>4, <1>5 DEF IInv

\* Nothing is published in a process that has just started.
LEMMA ProcessStarts == Init => IInv
<1> SUFFICES ASSUME Init PROVE IInv
  OBVIOUS
<1>1. \A s \in Scans : /\ scan[s].at = "idle" /\ scan[s].emit = {} /\ scan[s].sent = {}
  BY DEF Init
<1>2. queue = <<>> /\ Len(queue) = 0 /\ worker.at = "select" /\ published = {} /\ dropped = {} /\ settled = {}
  BY DEF Init
<1>3. TypeOK
  <2>1. NoOutcome \in Outcomes
    BY DEF NoOutcome, Outcomes, Outcome, Trust
  <2>2. scan \in [Scans -> ScanType]
    BY <2>1, Bounds DEF Init, ScanType, Places
  <2>3. worker \in WorkerType
    BY Bounds DEF Init, WorkerType
  <2>4. seen \in [Subjects -> 0 .. Unseen] /\ ticks \in 0 .. MaxTicks
    BY Bounds DEF Init
  <2>5. queue \in Seq(Event) /\ Len(queue) <= QueueSize
    BY <1>2, Bounds, EmptySeq
  <2>6. QED
    BY <1>2, <2>2, <2>3, <2>4, <2>5, Types DEF Init
<1>4. Unpublished
  BY <1>1 DEF Unpublished
<1>5. Recorded
  BY <1>1, <1>2 DEF Recorded, Event
<1>6. Apart /\ Fated
  BY <1>2 DEF Apart, Fated
<1>7. InOrder
  BY <1>1, <1>2 DEF InOrder
<1>8. SilenceFollowsReport
  BY Bounds DEF Init, SilenceFollowsReport
<1>9. QED
  BY <1>3, <1>4, <1>5, <1>6, <1>7, <1>8 DEF IInv

-----------------------------------------------------------------------------
(* What follows.                                                              *)

\* The inductive invariant holds in every state.
THEOREM Invariance == Spec => []IInv
<1>1. IInv /\ [Next]_vars => IInv'
  <2> SUFFICES ASSUME IInv, [Next]_vars PROVE IInv'
    OBVIOUS
  <2>1. CASE \E s \in Scans : StartScan(s) \/ \E o \in Outcomes : FinishScan(s, o)
    BY <2>1, ScanStarts
  <2>2. CASE \E s \in Scans : Publishing(s)
    BY <2>2, FilterKeeps, EnqueueKeeps, ScanStarts DEF Publishing
  <2>3. CASE Deliver
    BY <2>3, DeliverKeeps
  <2>4. CASE Stop \/ Exit \/ MapFault \/ Tick
    BY <2>4, ProcessKeeps
  <2>5. CASE UNCHANGED vars
    <3>1. UNCHANGED <<phase, errored, scan, seen, queue, worker, ticks, published, dropped, settled>>
      BY <2>5 DEF vars, scanVars, sendVars, histVars
    <3>2. TypeOK /\ Unpublished /\ worker \in WorkerType
      BY Types DEF IInv
    <3>3. TypeOK' /\ Unpublished'
      BY <3>1, <3>2 DEF TypeOK, Unpublished
    <3>4. Recorded' /\ Apart' /\ Fated' /\ InOrder'
      BY <3>1, <3>2, MailRests
    <3>5. SilenceFollowsReport'
      BY <3>1, SilenceRests
    <3>6. QED
      BY <3>3, <3>4, <3>5 DEF IInv
  <2>6. QED
    BY <2>1, <2>2, <2>3, <2>4, <2>5 DEF Next
<1>2. QED
  BY <1>1, ProcessStarts, PTL DEF Spec

\* Everything keeps its type: the queue never grows beyond its size and no delivery
\* is attempted more than MaxRetries times (Publish, retryPost).
THEOREM TypeCorrect == Spec => []TypeOK
<1>1. IInv => TypeOK
  BY DEF IInv
<1>2. QED
  BY <1>1, Invariance, PTL

\* A change is suppressed only for a window after a scan reported it, even when scan
\* goroutines race in the suppressor's map (Filter).
THEOREM SilenceIsEarned == Spec => []SilenceFollowsReport
<1>1. IInv => SilenceFollowsReport
  BY DEF IInv
<1>2. QED
  BY <1>1, Invariance, PTL

\* Nothing about a scan's changes is under way once its own message is settled, for
\* any number of notifiers of both kinds (Publish, fanOut).
THEOREM WholeScanComesLast == Spec => []WholeScanLast
<1>1. IInv => WholeScanLast
  <2> SUFFICES ASSUME IInv, NEW d \in settled, d.event.what = Whole,
                      NEW e \in published, e.scan = d.event.scan, e # d.event
               PROVE  e \notin Elements(queue) /\ \A n \in Notifiers : ~InHand(e, n)
    BY DEF WholeScanLast
  <2>1. InOrder
    BY DEF IInv
  <2>2. e \notin Elements(queue)
    BY <2>1 DEF InOrder, Elements
  <2>3. ~(worker.at = "deliver" /\ worker.event = e)
    BY <2>1 DEF InOrder
  <2>4. QED
    BY <2>2, <2>3 DEF InHand
<1>2. QED
  BY <1>1, Invariance, PTL

\* A set without two elements counts as one, or as none.
LEMMA CountsOne ==
    ASSUME NEW S, \A x, y \in S : x = y
    PROVE  Cardinality(S) = IF S = {} THEN 0 ELSE 1
<1>1. CASE S = {}
  BY <1>1, FS_EmptySet
<1>2. CASE S # {}
  <2>1. PICK x \in S : TRUE
    BY <1>2
  <2>2. S = {x}
    BY <2>1
  <2>3. QED
    BY <1>2, <2>2, FS_Singleton
<1>3. QED
  BY <1>1, <1>2

\* Each published event has exactly one fate at each notifier that wants it: it waits,
\* is in the worker's hands, was refused and counted, or was settled (enqueue, fanOut).
THEOREM EventsAreAccounted == Spec => []Accounted
<1>1. IInv => Accounted
  <2> SUFFICES ASSUME IInv, NEW e \in published, NEW n \in WantedBy(e)
               PROVE  Fates(e, n) = 1
    BY DEF Accounted
  <2> DEFINE places == {i \in 1 .. Len(queue) : queue[i] = e}
  <2>1. Apart /\ Fated
    BY DEF IInv
  <2>2. Cardinality(places) = IF places = {} THEN 0 ELSE 1
    <3>1. \A i, j \in places : i = j
      BY <2>1 DEF Apart
    <3>2. QED
      BY <3>1, CountsOne
  <2>3. Cardinality(Ends(e, n)) = IF Ends(e, n) = {} THEN 0 ELSE 1
    <3>1. \A d, f \in Ends(e, n) : d = f
      BY <2>1 DEF Fated, Ends
    <3>2. QED
      BY <3>1, CountsOne
  <2>4. places # {} \/ e \in dropped \/ InHand(e, n) \/ Ends(e, n) # {}
    BY <2>1 DEF Fated
  <2>5. places # {} => e \notin dropped /\ ~InHand(e, n) /\ Ends(e, n) = {}
    BY <2>1 DEF Apart, Fated, Held, InHand, Ends
  <2>6. e \in dropped => ~InHand(e, n) /\ Ends(e, n) = {}
    BY <2>1 DEF Apart, Fated, Held, InHand, Ends
  <2>7. InHand(e, n) => Ends(e, n) = {}
    BY <2>1 DEF Fated, Ends
  <2> HIDE DEF places
  <2>8. Fates(e, n) = Cardinality(Ends(e, n)) + Cardinality(places)
                      + (IF e \in dropped THEN 1 ELSE 0) + (IF InHand(e, n) THEN 1 ELSE 0)
    BY DEF Fates, places
  <2>9. QED
    BY <2>2, <2>3, <2>4, <2>5, <2>6, <2>7, <2>8
<1>2. QED
  BY <1>1, Invariance, PTL
================================================================================
