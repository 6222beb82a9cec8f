------------------------------ MODULE Capture ------------------------------
(* internal/capture: one scan of one page.  A session prepares a tab,         *)
(* navigates, waits for the network to go quiet, lets the consent hook act,   *)
(* waits again, and assembles the result; meanwhile the browser's events      *)
(* reach the recorder and a bounded pool of workers reads the bodies and the  *)
(* payloads the recorder queued.  One action is one event handler, one call   *)
(* of a worker, or one step of the session between two waits.                 *)
(*                                                                            *)
(* Time is abstracted: a settle may end quietly whenever nothing is actively  *)
(* in flight, a stall is a flag a record gains, and the budget of the scan is *)
(* the state of its context.  The sizes of bodies are abstracted to whether   *)
(* the byte cap is passed and whether a body was kept.                        *)
EXTENDS Naturals, Sequences, FiniteSets

CONSTANTS Ids,           \* request ids the browser hands out
          Document,      \* the id of the page's own document (mainDocIDs)
          Scripts,       \* ids of a fingerprinted type (HashResourceTypes)
          Heartbeats,    \* ids some of whose URLs match a beacon rule
          Moved,         \* ids that may be redirected
          Sockets,       \* ids that may be WebSockets
          Posts,         \* ids that carry a payload worth storing
          Heavy,         \* ids large enough to pass the byte cap
          Slow,          \* ids that outlive the stall threshold
          Modes,         \* values of Options.Bodies
          Endings,       \* how the scan's context may end: "expired", "cancelled"
          Steps,         \* what execute does after the first wait
          Workers,       \* the pool that reads bodies (bodyWorkers)
          MaxRecords,    \* Options.MaxRequests
          QueueSize      \* bodyQueueSize

CaptureAssumption == /\ Document \in Ids
                     /\ UNION {Scripts, Heartbeats, Moved, Sockets, Posts, Heavy, Slow} \subseteq Ids
                     /\ Modes \subseteq {"none", "hashed", "all"}
                     /\ Endings \subseteq {"expired", "cancelled"}
                     /\ Steps \subseteq {"hook", "scrolled", "dwelt"}
                     /\ MaxRecords \in Nat \ {0}
                     /\ QueueSize \in Nat \ {0}
                     /\ IsFiniteSet(Ids) /\ IsFiniteSet(Workers)

VARIABLES mode,          \* Options.Bodies
          wire,          \* what the browser has said of each id
          touched,       \* the hook has acted on the page
          records, current, inflight, exceeded, phase,   \* recorder
          bodyWanted, payloadWanted,                     \* its two queues
          docFailed,     \* recorder.mainDocFailed
          stage,         \* where the session is
          run,           \* runCtx: "live", "expired" or "cancelled"
          runErr,        \* what execute returned: "none", "deadline" or "other"
          busy,          \* the call each reader of bodies is in
          stopped,       \* bodyStop is closed
          calm,          \* the last settle ended because the network was quiet
          late,          \* records an event changed after finishBodies
          result         \* the requests and the termination reported

recorder == <<records, current, inflight, exceeded, phase, bodyWanted, payloadWanted, docFailed>>
session == <<stage, runErr, stopped, calm, result>>
vars == <<mode, wire, touched, recorder, session, run, busy, late>>

Session == "session"                    \* stopBodyWorker drains the queues itself
Readers == Workers \cup {Session}
Idle == [kind |-> "idle"]
Gone == [kind |-> "gone"]
Settles == {"loaded", "acted", "scrolled", "dwelt"}
Stages == Settles \cup {"prepare", "hook", "drain", "join", "copy", "end", "done"}
(* A payload that is kept, refused with a reason, or never was, is settled. *)
Payload == {"owed", "settled"}
Record == [id : Ids, phase : {"pre", "post"}, caused : BOOLEAN, beacon : BOOLEAN, hop : Nat,
           hashed : BOOLEAN, want : BOOLEAN, payload : Payload, body : {"owed", "kept", "reason"},
           finished : BOOLEAN]

TypeOK ==
  /\ mode \in Modes /\ wire \in [Ids -> {"new", "sent", "answered", "over"}]
  /\ touched \in BOOLEAN /\ docFailed \in BOOLEAN /\ stopped \in BOOLEAN /\ calm \in BOOLEAN
  /\ records \in Seq(Record) /\ Len(records) <= MaxRecords
  /\ current \in [Ids -> 0..Len(records)] /\ inflight \in 0..MaxRecords
  /\ exceeded \in {"none", "requests", "bytes"} /\ phase \in {"pre", "post"}
  /\ bodyWanted \in Seq(Ids) /\ Len(bodyWanted) <= QueueSize
  /\ payloadWanted \in Seq(Ids) /\ Len(payloadWanted) <= QueueSize
  /\ stage \in Stages /\ run \in {"live", "expired", "cancelled"}
  /\ runErr \in {"none", "deadline", "other"}
  /\ busy \in [Readers -> {Idle, Gone} \cup [kind : {"body", "payload"}, id : Ids]]
  /\ late \subseteq 1..MaxRecords
  /\ result.unexplained \subseteq 1..MaxRecords /\ result.without \subseteq 1..MaxRecords
  /\ result.termination \in {"none", "error", "request-cap", "byte-cap", "timeout", "idle"}

Init ==
  /\ mode \in Modes
  /\ wire = [i \in Ids |-> "new"] /\ touched = FALSE
  /\ records = <<>> /\ current = [i \in Ids |-> 0] /\ inflight = 0
  /\ exceeded = "none" /\ phase = "pre" /\ bodyWanted = <<>> /\ payloadWanted = <<>>
  /\ docFailed = FALSE
  /\ stage = "prepare" /\ run = "live" /\ runErr = "none"
  /\ busy = [w \in Readers |-> Idle] /\ stopped = FALSE /\ calm = FALSE /\ late = {}
  /\ result = [unexplained |-> {}, without |-> {}, termination |-> "none"]

-----------------------------------------------------------------------------
(* The recorder's helpers.                                                   *)

Stores == mode # "none"
Relevant(r) == mode = "all" \/ r.hashed
Active(r) == ~r.finished /\ ~r.beacon

(* planBodyLocked: a type seen later can only add to what is wanted. *)
Planned(r, hashable) == [r EXCEPT !.hashed = @ \/ hashable, !.want = @ \/ hashable \/ mode = "all"]

(* inflightDoneLocked *)
Done(n) == IF n > 0 THEN n - 1 ELSE 0

(* snapshot: a request in flight for longer than the stall threshold, as those
   of cross-origin frames are, is not waited for. *)
NetworkQuiet == inflight = 0 \/ \A i \in DOMAIN records : Active(records[i]) => records[i].id \in Slow

Hop(id) == records[current[id]]
Open(id) == current[id] # 0 /\ ~Hop(id).finished
Note(indexes) == late' = IF stage = "copy" THEN late \cup indexes ELSE late

(* Events are delivered while the scan's context lives; those that arrive while
   the tab is prepared are taken to arrive before the first wait ends. *)
Listening == run = "live" /\ stage \notin {"prepare", "done"}

-----------------------------------------------------------------------------
(* The browser's events.                                                     *)

(* recorder.requestWillBeSent, first half: a redirect finishes the hop before it. *)
Redirected(id, redirect) ==
  IF redirect /\ Open(id) THEN [records EXCEPT ![current[id]].finished = TRUE] ELSE records

(* Mutant: a redirect that also releases a beacon. *)
ReleasedAll(id, redirect) == IF redirect /\ Open(id) THEN Done(inflight) ELSE inflight

Released(id, redirect) == IF redirect /\ Open(id) /\ ~Hop(id).beacon THEN Done(inflight) ELSE inflight

(* recorder.inlinePayload: a payload the event carries is settled at once, one
   it leaves out is owed. *)
Payloads(id) == IF Stores /\ id \in Posts THEN Payload ELSE {"settled"}

(* "typed" says that the type the event gives is already the true one. *)
RequestWillBeSent(id, redirect, typed, beacon, payload) ==
  LET before == Redirected(id, redirect)
      room == exceeded = "none" /\ Len(records) < MaxRecords
      asked == payload = "owed" /\ Len(payloadWanted) < QueueSize
      hop == [id |-> id, phase |-> phase, caused |-> touched, beacon |-> beacon,
              hop |-> IF redirect THEN current[id] ELSE 0,
              hashed |-> FALSE, want |-> FALSE, body |-> "owed", finished |-> FALSE,
              payload |-> IF asked THEN "owed" ELSE "settled"]
  IN /\ payload \in Payloads(id)
     /\ (beacon => id \in Heartbeats) /\ (redirect => id \in Moved)
     /\ wire[id] = IF redirect THEN "sent" ELSE "new"
     /\ wire' = [wire EXCEPT ![id] = "sent"]
     /\ IF room
        THEN /\ records' = Append(before, Planned(hop, typed /\ id \in Scripts))
             /\ current' = [current EXCEPT ![id] = Len(records) + 1]
             /\ inflight' = Released(id, redirect) + IF beacon THEN 0 ELSE 1
             /\ payloadWanted' = IF asked THEN Append(payloadWanted, id) ELSE payloadWanted
             /\ exceeded' = exceeded /\ Note({Len(records) + 1})
        ELSE /\ records' = before /\ inflight' = Released(id, redirect)
             /\ exceeded' = IF exceeded = "none" THEN "requests" ELSE exceeded
             /\ UNCHANGED <<current, payloadWanted, late>>
     /\ UNCHANGED <<mode, touched, phase, bodyWanted, docFailed, session, run, busy>>

(* recorder.responseReceived: the type known now may make a body wanted. *)
ResponseReceived(id) ==
  /\ wire[id] = "sent" /\ wire' = [wire EXCEPT ![id] = "answered"]
  /\ records' = IF current[id] = 0 THEN records
                ELSE [records EXCEPT ![current[id]] = Planned(@, id \in Scripts)]
  /\ Note({current[id]} \ {0})
  /\ UNCHANGED <<mode, touched, current, inflight, exceeded, phase, bodyWanted, payloadWanted,
                 docFailed, session, run, busy>>

(* recorder.loadingFinished: "over" says the total passed the byte cap.  A
   body that finds the queue full is recorded as one not read. *)
LoadingFinished(id, over) ==
  /\ (over => id \in Heavy)
  /\ wire[id] = "answered" /\ wire' = [wire EXCEPT ![id] = "over"]
  /\ IF Open(id)
     THEN LET asked == Hop(id).want /\ Len(bodyWanted) < QueueSize
              refused == Hop(id).want /\ ~asked
          IN /\ records' = [records EXCEPT ![current[id]].finished = TRUE,
                                           ![current[id]].body = IF refused THEN "reason" ELSE @]
             /\ bodyWanted' = IF asked THEN Append(bodyWanted, id) ELSE bodyWanted
             /\ inflight' = IF Hop(id).beacon THEN inflight ELSE Done(inflight)
             /\ exceeded' = IF over /\ exceeded = "none" THEN "bytes" ELSE exceeded
             /\ Note({current[id]})
     ELSE ~over /\ UNCHANGED <<records, bodyWanted, inflight, exceeded, late>>
  /\ UNCHANGED <<mode, touched, current, phase, payloadWanted, docFailed, session, run, busy>>

(* recorder.loadingFailed *)
LoadingFailed(id) ==
  /\ wire[id] \in {"sent", "answered"} /\ wire' = [wire EXCEPT ![id] = "over"]
  /\ docFailed' = (docFailed \/ id = Document)
  /\ records' = IF Open(id) THEN [records EXCEPT ![current[id]].finished = TRUE] ELSE records
  /\ inflight' = IF Open(id) /\ ~Hop(id).beacon THEN Done(inflight) ELSE inflight
  /\ Note({current[id]} \ {0})
  /\ UNCHANGED <<mode, touched, current, exceeded, phase, bodyWanted, payloadWanted, session, run, busy>>

(* recorder.webSocketCreated: recorded as finished, under no current id. *)
WebSocketCreated(id) ==
  /\ id \in Sockets
  /\ wire[id] = "new" /\ wire' = [wire EXCEPT ![id] = "over"]
  /\ IF exceeded = "none" /\ Len(records) < MaxRecords
     THEN /\ records' = Append(records,
               [id |-> id, phase |-> phase, caused |-> touched, beacon |-> FALSE, hop |-> 0,
                hashed |-> FALSE, want |-> FALSE, payload |-> "settled", body |-> "owed",
                finished |-> TRUE])
          /\ Note({Len(records) + 1}) /\ exceeded' = exceeded
     ELSE /\ exceeded' = (IF exceeded = "none" THEN "requests" ELSE exceeded)
          /\ UNCHANGED <<records, late>>
  /\ UNCHANGED <<mode, touched, current, inflight, phase, bodyWanted, payloadWanted, docFailed,
                 session, run, busy>>

BrowserEvent == Listening /\
  (\/ \E id \in Ids, redirect, typed, beacon \in BOOLEAN, payload \in Payload :
        RequestWillBeSent(id, redirect, typed, beacon, payload)
   \/ \E id \in Ids, over \in BOOLEAN : LoadingFinished(id, over)
   \/ \E id \in Ids : ResponseReceived(id) \/ LoadingFailed(id) \/ WebSocketCreated(id))

-----------------------------------------------------------------------------
(* The readers of bodies: the pool, and the session itself while it drains.  *)

MayTake(w) == busy[w] = Idle /\ (w = Session => stage = "drain")

TakeBody(w) ==
  /\ MayTake(w) /\ bodyWanted # <<>>
  /\ busy' = [busy EXCEPT ![w] = [kind |-> "body", id |-> Head(bodyWanted)]]
  /\ bodyWanted' = Tail(bodyWanted)
  /\ UNCHANGED <<mode, wire, touched, records, current, inflight, exceeded, phase, payloadWanted,
                 docFailed, session, run, late>>

TakePayload(w) ==
  /\ MayTake(w) /\ payloadWanted # <<>>
  /\ busy' = [busy EXCEPT ![w] = [kind |-> "payload", id |-> Head(payloadWanted)]]
  /\ payloadWanted' = Tail(payloadWanted)
  /\ UNCHANGED <<mode, wire, touched, records, current, inflight, exceeded, phase, bodyWanted,
                 docFailed, session, run, late>>

(* What a read comes back with; one cut off by the end of the scan never keeps anything. *)
Outcomes == {"reason"} \cup IF run = "live" THEN {"kept"} ELSE {}

(* session.fingerprintBody, storeBody, recorder.setBody: a body that is not
   to be stored leaves at most a fingerprint. *)
BodyRead(w, outcome) ==
  /\ busy[w].kind = "body" /\ outcome \in Outcomes
  /\ LET i == current[busy[w].id]
         stores == mode = "all" \/ (mode = "hashed" /\ records[i].hashed)
     IN records' = IF outcome = "kept" /\ ~stores THEN records
                   ELSE [records EXCEPT ![i].body = outcome]
  /\ busy' = [busy EXCEPT ![w] = Idle]
  /\ UNCHANGED <<mode, wire, touched, current, inflight, exceeded, phase, bodyWanted, payloadWanted,
                 docFailed, session, run, late>>

(* session.fetchPayload, recorder.setPayload: what comes back is attached to
   the id's hop of now. *)
PayloadRead(w) ==
  /\ busy[w].kind = "payload"
  /\ records' = [records EXCEPT ![current[busy[w].id]].payload = "settled"]
  /\ busy' = [busy EXCEPT ![w] = Idle]
  /\ UNCHANGED <<mode, wire, touched, current, inflight, exceeded, phase, bodyWanted, payloadWanted,
                 docFailed, session, run, late>>

(* A worker leaves once told to stop, or once the scan's context has ended. *)
WorkerLeaves(w) ==
  /\ w \in Workers /\ busy[w] = Idle /\ (stopped \/ run # "live")
  /\ busy' = [busy EXCEPT ![w] = Gone]
  /\ UNCHANGED <<mode, wire, touched, recorder, session, run, late>>

Reading == \E w \in Readers : \/ TakeBody(w) \/ TakePayload(w) \/ WorkerLeaves(w) \/ PayloadRead(w)
                              \/ \E o \in {"kept", "reason"} : BodyRead(w, o)

-----------------------------------------------------------------------------
(* The session.                                                              *)

(* The budget runs out, or the caller gives up. *)
EndRun(how) ==
  /\ run = "live" /\ stage # "done" /\ run' = how
  /\ UNCHANGED <<mode, wire, touched, recorder, session, busy, late>>

(* prepare, logIn, navigate and checkLoggedIn: any of them may end the scan,
   navigation also by its own timeout. *)
Prepare(err) ==
  /\ stage = "prepare" /\ (run # "live" => err # "none")
  /\ runErr' = err /\ stage' = IF err = "none" THEN "loaded" ELSE "drain"
  /\ UNCHANGED <<mode, wire, touched, recorder, run, busy, stopped, calm, late, result>>

(* What execute does after each wait: the options decide, the hook comes first. *)
Following == [loaded |-> IF "hook" \in Steps THEN {"hook"} ELSE Steps \cup {"drain"},
              acted |-> (Steps \ {"hook"}) \cup {"drain"},
              scrolled |-> (Steps \ {"hook", "scrolled"}) \cup {"drain"}, dwelt |-> {"drain"}]

(* session.settle: the network is quiet, a cap was reached, or the context it
   was given is over.  Only the wait before the hook is cut short to keep the
   hook's share of the budget.  After the last wait execute returns the state
   of its context. *)
Reserved(next) == stage = "loaded" /\ next = "hook"
CutShort(next) == exceeded # "none" \/ run # "live" \/ Reserved(next)
RunError == CASE run = "live" -> "none" [] run = "expired" -> "deadline" [] OTHER -> "other"

Settle(next) ==
  /\ stage \in Settles /\ next \in Following[stage]
  /\ \/ NetworkQuiet /\ calm' = TRUE
     \/ CutShort(next) /\ calm' = FALSE
  /\ stage' = next /\ runErr' = IF next = "drain" THEN RunError ELSE runErr
  /\ UNCHANGED <<mode, wire, touched, recorder, run, busy, stopped, late, result>>

(* markInteracted, which the consent handler calls before it acts. *)
HookMarks ==
  /\ stage = "hook" /\ phase = "pre" /\ phase' = "post"
  /\ UNCHANGED <<mode, wire, touched, records, current, inflight, exceeded, bodyWanted, payloadWanted,
                 docFailed, session, run, busy, late>>

HookActs ==
  /\ stage = "hook" /\ ~touched /\ phase = "post" /\ touched' = TRUE
  /\ UNCHANGED <<mode, wire, recorder, session, run, busy, late>>

(* The hook returns; capture's backstop ends the phase whatever it did. *)
HookReturns ==
  /\ stage = "hook" /\ phase' = "post" /\ stage' = "acted"
  /\ UNCHANGED <<mode, wire, touched, records, current, inflight, exceeded, bodyWanted, payloadWanted,
                 docFailed, run, runErr, busy, stopped, calm, late, result>>

(* stopBodyWorker closes the stop channel once it found both queues empty. *)
StopWorkers ==
  /\ stage = "drain" /\ busy[Session] = Idle /\ bodyWanted = <<>> /\ payloadWanted = <<>>
  /\ stopped' = TRUE /\ stage' = "join"
  /\ UNCHANGED <<mode, wire, touched, recorder, run, runErr, busy, calm, late, result>>

(* The session waits for the pool before anything is assembled. *)

Joined == \A w \in Workers : busy[w] = Gone

(* recorder.finishBodies *)
Accounted(r) == [r EXCEPT !.payload = "settled",
                          !.body = IF Relevant(r) /\ @ = "owed" THEN "reason" ELSE @]

FinishBodies ==
  /\ stage = "join" /\ Joined /\ stage' = "copy"
  /\ records' = IF Stores THEN [i \in DOMAIN records |-> Accounted(records[i])] ELSE records
  /\ UNCHANGED <<mode, wire, touched, current, inflight, exceeded, phase, bodyWanted, payloadWanted,
                 docFailed, run, runErr, busy, stopped, calm, late, result>>

(* recorder.requests: of the copy the result keeps, the requests that have
   neither the body or payload they owe nor a reason, and those said to have
   no body. *)
Unexplained == {i \in DOMAIN records : records[i].payload = "owed"
                                      \/ (Relevant(records[i]) /\ records[i].body = "owed")}

CopyRequests ==
  /\ stage = "copy" /\ stage' = "end" /\ result' = [result EXCEPT !.unexplained = Unexplained,
                                     !.without = {i \in DOMAIN records : records[i].body = "reason"}]
  /\ UNCHANGED <<mode, wire, touched, recorder, run, runErr, busy, stopped, calm, late>>

(* The last part of session.finish: cookies and storage are read in between,
   so the context may have ended since execute returned. *)
Termination ==
  CASE runErr = "other" -> "error"
    [] runErr # "other" /\ docFailed -> "error"
    [] runErr # "other" /\ ~docFailed /\ exceeded = "requests" -> "request-cap"
    [] runErr # "other" /\ ~docFailed /\ exceeded = "bytes" -> "byte-cap"
    [] runErr # "other" /\ ~docFailed /\ exceeded = "none"
         /\ (run = "expired" \/ runErr = "deadline") -> "timeout"
    [] runErr = "none" /\ ~docFailed /\ exceeded = "none" /\ run = "cancelled" -> "error"
    [] OTHER -> "idle"

Conclude ==
  /\ stage = "end" /\ stage' = "done" /\ result' = [result EXCEPT !.termination = Termination]
  /\ UNCHANGED <<mode, wire, touched, recorder, run, runErr, busy, stopped, calm, late>>

SessionStep ==
  \/ \E how \in Endings : EndRun(how)
  \/ \E err \in {"none", "deadline", "other"} : Prepare(err)
  \/ \E next \in Stages : Settle(next)
  \/ HookMarks \/ HookActs \/ HookReturns \/ StopWorkers
  \/ FinishBodies \/ CopyRequests \/ Conclude

Next == BrowserEvent \/ Reading \/ SessionStep

Spec == Init /\ [][Next]_vars

-----------------------------------------------------------------------------
(* Properties.                                                               *)

(* What the settle waits on is true: whatever redirects, failures, drops and
   late events did, the counter equals the recorded requests that are neither
   finished nor beacons, so the wait neither hangs on one that ended nor
   misses one that runs (recorder.go inflightDoneLocked). *)
InflightIsTrue == inflight = Cardinality({i \in DOMAIN records : Active(records[i])})

(* A scan reported as having gone idle is one that did: its last wait ended on
   a quiet network, nothing the page sent before the copy was refused, its
   document loaded, and its budget was not spent when it left the page. *)
IdleMeansIdle ==
  result.termination = "idle" => calm /\ exceeded = "none" /\ ~docFailed /\ runErr = "none"

(* In a scan that stores bodies every request of the result has what it owes,
   or a reason, save those an event changed between finishBodies and the copy;
   and no body the result says was not kept is one that was. *)
EveryBodyAccounted ==
  Stores => /\ result.unexplained \subseteq late
            /\ \A i \in result.without : records[i].body = "reason"

(* A request the interaction caused is never counted as traffic from before
   it: the number the product must not exaggerate. *)
PhaseIsHonest == \A i \in DOMAIN records : records[i].caused => records[i].phase = "post"

=============================================================================
