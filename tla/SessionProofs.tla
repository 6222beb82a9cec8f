------------------------------ MODULE SessionProofs -----------------------------
(* What Session promises, for every value of its constants: of one capture,    *)
(* of one consent interaction, of a series' ledger of bodies and of what is    *)
(* known of a site's robots.txt.  Each machine has an inductive invariant and  *)
(* a lemma per action; the theorems at the end are of their sum.               *)
EXTENDS Session, TLAPS, FiniteSetTheorems, WellFoundedInduction

-----------------------------------------------------------------------------
(* Capture: one scan of one page.                                             *)

RecorderTyped ==
    /\ records \in Seq(C!Record) /\ Len(records) <= MaxRecords
    /\ current \in [Ids -> 0..Len(records)] /\ wire \in [Ids -> {"new", "sent", "answered", "over"}]
    /\ exceeded \in {"none", "requests", "bytes"} /\ phase \in {"pre", "post"}
    /\ bodyWanted \in Seq(Ids) /\ Len(bodyWanted) <= QueueSize
    /\ payloadWanted \in Seq(Ids) /\ Len(payloadWanted) <= QueueSize
ResultType == [unexplained : SUBSET (1..MaxRecords), without : SUBSET (1..MaxRecords),
               termination : {"none", "error", "request-cap", "byte-cap", "timeout", "idle"}]
Reading == [kind : {"body", "payload"}, id : Ids]
ScanTyped ==
    /\ mode \in Modes /\ stage \in C!Stages /\ run \in {"live", "expired", "cancelled"}
    /\ runErr \in {"none", "deadline", "other"} /\ late \subseteq 1..MaxRecords /\ result \in ResultType
    /\ busy \in [C!Readers -> {C!Idle, C!Gone} \cup Reading]
ScanFlags == touched \in BOOLEAN /\ docFailed \in BOOLEAN /\ stopped \in BOOLEAN /\ calm \in BOOLEAN

Waited(s) == {i \in DOMAIN s : C!Active(s[i])}
Counted == inflight = Cardinality(Waited(records))

\* Nothing is caused before the phase has ended.
CausedLater(s) == \A i \in 1..Len(s) : s[i].caused => s[i].phase = "post"
PhaseEnds == (touched => phase = "post") /\ CausedLater(records)

\* What the end of the last wait leaves to be told: a scan that left without an error and
\* without reaching a cap left a quiet network.
Ending == {"drain", "join", "copy", "end", "done"}
WaitTells ==
    /\ stage \notin Ending => runErr = "none"
    /\ stage \in Ending /\ runErr = "none" /\ exceeded = "none" => calm
    /\ stage # "done" => result.termination = "none"
    /\ result.termination = "idle" => calm /\ exceeded = "none" /\ ~docFailed /\ runErr = "none"

\* Nobody reads a body once the pool was waited for.
ReadersLeft ==
    /\ stage \in {"join", "copy", "end", "done"} => busy[C!Session] \in {C!Idle, C!Gone}
    /\ stage \in {"copy", "end", "done"} => \A w \in Workers : busy[w] = C!Gone

\* A record that owes nothing, or of which it is said why; m is the mode.
Explained(m, r) == r.payload = "settled" /\ (m = "all" \/ r.hashed => r.body # "owed")
AllExplained(m, s, T) == \A i \in 1..Len(s) : i \in T \/ Explained(m, s[i])
Refused(s, T) == \A i \in T : i \in 1..Len(s) /\ s[i].body = "reason"
BodiesTold ==
    /\ stage \notin {"end", "done"} => result.unexplained = {} /\ result.without = {}
    /\ Refused(records, result.without)
    /\ mode # "none" => result.unexplained \subseteq late
    /\ mode # "none" /\ stage = "copy" => AllExplained(mode, records, late)

CaptureInv == RecorderTyped /\ ScanTyped /\ ScanFlags /\ Counted /\ PhaseEnds /\ WaitTells /\ ReadersLeft /\ BodiesTold

LEMMA CaptureCounts ==
    \A T : C!Cardinality(T) = Cardinality(T) /\ (C!IsFiniteSet(T) <=> IsFiniteSet(T))
BY DEF C!Cardinality, C!IsFiniteSet, Cardinality, IsFiniteSet

LEMMA CaptureConstants ==
    /\ Document \in Ids /\ MaxRecords \in Nat \ {0} /\ QueueSize \in Nat \ {0}
    /\ Modes \subseteq {"none", "hashed", "all"} /\ Endings \subseteq {"expired", "cancelled"}
    /\ AfterLoad \subseteq {"hook", "scrolled", "dwelt"}
BY SessionAssumption DEF C!CaptureAssumption

LEMMA RecordFields ==
    ASSUME NEW s \in Seq(C!Record), NEW i \in 1..Len(s)
    PROVE  /\ s[i] \in C!Record
           /\ s[i].caused \in BOOLEAN /\ s[i].beacon \in BOOLEAN /\ s[i].finished \in BOOLEAN /\ s[i].hashed \in BOOLEAN
           /\ s[i].want \in BOOLEAN
           /\ s[i].payload \in {"owed", "settled"} /\ s[i].body \in {"owed", "kept", "reason"}
<1>1. s[i] \in C!Record
  OBVIOUS
<1>2. QED
  BY <1>1 DEF C!Record, C!Payload

LEMMA WaitedIsFinite ==
    ASSUME NEW s \in Seq(C!Record)
    PROVE  IsFiniteSet(Waited(s)) /\ Cardinality(Waited(s)) \in 0..Len(s)
<1>1. Len(s) \in Nat /\ DOMAIN s = 1..Len(s)
  OBVIOUS
<1>2. IsFiniteSet(1..Len(s)) /\ Cardinality(1..Len(s)) = Len(s)
  BY <1>1, FS_Interval
<1>3. Waited(s) \in SUBSET (1..Len(s))
  BY <1>1 DEF Waited
<1>4. IsFiniteSet(Waited(s)) /\ Cardinality(Waited(s)) <= Len(s)
  BY <1>2, <1>3, FS_Subset
<1>5. Cardinality(Waited(s)) \in Nat
  BY <1>4, FS_CardinalityType
<1>6. QED
  BY <1>1, <1>4, <1>5

\* One record is changed, or none where it has no place.
LEMMA EditOne ==
    ASSUME NEW s \in Seq(C!Record), NEW j \in Nat, NEW r, j \in 1..Len(s) => r \in C!Record
    PROVE  LET t == [s EXCEPT ![j] = r]
           IN  /\ t \in Seq(C!Record) /\ Len(t) = Len(s)
               /\ \A i \in 1..Len(s) : t[i] = IF i = j THEN r ELSE s[i]
<1> DEFINE t == [s EXCEPT ![j] = r]
<1>1. Len(s) \in Nat /\ DOMAIN s = 1..Len(s) /\ s \in [1..Len(s) -> C!Record]
  OBVIOUS
<1>2. DOMAIN t = 1..Len(s) /\ \A i \in 1..Len(s) : t[i] = IF i = j THEN r ELSE s[i]
  BY <1>1
<1>3. \A i \in 1..Len(s) : t[i] \in C!Record
  BY <1>1, <1>2
<1>4. t \in [1..Len(s) -> C!Record]
  BY <1>1, <1>3
<1> HIDE DEF t
<1>5. t \in Seq(C!Record) /\ Len(t) = Len(s)
  BY <1>1, <1>4
<1>6. QED
  BY <1>2, <1>5 DEF t

\* The count follows what becomes of one record.
LEMMA OneFewer ==
    ASSUME NEW s \in Seq(C!Record), NEW t \in Seq(C!Record), NEW j \in 1..Len(s), Len(t) = Len(s),
           \A i \in 1..Len(s) : i # j => (C!Active(t[i]) <=> C!Active(s[i])),
           ~C!Active(t[j])
    PROVE  Cardinality(Waited(t)) = IF C!Active(s[j]) THEN C!Done(Cardinality(Waited(s))) ELSE Cardinality(Waited(s))
<1>1. DOMAIN s = 1..Len(s) /\ DOMAIN t = 1..Len(s)
  OBVIOUS
<1>2. Waited(t) = Waited(s) \ {j}
  BY <1>1 DEF Waited
<1>3. IsFiniteSet(Waited(s)) /\ Cardinality(Waited(s)) \in Nat
  BY WaitedIsFinite
<1>4. Cardinality(Waited(t)) = IF j \in Waited(s) THEN Cardinality(Waited(s)) - 1 ELSE Cardinality(Waited(s))
  BY <1>2, <1>3, FS_RemoveElement
<1>5. j \in Waited(s) <=> C!Active(s[j])
  BY <1>1 DEF Waited
<1>6. ASSUME j \in Waited(s) PROVE Cardinality(Waited(s)) # 0
  <2>1. Waited(s) # {}
    BY <1>6
  <2>2. QED
    BY <1>3, <2>1, FS_EmptySet
<1>7. QED
  BY <1>3, <1>4, <1>5, <1>6 DEF C!Done

LEMMA AsMany ==
    ASSUME NEW s \in Seq(C!Record), NEW t \in Seq(C!Record), Len(t) = Len(s),
           \A i \in 1..Len(s) : C!Active(t[i]) <=> C!Active(s[i])
    PROVE  Waited(t) = Waited(s)
<1>1. DOMAIN s = 1..Len(s) /\ DOMAIN t = 1..Len(s)
  OBVIOUS
<1>2. QED
  BY <1>1 DEF Waited

LEMMA OneMoreRecord ==
    ASSUME NEW s \in Seq(C!Record), NEW r \in C!Record
    PROVE  /\ Append(s, r) \in Seq(C!Record) /\ Len(Append(s, r)) = Len(s) + 1
           /\ \A i \in 1..Len(s) : Append(s, r)[i] = s[i]
           /\ Append(s, r)[Len(s) + 1] = r
           /\ Cardinality(Waited(Append(s, r))) = Cardinality(Waited(s)) + IF C!Active(r) THEN 1 ELSE 0
<1> DEFINE t == Append(s, r)
           n == Len(s) + 1
<1>1. /\ t \in Seq(C!Record) /\ Len(t) = n /\ DOMAIN s = 1..Len(s) /\ DOMAIN t = 1..n /\ n \in Nat /\ Len(s) \in Nat
      /\ \A i \in 1..Len(s) : t[i] = s[i]
      /\ t[n] = r
  OBVIOUS
<1> HIDE DEF t
<1>2. 1..n = (1..Len(s)) \cup {n} /\ n \notin 1..Len(s)
  BY <1>1
<1>3. Waited(t) = IF C!Active(r) THEN Waited(s) \cup {n} ELSE Waited(s)
  BY <1>1, <1>2 DEF Waited
<1>4. n \notin Waited(s)
  BY <1>1, <1>2 DEF Waited
<1>5. IsFiniteSet(Waited(s)) /\ Cardinality(Waited(s)) \in Nat
  BY WaitedIsFinite
<1>6. Cardinality(Waited(s) \cup {n}) = Cardinality(Waited(s)) + 1
  BY <1>4, <1>5, FS_AddElement
<1>7. Cardinality(Waited(t)) = Cardinality(Waited(s)) + IF C!Active(r) THEN 1 ELSE 0
  BY <1>3, <1>5, <1>6
<1>8. QED
  BY <1>1, <1>7 DEF t

LEMMA CaptureStart == C!Init => CaptureInv
<1> SUFFICES ASSUME C!Init PROVE CaptureInv
  OBVIOUS
<1>0. MaxRecords \in Nat /\ QueueSize \in Nat
  BY CaptureConstants
<1>1. /\ records = <<>> /\ current = [i \in Ids |-> 0] /\ wire = [i \in Ids |-> "new"] /\ exceeded = "none"
      /\ phase = "pre" /\ bodyWanted = <<>> /\ payloadWanted = <<>> /\ inflight = 0
      /\ mode \in Modes /\ stage = "prepare" /\ run = "live" /\ runErr = "none" /\ late = {}
      /\ busy = [w \in C!Readers |-> C!Idle]
      /\ result = [unexplained |-> {}, without |-> {}, termination |-> "none"]
  BY DEF C!Init
<1>2. ScanFlags /\ ~touched
  BY Zenon DEF C!Init, ScanFlags
<1>3. RecorderTyped
  <2>1. records \in Seq(C!Record) /\ Len(records) = 0 /\ bodyWanted \in Seq(Ids) /\ payloadWanted \in Seq(Ids)
        /\ Len(bodyWanted) = 0 /\ Len(payloadWanted) = 0
    BY <1>1
  <2>2. current \in [Ids -> 0..Len(records)] /\ wire \in [Ids -> {"new", "sent", "answered", "over"}]
    BY <1>1, <2>1
  <2>3. QED
    BY <1>0, <1>1, <2>1, <2>2 DEF RecorderTyped
<1>4. ScanTyped
  BY <1>1 DEF ScanTyped, C!Stages, ResultType
<1>5. Counted
  <2>1. Waited(records) = {}
    BY <1>1 DEF Waited
  <2>2. QED
    BY <1>1, <2>1, FS_EmptySet DEF Counted
<1>6. PhaseEnds /\ WaitTells /\ ReadersLeft /\ BodiesTold
  BY <1>1, <1>2 DEF PhaseEnds, CausedLater, WaitTells, Ending, ReadersLeft, BodiesTold, Refused
<1>7. QED
  BY <1>2, <1>3, <1>4, <1>5, <1>6 DEF CaptureInv

-----------------------------------------------------------------------------
\* What an event does to the records: those it is not about owe what they owed.
Follows(s, t, S) ==
    /\ Len(t) >= Len(s)
    /\ \A i \in 1..Len(s) : t[i].caused = s[i].caused /\ t[i].phase = s[i].phase /\ t[i].body \in {s[i].body, "reason"}
    /\ \A i \in 1..Len(t) : i \in S \/ (i \in 1..Len(s) /\ t[i].payload = s[i].payload /\ t[i].hashed = s[i].hashed)

LEMMA EventLands ==
    ASSUME CaptureInv, C!Listening, RecorderTyped', Counted', docFailed' \in BOOLEAN, CausedLater(records'),
           UNCHANGED <<mode, touched, phase, stage, runErr, stopped, calm, result, run, busy>>,
           exceeded' = "none" => exceeded = "none",
           NEW S \in SUBSET (1..MaxRecords), late' = IF stage = "copy" THEN late \cup S ELSE late,
           Follows(records, records', S)
    PROVE  CaptureInv'
<1>0. RecorderTyped /\ ScanTyped /\ ScanFlags /\ Counted /\ PhaseEnds /\ WaitTells /\ ReadersLeft /\ BodiesTold
  BY DEF CaptureInv
<1>1. stage # "done"
  BY DEF C!Listening
<1>2. late \subseteq late' /\ late' \subseteq 1..MaxRecords
  BY <1>0 DEF ScanTyped
<1>3. ScanTyped'
  BY <1>0, <1>2 DEF ScanTyped
<1>4. ScanFlags'
  BY <1>0, Zenon DEF ScanFlags
<1>5. PhaseEnds'
  BY <1>0 DEF PhaseEnds
<1>6. WaitTells'
  <2>1. result.termination = "none"
    BY <1>0, <1>1 DEF WaitTells
  <2>2. QED
    BY <1>0, <1>1, <2>1 DEF WaitTells
<1>7. ReadersLeft'
  BY <1>0 DEF ReadersLeft
<1>8. BodiesTold'
  <2>1. \A i \in 1..Len(records) :
          i \in 1..Len(records') /\ (records[i].body = "reason" => records'[i].body = "reason")
                                 /\ (records[i].body # "owed" => records'[i].body # "owed")
    <3>1. Len(records) \in Nat /\ Len(records') \in Nat
      BY <1>0 DEF RecorderTyped
    <3>2. QED
      BY <3>1 DEF Follows
  <2>2. Refused(records', result.without)
    BY <1>0, <2>1 DEF BodiesTold, Refused
  <2>3. mode # "none" => result.unexplained \subseteq late'
    BY <1>0, <1>2 DEF BodiesTold
  <2>4. ASSUME mode # "none", stage = "copy" PROVE AllExplained(mode, records', late')
    <3>1. AllExplained(mode, records, late) /\ late' = late \cup S
      BY <1>0, <2>4 DEF BodiesTold
    <3>2. SUFFICES ASSUME NEW i \in 1..Len(records'), i \notin late' PROVE Explained(mode, records'[i])
      BY DEF AllExplained
    <3>3. i \notin S /\ i \notin late
      BY <3>1, <3>2
    <3>4. i \in 1..Len(records) /\ records'[i].payload = records[i].payload /\ records'[i].hashed = records[i].hashed
      BY <3>3 DEF Follows
    <3>5. Explained(mode, records[i])
      BY <3>1, <3>3, <3>4 DEF AllExplained
    <3>6. QED
      BY <2>1, <3>4, <3>5 DEF Explained
  <2>5. QED
    BY <1>0, <2>2, <2>3, <2>4 DEF BodiesTold
<1>9. QED
  BY <1>3, <1>4, <1>5, <1>6, <1>7, <1>8 DEF CaptureInv

LEMMA EditFollows ==
    ASSUME NEW s \in Seq(C!Record), NEW j \in 0..Len(s), NEW r, NEW S,
           j # 0 => r \in C!Record /\ r.caused = s[j].caused /\ r.phase = s[j].phase /\ r.body \in {s[j].body, "reason"},
           j = 0 \/ j \in S \/ (r.payload = s[j].payload /\ r.hashed = s[j].hashed),
           CausedLater(s)
    PROVE  LET t == [s EXCEPT ![j] = r]
           IN  t \in Seq(C!Record) /\ Len(t) = Len(s) /\ Follows(s, t, S) /\ CausedLater(t)
<1> DEFINE t == [s EXCEPT ![j] = r]
<1>1. Len(s) \in Nat /\ (j # 0 => j \in 1..Len(s)) /\ j \in Nat
  OBVIOUS
<1>2. t \in Seq(C!Record) /\ Len(t) = Len(s) /\ \A i \in 1..Len(s) : t[i] = IF i = j THEN r ELSE s[i]
  BY <1>1, EditOne
<1> HIDE DEF t
<1>3. Follows(s, t, S)
  BY <1>1, <1>2 DEF Follows
<1>4. CausedLater(t)
  BY <1>1, <1>2 DEF CausedLater
<1>5. QED
  BY <1>2, <1>3, <1>4 DEF t

LEMMA FinishedFields ==
    ASSUME NEW r \in C!Record
    PROVE  LET f == [r EXCEPT !.finished = TRUE]
           IN  /\ f \in C!Record /\ ~C!Active(f)
               /\ f.caused = r.caused /\ f.phase = r.phase /\ f.body = r.body /\ f.payload = r.payload /\ f.hashed = r.hashed
<1> DEFINE f == [r EXCEPT !.finished = TRUE]
<1>1. f \in C!Record
  BY DEF C!Record
<1>2. f.finished = TRUE /\ f.caused = r.caused /\ f.phase = r.phase /\ f.body = r.body /\ f.payload = r.payload
      /\ f.hashed = r.hashed
  BY DEF C!Record
<1>3. QED
  BY <1>1, <1>2 DEF C!Active

LEMMA PlannedFields ==
    ASSUME NEW r \in C!Record, NEW h \in BOOLEAN
    PROVE  LET p == C!Planned(r, h)
           IN  /\ p \in C!Record /\ (C!Active(p) <=> C!Active(r))
               /\ p.caused = r.caused /\ p.phase = r.phase /\ p.body = r.body /\ p.payload = r.payload
<1> DEFINE p == C!Planned(r, h)
<1>1. r.hashed \in BOOLEAN /\ r.want \in BOOLEAN
  BY DEF C!Record
<1>2. (r.hashed \/ h) \in BOOLEAN /\ (r.want \/ h \/ mode = "all") \in BOOLEAN
  BY <1>1, Zenon
<1>3. p = [r EXCEPT !.hashed = (r.hashed \/ h), !.want = (r.want \/ h \/ mode = "all")]
  BY DEF C!Planned
<1>4. p \in C!Record
  BY <1>2, <1>3 DEF C!Record
<1>5. p.finished = r.finished /\ p.beacon = r.beacon /\ p.caused = r.caused /\ p.phase = r.phase /\ p.body = r.body
      /\ p.payload = r.payload
  BY <1>3 DEF C!Record
<1>6. QED
  BY <1>4, <1>5 DEF C!Active

LEMMA ResponseReceivedStep ==
    ASSUME CaptureInv, C!Listening, NEW id \in Ids, C!ResponseReceived(id) PROVE CaptureInv'
<1> DEFINE j == current[id]
<1>0. RecorderTyped /\ Counted /\ ScanFlags /\ CausedLater(records)
  BY DEF CaptureInv, PhaseEnds
<1>1. /\ UNCHANGED <<mode, touched, current, inflight, exceeded, phase, bodyWanted, payloadWanted, docFailed>>
      /\ UNCHANGED <<stage, runErr, stopped, calm, result, run, busy>>
      /\ wire' = [wire EXCEPT ![id] = "answered"]
      /\ records' = IF j = 0 THEN records ELSE [records EXCEPT ![j] = C!Planned(records[j], id \in Scripts)]
      /\ late' = IF stage = "copy" THEN late \cup ({j} \ {0}) ELSE late
  BY DEF C!ResponseReceived, C!Note, C!session
<1>2. records \in Seq(C!Record) /\ j \in 0..Len(records) /\ Len(records) \in Nat /\ Len(records) <= MaxRecords /\ MaxRecords \in Nat
  BY <1>0, CaptureConstants DEF RecorderTyped
<1> HIDE DEF j
<1>3. ({j} \ {0}) \in SUBSET (1..MaxRecords)
  BY <1>2
<1>4. /\ records' \in Seq(C!Record) /\ Len(records') = Len(records) /\ CausedLater(records')
      /\ Follows(records, records', {j} \ {0}) /\ Waited(records') = Waited(records)
  <2>1. CASE j = 0
    <3>1. records' = records
      BY <1>1, <2>1
    <3>2. QED
      BY <1>0, <1>2, <3>1 DEF Follows
  <2>2. CASE j # 0
    <3> DEFINE p == C!Planned(records[j], id \in Scripts)
    <3>1. j \in 1..Len(records)
      BY <1>2, <2>2
    <3>2. records[j] \in C!Record
      BY <1>2, <3>1
    <3>3. (id \in Scripts) \in BOOLEAN
      OBVIOUS
    <3>4. /\ p \in C!Record /\ (C!Active(p) <=> C!Active(records[j]))
          /\ p.caused = records[j].caused /\ p.phase = records[j].phase /\ p.body = records[j].body
      BY <3>2, <3>3, PlannedFields
    <3>5. records' = [records EXCEPT ![j] = p]
      BY <1>1, <2>2
    <3> HIDE DEF p
    <3>6. /\ records' \in Seq(C!Record) /\ Len(records') = Len(records) /\ CausedLater(records')
          /\ Follows(records, records', {j} \ {0})
      BY <1>0, <1>2, <2>2, <3>1, <3>4, <3>5, EditFollows
    <3>7. \A i \in 1..Len(records) : records'[i] = IF i = j THEN p ELSE records[i]
      BY <1>2, <3>1, <3>4, <3>5, EditOne
    <3>8. Waited(records') = Waited(records)
      BY <1>2, <3>4, <3>6, <3>7, AsMany
    <3>9. QED
      BY <3>6, <3>8
  <2>3. QED
    BY <2>1, <2>2
<1>5. RecorderTyped'
  BY <1>0, <1>1, <1>4 DEF RecorderTyped
<1>6. Counted'
  BY <1>0, <1>1, <1>4 DEF Counted
<1>7. docFailed' \in BOOLEAN
  BY <1>0, <1>1, Zenon DEF ScanFlags
<1>8. QED
  BY <1>1, <1>3, <1>4, <1>5, <1>6, <1>7, EventLands

\* The hop an event finishes, where there is one to finish.
LEMMA HopEnds ==
    ASSUME CaptureInv, NEW id \in Ids, C!Open(id), NEW r \in C!Record, NEW S,
           r.caused = C!Hop(id).caused, r.phase = C!Hop(id).phase, r.body \in {C!Hop(id).body, "reason"}, ~C!Active(r),
           current[id] \in S \/ (r.payload = C!Hop(id).payload /\ r.hashed = C!Hop(id).hashed)
    PROVE  LET t == [records EXCEPT ![current[id]] = r]
           IN  /\ current[id] \in 1..Len(records)
               /\ t \in Seq(C!Record) /\ Len(t) = Len(records) /\ Follows(records, t, S) /\ CausedLater(t)
               /\ Cardinality(Waited(t)) = IF C!Hop(id).beacon THEN inflight ELSE C!Done(inflight)
<1> DEFINE j == current[id]
           t == [records EXCEPT ![j] = r]
<1>1. records \in Seq(C!Record) /\ j \in 0..Len(records) /\ Len(records) \in Nat /\ Counted /\ CausedLater(records)
  BY DEF CaptureInv, RecorderTyped, PhaseEnds
<1>2. j # 0 /\ ~records[j].finished /\ C!Hop(id) = records[j]
  BY DEF C!Open, C!Hop
<1> HIDE DEF j
<1>3. j \in 1..Len(records)
  BY <1>1, <1>2
<1>4. t \in Seq(C!Record) /\ Len(t) = Len(records) /\ Follows(records, t, S) /\ CausedLater(t)
  BY <1>1, <1>2, <1>3, EditFollows DEF j
<1>5. \A i \in 1..Len(records) : t[i] = IF i = j THEN r ELSE records[i]
  BY <1>1, <1>3, EditOne
<1> HIDE DEF t
<1>6. Cardinality(Waited(t)) = IF C!Active(records[j]) THEN C!Done(Cardinality(Waited(records))) ELSE Cardinality(Waited(records))
  BY <1>1, <1>3, <1>4, <1>5, OneFewer
<1>7. C!Active(records[j]) <=> ~records[j].beacon
  BY <1>2 DEF C!Active
<1>8. QED
  BY <1>1, <1>2, <1>3, <1>4, <1>6, <1>7 DEF Counted, j, t

LEMMA LoadingFailedStep ==
    ASSUME CaptureInv, C!Listening, NEW id \in Ids, C!LoadingFailed(id) PROVE CaptureInv'
<1> DEFINE j == current[id]
           f == [C!Hop(id) EXCEPT !.finished = TRUE]
<1>0. RecorderTyped /\ Counted /\ ScanFlags /\ CausedLater(records)
  BY DEF CaptureInv, PhaseEnds
<1>1. /\ UNCHANGED <<mode, touched, current, exceeded, phase, bodyWanted, payloadWanted>>
      /\ UNCHANGED <<stage, runErr, stopped, calm, result, run, busy>>
      /\ wire' = [wire EXCEPT ![id] = "over"]
      /\ docFailed' = (docFailed \/ id = Document)
      /\ records' = IF C!Open(id) THEN [records EXCEPT ![j] = f] ELSE records
      /\ inflight' = IF C!Open(id) /\ ~C!Hop(id).beacon THEN C!Done(inflight) ELSE inflight
      /\ late' = IF stage = "copy" THEN late \cup ({j} \ {0}) ELSE late
  BY DEF C!LoadingFailed, C!Note, C!session, C!Hop
<1>2. records \in Seq(C!Record) /\ j \in 0..Len(records) /\ Len(records) \in Nat /\ Len(records) <= MaxRecords /\ MaxRecords \in Nat
  BY <1>0, CaptureConstants DEF RecorderTyped
<1>3. ({j} \ {0}) \in SUBSET (1..MaxRecords)
  BY <1>2
<1>4. /\ records' \in Seq(C!Record) /\ Len(records') = Len(records) /\ CausedLater(records')
      /\ Follows(records, records', {j} \ {0}) /\ inflight' = Cardinality(Waited(records'))
  <2>1. CASE ~C!Open(id)
    <3>1. records' = records /\ inflight' = inflight
      BY <1>1, <2>1
    <3>2. QED
      BY <1>0, <1>2, <3>1 DEF Follows, Counted
  <2>2. CASE C!Open(id)
    <3>1. C!Hop(id) \in C!Record
      BY <1>2, <2>2 DEF C!Hop, C!Open
    <3>2. /\ f \in C!Record /\ ~C!Active(f) /\ f.caused = C!Hop(id).caused /\ f.phase = C!Hop(id).phase
          /\ f.body = C!Hop(id).body /\ f.payload = C!Hop(id).payload /\ f.hashed = C!Hop(id).hashed
      BY <3>1, FinishedFields
    <3>3. records' = [records EXCEPT ![current[id]] = f]
      BY <1>1, <2>2
    <3>4. inflight' = IF C!Hop(id).beacon THEN inflight ELSE C!Done(inflight)
      BY <1>1, <2>2
    <3> HIDE DEF f
    <3>5. QED
      BY <2>2, <3>2, <3>3, <3>4, HopEnds
  <2>3. QED
    BY <2>1, <2>2
<1>5. RecorderTyped'
  BY <1>0, <1>1, <1>4 DEF RecorderTyped
<1>6. Counted'
  BY <1>4 DEF Counted
<1>7. docFailed' \in BOOLEAN
  BY <1>0, <1>1, Zenon DEF ScanFlags
<1>8. QED
  BY <1>1, <1>3, <1>4, <1>5, <1>6, <1>7, EventLands

LEMMA LoadingFinishedStep ==
    ASSUME CaptureInv, C!Listening, NEW id \in Ids, NEW over \in BOOLEAN, C!LoadingFinished(id, over) PROVE CaptureInv'
<1> DEFINE j == current[id]
<1>0. RecorderTyped /\ Counted /\ ScanFlags /\ CausedLater(records)
  BY DEF CaptureInv, PhaseEnds
<1>1. /\ UNCHANGED <<mode, touched, current, phase, payloadWanted, docFailed>>
      /\ UNCHANGED <<stage, runErr, stopped, calm, result, run, busy>>
      /\ wire' = [wire EXCEPT ![id] = "over"]
  BY DEF C!LoadingFinished, C!session
<1>2. records \in Seq(C!Record) /\ j \in 0..Len(records) /\ Len(records) \in Nat /\ Len(records) <= MaxRecords /\ MaxRecords \in Nat
  BY <1>0, CaptureConstants DEF RecorderTyped
<1>3. docFailed' \in BOOLEAN
  BY <1>0, <1>1, Zenon DEF ScanFlags
<1>4. CASE ~C!Open(id)
  <2>1. UNCHANGED <<records, bodyWanted, inflight, exceeded, late>>
    BY <1>4 DEF C!LoadingFinished
  <2>2. RecorderTyped'
    BY <1>0, <1>1, <2>1 DEF RecorderTyped
  <2>3. Counted' /\ CausedLater(records')
    BY <1>0, <2>1 DEF Counted
  <2>4. Follows(records, records', {})
    BY <1>2, <2>1 DEF Follows
  <2>5. late' = IF stage = "copy" THEN late \cup {} ELSE late
    BY <2>1
  <2>6. {} \in SUBSET (1..MaxRecords)
    OBVIOUS
  <2>7. QED
    BY <1>1, <1>3, <2>1, <2>2, <2>3, <2>4, <2>5, <2>6, EventLands
<1>5. CASE C!Open(id)
  <2> DEFINE asked == C!Hop(id).want /\ Len(bodyWanted) < QueueSize
             told == IF C!Hop(id).want /\ ~asked THEN "reason" ELSE C!Hop(id).body
             r == [C!Hop(id) EXCEPT !.finished = TRUE, !.body = told]
  <2>1. /\ records' = [records EXCEPT ![j].finished = TRUE,
                                      ![j].body = IF C!Hop(id).want /\ ~asked THEN "reason" ELSE @]
        /\ bodyWanted' = IF asked THEN Append(bodyWanted, id) ELSE bodyWanted
        /\ inflight' = IF C!Hop(id).beacon THEN inflight ELSE C!Done(inflight)
        /\ exceeded' = IF over /\ exceeded = "none" THEN "bytes" ELSE exceeded
        /\ late' = IF stage = "copy" THEN late \cup {j} ELSE late
    BY <1>5 DEF C!LoadingFinished, C!Note
  <2>2. C!Hop(id) = records[j] /\ j \in 1..Len(records)
    BY <1>2, <1>5 DEF C!Hop, C!Open
  <2>3. C!Hop(id) \in C!Record
    BY <1>2, <2>2
  <2>4. records' = [records EXCEPT ![j] = r]
    BY <1>2, <2>1, <2>2
  <2>5. /\ r \in C!Record /\ r.finished = TRUE /\ r.caused = C!Hop(id).caused /\ r.phase = C!Hop(id).phase
        /\ r.body \in {C!Hop(id).body, "reason"}
    <3>1. told \in {"owed", "kept", "reason"} /\ told \in {C!Hop(id).body, "reason"}
      BY <2>3 DEF C!Record
    <3> HIDE DEF told
    <3>2. QED
      BY <2>3, <3>1 DEF C!Record
  <2>6. ~C!Active(r)
    BY <2>5 DEF C!Active
  <2>7. bodyWanted' \in Seq(Ids) /\ Len(bodyWanted') <= QueueSize
    <3>1. bodyWanted \in Seq(Ids) /\ Len(bodyWanted) <= QueueSize /\ QueueSize \in Nat
      BY <1>0, CaptureConstants DEF RecorderTyped
    <3>2. CASE asked
      <4>1. bodyWanted' = Append(bodyWanted, id) /\ Len(bodyWanted) < QueueSize
        BY <2>1, <3>2
      <4>2. QED
        BY <3>1, <4>1
    <3>3. CASE ~asked
      BY <2>1, <3>1, <3>3
    <3>4. QED
      BY <3>2, <3>3
  <2> HIDE DEF r, asked, told
  <2>8. /\ records' \in Seq(C!Record) /\ Len(records') = Len(records) /\ CausedLater(records')
        /\ Follows(records, records', {j}) /\ inflight' = Cardinality(Waited(records'))
    <3>1. /\ [records EXCEPT ![current[id]] = r] \in Seq(C!Record)
          /\ Len([records EXCEPT ![current[id]] = r]) = Len(records)
          /\ Follows(records, [records EXCEPT ![current[id]] = r], {current[id]})
          /\ CausedLater([records EXCEPT ![current[id]] = r])
          /\ Cardinality(Waited([records EXCEPT ![current[id]] = r]))
               = IF C!Hop(id).beacon THEN inflight ELSE C!Done(inflight)
      BY <1>5, <2>5, <2>6, HopEnds
    <3>2. QED
      BY <2>1, <2>4, <3>1
  <2>9. RecorderTyped'
    BY <1>0, <1>1, <2>1, <2>7, <2>8 DEF RecorderTyped
  <2>10. Counted'
    BY <2>8 DEF Counted
  <2>11. (exceeded' = "none" => exceeded = "none") /\ {j} \in SUBSET (1..MaxRecords)
    BY <1>2, <2>1, <2>2
  <2>12. QED
    BY <1>1, <1>3, <2>1, <2>8, <2>9, <2>10, <2>11, EventLands
<1>6. QED
  BY <1>4, <1>5

\* A request that begins: the hop before it, where it is redirected, ends.
LEMMA HopBefore ==
    ASSUME CaptureInv, NEW id \in Ids, NEW redirect \in BOOLEAN
    PROVE  LET t == C!Redirected(id, redirect)
           IN  /\ t \in Seq(C!Record) /\ Len(t) = Len(records) /\ Follows(records, t, {}) /\ CausedLater(t)
               /\ Cardinality(Waited(t)) = C!Released(id, redirect)
<1> DEFINE t == C!Redirected(id, redirect)
           f == [C!Hop(id) EXCEPT !.finished = TRUE]
<1>1. records \in Seq(C!Record) /\ Counted /\ CausedLater(records) /\ current[id] \in 0..Len(records)
  BY DEF CaptureInv, RecorderTyped, PhaseEnds
<1>2. CASE ~(redirect /\ C!Open(id))
  <2>1. t = records /\ C!Released(id, redirect) = inflight
    BY <1>2 DEF C!Redirected, C!Released
  <2>2. Len(records) \in Nat
    BY <1>1
  <2>3. QED
    BY <1>1, <2>1, <2>2 DEF Follows, Counted
<1>3. CASE redirect /\ C!Open(id)
  <2>1. C!Hop(id) \in C!Record
    BY <1>1, <1>3 DEF C!Hop, C!Open
  <2>2. /\ f \in C!Record /\ ~C!Active(f) /\ f.caused = C!Hop(id).caused /\ f.phase = C!Hop(id).phase
        /\ f.body = C!Hop(id).body /\ f.payload = C!Hop(id).payload /\ f.hashed = C!Hop(id).hashed
    BY <2>1, FinishedFields
  <2>3. t = [records EXCEPT ![current[id]] = f]
    BY <1>3 DEF C!Redirected, C!Hop
  <2>4. C!Released(id, redirect) = IF C!Hop(id).beacon THEN inflight ELSE C!Done(inflight)
    BY <1>3 DEF C!Released
  <2> HIDE DEF f, t
  <2>5. /\ [records EXCEPT ![current[id]] = f] \in Seq(C!Record)
        /\ Len([records EXCEPT ![current[id]] = f]) = Len(records)
        /\ Follows(records, [records EXCEPT ![current[id]] = f], {})
        /\ CausedLater([records EXCEPT ![current[id]] = f])
        /\ Cardinality(Waited([records EXCEPT ![current[id]] = f]))
             = IF C!Hop(id).beacon THEN inflight ELSE C!Done(inflight)
    BY <1>3, <2>2, HopEnds
  <2>6. QED
    BY <2>3, <2>4, <2>5 DEF t
<1>4. QED
  BY <1>2, <1>3

\* A record is added; it is caused only once the phase has ended.
LEMMA RecordAdded ==
    ASSUME CaptureInv, NEW b \in Seq(C!Record), Len(b) = Len(records), Follows(records, b, {}), CausedLater(b),
           NEW r \in C!Record, r.caused = touched, r.phase = phase
    PROVE  LET t == Append(b, r)
           IN  /\ t \in Seq(C!Record) /\ Len(t) = Len(records) + 1
               /\ Follows(records, t, {Len(records) + 1}) /\ CausedLater(t)
               /\ Cardinality(Waited(t)) = Cardinality(Waited(b)) + IF C!Active(r) THEN 1 ELSE 0
<1> DEFINE t == Append(b, r)
           n == Len(records) + 1
<1>1. records \in Seq(C!Record) /\ Len(records) \in Nat /\ (touched => phase = "post")
  BY DEF CaptureInv, RecorderTyped, PhaseEnds
<1>2. /\ t \in Seq(C!Record) /\ Len(t) = n /\ (\A i \in 1..Len(b) : t[i] = b[i]) /\ t[n] = r
      /\ Cardinality(Waited(t)) = Cardinality(Waited(b)) + IF C!Active(r) THEN 1 ELSE 0
  BY OneMoreRecord
<1> HIDE DEF t
<1>3. \A i \in 1..n : i = n \/ i \in 1..Len(b)
  BY <1>1
<1>4. Follows(records, t, {n})
  BY <1>1, <1>2, <1>3 DEF Follows
<1>5. CausedLater(t)
  BY <1>1, <1>2, <1>3 DEF CausedLater
<1>6. QED
  BY <1>2, <1>4, <1>5 DEF t

LEMMA RequestWillBeSentStep ==
    ASSUME CaptureInv, C!Listening, NEW id \in Ids, NEW redirect \in BOOLEAN, NEW typed \in BOOLEAN, NEW beacon \in BOOLEAN,
           NEW payload \in C!Payload, C!RequestWillBeSent(id, redirect, typed, beacon, payload)
    PROVE  CaptureInv'
<1> DEFINE before == C!Redirected(id, redirect)
           room == exceeded = "none" /\ Len(records) < MaxRecords
           asked == payload = "owed" /\ Len(payloadWanted) < QueueSize
           h == typed /\ id \in Scripts
           hop == [id |-> id, phase |-> phase, caused |-> touched, beacon |-> beacon,
                   hop |-> IF redirect THEN current[id] ELSE 0,
                   hashed |-> FALSE, want |-> FALSE, body |-> "owed", finished |-> FALSE,
                   payload |-> IF asked THEN "owed" ELSE "settled"]
           r == C!Planned(hop, h)
           n == Len(records) + 1
<1>0. RecorderTyped /\ Counted /\ ScanFlags /\ CausedLater(records)
  BY DEF CaptureInv, PhaseEnds
<1>1. /\ UNCHANGED <<mode, touched, phase, bodyWanted, docFailed>>
      /\ UNCHANGED <<stage, runErr, stopped, calm, result, run, busy>>
      /\ wire' = [wire EXCEPT ![id] = "sent"]
  BY DEF C!RequestWillBeSent, C!session
<1>2. /\ records \in Seq(C!Record) /\ current[id] \in 0..Len(records) /\ Len(records) \in Nat
      /\ Len(records) <= MaxRecords /\ MaxRecords \in Nat
  BY <1>0, CaptureConstants DEF RecorderTyped
<1>3. docFailed' \in BOOLEAN /\ touched \in BOOLEAN
  BY <1>0, <1>1, Zenon DEF ScanFlags
<1>4. /\ before \in Seq(C!Record) /\ Len(before) = Len(records) /\ Follows(records, before, {}) /\ CausedLater(before)
      /\ Cardinality(Waited(before)) = C!Released(id, redirect)
  BY HopBefore
<1>5. /\ room => /\ records' = Append(before, r)
                 /\ current' = [current EXCEPT ![id] = n]
                 /\ inflight' = C!Released(id, redirect) + IF beacon THEN 0 ELSE 1
                 /\ payloadWanted' = IF asked THEN Append(payloadWanted, id) ELSE payloadWanted
                 /\ exceeded' = exceeded
                 /\ late' = IF stage = "copy" THEN late \cup {n} ELSE late
      /\ ~room => /\ records' = before /\ inflight' = C!Released(id, redirect)
                  /\ exceeded' = IF exceeded = "none" THEN "requests" ELSE exceeded
                  /\ UNCHANGED <<current, payloadWanted, late>>
  BY DEF C!RequestWillBeSent, C!Note
<1> HIDE DEF before
<1>6. CASE ~room
  <2>1. /\ records' = before /\ inflight' = C!Released(id, redirect)
        /\ exceeded' = IF exceeded = "none" THEN "requests" ELSE exceeded
        /\ UNCHANGED <<current, payloadWanted, late>>
    BY <1>5, <1>6
  <2>2. RecorderTyped'
    BY <1>0, <1>1, <1>4, <2>1 DEF RecorderTyped
  <2>3. Counted' /\ CausedLater(records') /\ Follows(records, records', {})
    BY <1>4, <2>1 DEF Counted
  <2>4. late' = (IF stage = "copy" THEN late \cup {} ELSE late) /\ {} \in SUBSET (1..MaxRecords)
    BY <2>1
  <2>5. exceeded' = "none" => exceeded = "none"
    BY <2>1
  <2>6. QED
    BY <1>1, <1>3, <2>2, <2>3, <2>4, <2>5, EventLands
<1>7. CASE room
  <2>1. /\ records' = Append(before, r)
        /\ current' = [current EXCEPT ![id] = n]
        /\ inflight' = C!Released(id, redirect) + IF beacon THEN 0 ELSE 1
        /\ payloadWanted' = IF asked THEN Append(payloadWanted, id) ELSE payloadWanted
        /\ exceeded' = exceeded
        /\ late' = IF stage = "copy" THEN late \cup {n} ELSE late
    BY <1>5, <1>7
  <2>2. hop \in C!Record
    <3>1. (IF redirect THEN current[id] ELSE 0) \in Nat /\ phase \in {"pre", "post"}
      BY <1>0, <1>2 DEF RecorderTyped
    <3>2. (IF asked THEN "owed" ELSE "settled") \in C!Payload
      BY DEF C!Payload
    <3> HIDE DEF asked
    <3>3. QED
      BY <1>3, <3>1, <3>2 DEF C!Record
  <2>3. h \in BOOLEAN
    OBVIOUS
  <2>4. C!Active(hop) <=> ~beacon
    BY DEF C!Active
  <2>5. hop.caused = touched /\ hop.phase = phase
    OBVIOUS
  <2> HIDE DEF hop, h
  <2>6. r \in C!Record /\ (C!Active(r) <=> ~beacon) /\ r.caused = touched /\ r.phase = phase
    BY <2>2, <2>3, <2>4, <2>5, PlannedFields
  <2> HIDE DEF r
  <2>7. /\ records' \in Seq(C!Record) /\ Len(records') = n
        /\ Follows(records, records', {n}) /\ CausedLater(records')
        /\ Cardinality(Waited(records')) = C!Released(id, redirect) + IF C!Active(r) THEN 1 ELSE 0
    <3>1. /\ Append(before, r) \in Seq(C!Record) /\ Len(Append(before, r)) = n
          /\ Follows(records, Append(before, r), {n}) /\ CausedLater(Append(before, r))
          /\ Cardinality(Waited(Append(before, r))) = Cardinality(Waited(before)) + IF C!Active(r) THEN 1 ELSE 0
      BY <1>4, <2>6, RecordAdded
    <3>2. QED
      BY <1>4, <2>1, <3>1
  <2>8. Counted'
    BY <2>1, <2>6, <2>7 DEF Counted
  <2>9. RecorderTyped'
    <3>1. Len(records') <= MaxRecords /\ n \in 0..Len(records')
      BY <1>2, <1>7, <2>7
    <3>2. current' \in [Ids -> 0..Len(records')]
      <4>1. current \in [Ids -> 0..Len(records)]
        BY <1>0 DEF RecorderTyped
      <4>2. \A i \in Ids : current[i] \in 0..Len(records')
        BY <1>2, <2>7, <4>1
      <4>3. current' = [current EXCEPT ![id] = n]
        BY <2>1
      <4> HIDE DEF n
      <4>4. QED
        BY <3>1, <4>1, <4>2, <4>3
    <3>3. payloadWanted' \in Seq(Ids) /\ Len(payloadWanted') <= QueueSize
      <4>1. payloadWanted \in Seq(Ids) /\ Len(payloadWanted) <= QueueSize /\ QueueSize \in Nat
        BY <1>0, CaptureConstants DEF RecorderTyped
      <4>2. CASE asked
        <5>1. payloadWanted' = Append(payloadWanted, id) /\ Len(payloadWanted) < QueueSize
          BY <2>1, <4>2
        <5>2. QED
          BY <4>1, <5>1
      <4>3. CASE ~asked
        BY <2>1, <4>1, <4>3
      <4>4. QED
        BY <4>2, <4>3
    <3>4. wire' \in [Ids -> {"new", "sent", "answered", "over"}]
      BY <1>0, <1>1 DEF RecorderTyped
    <3>5. QED
      BY <1>0, <1>1, <2>1, <2>7, <3>1, <3>2, <3>3, <3>4 DEF RecorderTyped
  <2>10. {n} \in SUBSET (1..MaxRecords)
    BY <1>2, <1>7
  <2>11. QED
    BY <1>1, <1>3, <2>1, <2>7, <2>8, <2>9, <2>10, EventLands
<1>8. QED
  BY <1>6, <1>7

LEMMA WebSocketCreatedStep ==
    ASSUME CaptureInv, C!Listening, NEW id \in Ids, C!WebSocketCreated(id) PROVE CaptureInv'
<1> DEFINE r == [id |-> id, phase |-> phase, caused |-> touched, beacon |-> FALSE, hop |-> 0,
                 hashed |-> FALSE, want |-> FALSE, payload |-> "settled", body |-> "owed", finished |-> TRUE]
           room == exceeded = "none" /\ Len(records) < MaxRecords
           n == Len(records) + 1
<1>0. RecorderTyped /\ Counted /\ ScanFlags /\ CausedLater(records)
  BY DEF CaptureInv, PhaseEnds
<1>1. /\ UNCHANGED <<mode, touched, phase, current, inflight, bodyWanted, payloadWanted, docFailed>>
      /\ UNCHANGED <<stage, runErr, stopped, calm, result, run, busy>>
      /\ wire' = [wire EXCEPT ![id] = "over"]
  BY DEF C!WebSocketCreated, C!session
<1>2. /\ records \in Seq(C!Record) /\ Len(records) \in Nat /\ Len(records) <= MaxRecords /\ MaxRecords \in Nat
  BY <1>0, CaptureConstants DEF RecorderTyped
<1>3. docFailed' \in BOOLEAN /\ touched \in BOOLEAN
  BY <1>0, <1>1, Zenon DEF ScanFlags
<1>4. Follows(records, records, {})
  BY <1>2 DEF Follows
<1>5. CASE ~room
  <2>1. /\ exceeded' = (IF exceeded = "none" THEN "requests" ELSE exceeded)
        /\ UNCHANGED <<records, late>>
    BY <1>5 DEF C!WebSocketCreated
  <2>2. RecorderTyped' /\ Counted' /\ CausedLater(records')
    BY <1>0, <1>1, <2>1 DEF RecorderTyped, Counted
  <2>3. late' = (IF stage = "copy" THEN late \cup {} ELSE late) /\ {} \in SUBSET (1..MaxRecords)
        /\ Follows(records, records', {}) /\ (exceeded' = "none" => exceeded = "none")
    BY <1>4, <2>1
  <2>4. QED
    BY <1>1, <1>3, <2>2, <2>3, EventLands
<1>6. CASE room
  <2>1. /\ records' = Append(records, r) /\ exceeded' = exceeded
        /\ late' = IF stage = "copy" THEN late \cup {n} ELSE late
    BY <1>6 DEF C!WebSocketCreated, C!Note
  <2>2. r \in C!Record
    BY <1>0, <1>3 DEF C!Record, C!Payload, RecorderTyped
  <2>3. ~C!Active(r) /\ r.caused = touched /\ r.phase = phase
    BY DEF C!Active
  <2> HIDE DEF r
  <2>4. /\ Append(records, r) \in Seq(C!Record) /\ Len(Append(records, r)) = n
        /\ Follows(records, Append(records, r), {n}) /\ CausedLater(Append(records, r))
        /\ Cardinality(Waited(Append(records, r))) = Cardinality(Waited(records)) + IF C!Active(r) THEN 1 ELSE 0
    BY <1>0, <1>2, <1>4, <2>2, <2>3, RecordAdded
  <2>5. Cardinality(Waited(records)) \in Nat
    BY <1>2, WaitedIsFinite
  <2>6. Counted'
    BY <1>0, <1>1, <2>1, <2>3, <2>4, <2>5 DEF Counted
  <2>7. RecorderTyped'
    <3>1. Len(records') <= MaxRecords /\ records' \in Seq(C!Record) /\ Len(records') = n
      BY <1>2, <1>6, <2>1, <2>4
    <3>2. current' \in [Ids -> 0..Len(records')]
      <4>1. current \in [Ids -> 0..Len(records)] /\ current' = current
        BY <1>0, <1>1 DEF RecorderTyped
      <4>2. 0..Len(records) \subseteq 0..Len(records')
        BY <1>2, <3>1
      <4>3. QED
        BY <4>1, <4>2
    <3>3. QED
      BY <1>0, <1>1, <2>1, <3>1, <3>2 DEF RecorderTyped
  <2>8. {n} \in SUBSET (1..MaxRecords)
    BY <1>2, <1>6
  <2>9. QED
    BY <1>1, <1>3, <2>1, <2>4, <2>6, <2>7, <2>8, EventLands
<1>7. QED
  BY <1>5, <1>6

LEMMA BrowserStep == ASSUME CaptureInv, C!BrowserEvent PROVE CaptureInv'
<1>1. C!Listening
  BY DEF C!BrowserEvent
<1>2. CASE \E id \in Ids, redirect, typed, beacon \in BOOLEAN, payload \in C!Payload :
             C!RequestWillBeSent(id, redirect, typed, beacon, payload)
  BY <1>1, <1>2, RequestWillBeSentStep
<1>3. CASE \E id \in Ids, over \in BOOLEAN : C!LoadingFinished(id, over)
  BY <1>1, <1>3, LoadingFinishedStep
<1>4. CASE \E id \in Ids : C!ResponseReceived(id) \/ C!LoadingFailed(id) \/ C!WebSocketCreated(id)
  BY <1>1, <1>4, ResponseReceivedStep, LoadingFailedStep, WebSocketCreatedStep
<1>5. QED
  BY <1>2, <1>3, <1>4 DEF C!BrowserEvent

-----------------------------------------------------------------------------
\* A reader goes on: once the pool was waited for, no record is read into.
LEMMA ReaderMoves ==
    ASSUME CaptureInv, NEW w \in C!Readers, NEW b \in {C!Idle, C!Gone} \cup Reading, busy' = [busy EXCEPT ![w] = b],
           UNCHANGED <<mode, wire, touched, current, inflight, exceeded, phase, docFailed>>,
           UNCHANGED <<stage, runErr, stopped, calm, result, run, late>>,
           stage = "join" /\ w = C!Session => b \in {C!Idle, C!Gone},
           stage \in {"copy", "end", "done"} =>
             /\ records' = records /\ (w = C!Session => b \in {C!Idle, C!Gone}) /\ (w \in Workers => b = C!Gone),
           RecorderTyped', Len(records') = Len(records), Waited(records') = Waited(records), CausedLater(records')
    PROVE  CaptureInv'
<1>0. RecorderTyped /\ ScanTyped /\ ScanFlags /\ Counted /\ PhaseEnds /\ WaitTells /\ ReadersLeft /\ BodiesTold
  BY DEF CaptureInv
<1>1. busy \in [C!Readers -> {C!Idle, C!Gone} \cup Reading]
  BY <1>0 DEF ScanTyped
<1>2. busy' \in [C!Readers -> {C!Idle, C!Gone} \cup Reading] /\ \A v \in C!Readers : busy'[v] = IF v = w THEN b ELSE busy[v]
  BY <1>1
<1>3. ScanTyped'
  BY <1>0, <1>2 DEF ScanTyped
<1>4. ScanFlags'
  BY <1>0, Zenon DEF ScanFlags
<1>5. Counted' /\ PhaseEnds' /\ WaitTells'
  <2>1. Counted'
    BY <1>0 DEF Counted
  <2>2. PhaseEnds'
    BY <1>0 DEF PhaseEnds
  <2>3. WaitTells'
    BY <1>0 DEF WaitTells
  <2>4. QED
    BY <2>1, <2>2, <2>3
<1>6. ReadersLeft'
  <2>1. C!Session \in C!Readers /\ Workers \subseteq C!Readers
    BY DEF C!Readers
  <2>2. QED
    BY <1>0, <1>2, <2>1 DEF ReadersLeft
<1>7. BodiesTold'
  <2>1. CASE stage \in {"copy", "end", "done"}
    BY <1>0, <2>1 DEF BodiesTold
  <2>2. CASE stage \notin {"copy", "end", "done"}
    <3>1. result.unexplained = {} /\ result.without = {}
      BY <1>0, <2>2 DEF BodiesTold
    <3>2. QED
      BY <2>2, <3>1 DEF BodiesTold, Refused
  <2>3. QED
    BY <2>1, <2>2
<1>8. QED
  BY <1>3, <1>4, <1>5, <1>6, <1>7 DEF CaptureInv

\* Who reads has not left, so the pool was not waited for.
LEMMA StillReading ==
    ASSUME CaptureInv, NEW w \in C!Readers
    PROVE  /\ C!MayTake(w) => stage \notin {"copy", "end", "done"} /\ (w = C!Session => stage # "join")
           /\ busy[w] \notin {C!Idle, C!Gone} => stage \notin {"copy", "end", "done"}
           /\ busy[w].kind \in {"body", "payload"} => busy[w] \in Reading
<1>1. ReadersLeft /\ busy[w] \in {C!Idle, C!Gone} \cup Reading
  BY DEF CaptureInv, ScanTyped
<1>2. C!Idle # C!Gone /\ C!Idle.kind = "idle" /\ C!Gone.kind = "gone"
  <2>1. C!Idle.kind = "idle" /\ C!Gone.kind = "gone"
    BY DEF C!Idle, C!Gone
  <2>2. QED
    BY <2>1
<1>3. w \in Workers \/ w = C!Session
  BY DEF C!Readers
<1>4. C!MayTake(w) => stage \notin {"copy", "end", "done"} /\ (w = C!Session => stage # "join")
  BY <1>1, <1>2, <1>3 DEF C!MayTake, ReadersLeft
<1>5. busy[w] \notin {C!Idle, C!Gone} => stage \notin {"copy", "end", "done"}
  BY <1>1, <1>3 DEF ReadersLeft
<1>6. busy[w].kind \in {"body", "payload"} => busy[w] \in Reading
  BY <1>1, <1>2
<1>7. QED
  BY <1>4, <1>5, <1>6

LEMMA FirstTaken == ASSUME NEW q \in Seq(Ids), q # <<>> PROVE Head(q) \in Ids /\ Tail(q) \in Seq(Ids) /\ Len(Tail(q)) < Len(q)
OBVIOUS

LEMMA TakeStep ==
    ASSUME CaptureInv, NEW w \in C!Readers, C!TakeBody(w) \/ C!TakePayload(w) PROVE CaptureInv'
<1>0. RecorderTyped /\ CausedLater(records) /\ C!MayTake(w)
  BY DEF CaptureInv, PhaseEnds, C!TakeBody, C!TakePayload
<1>1. stage \notin {"copy", "end", "done"} /\ (w = C!Session => stage # "join")
  BY <1>0, StillReading
<1>2. /\ UNCHANGED <<mode, wire, touched, records, current, inflight, exceeded, phase, docFailed>>
      /\ UNCHANGED <<stage, runErr, stopped, calm, result, run, late>>
  BY DEF C!TakeBody, C!TakePayload, C!session
<1>3. CASE C!TakeBody(w)
  <2>1. bodyWanted # <<>> /\ bodyWanted' = Tail(bodyWanted) /\ payloadWanted' = payloadWanted
        /\ busy' = [busy EXCEPT ![w] = [kind |-> "body", id |-> Head(bodyWanted)]]
    BY <1>3 DEF C!TakeBody
  <2>2. Head(bodyWanted) \in Ids /\ bodyWanted' \in Seq(Ids) /\ Len(bodyWanted') <= QueueSize
    <3>1. bodyWanted \in Seq(Ids) /\ Len(bodyWanted) <= QueueSize /\ QueueSize \in Nat
      BY <1>0, CaptureConstants DEF RecorderTyped
    <3>2. QED
      BY <2>1, <3>1, FirstTaken
  <2>3. RecorderTyped'
    BY <1>0, <1>2, <2>1, <2>2 DEF RecorderTyped
  <2>4. [kind |-> "body", id |-> Head(bodyWanted)] \in {C!Idle, C!Gone} \cup Reading
    BY <2>2 DEF Reading
  <2>5. QED
    BY <1>0, <1>1, <1>2, <2>1, <2>3, <2>4, ReaderMoves
<1>4. CASE C!TakePayload(w)
  <2>1. payloadWanted # <<>> /\ payloadWanted' = Tail(payloadWanted) /\ bodyWanted' = bodyWanted
        /\ busy' = [busy EXCEPT ![w] = [kind |-> "payload", id |-> Head(payloadWanted)]]
    BY <1>4 DEF C!TakePayload
  <2>2. Head(payloadWanted) \in Ids /\ payloadWanted' \in Seq(Ids) /\ Len(payloadWanted') <= QueueSize
    <3>1. payloadWanted \in Seq(Ids) /\ Len(payloadWanted) <= QueueSize /\ QueueSize \in Nat
      BY <1>0, CaptureConstants DEF RecorderTyped
    <3>2. QED
      BY <2>1, <3>1, FirstTaken
  <2>3. RecorderTyped'
    BY <1>0, <1>2, <2>1, <2>2 DEF RecorderTyped
  <2>4. [kind |-> "payload", id |-> Head(payloadWanted)] \in {C!Idle, C!Gone} \cup Reading
    BY <2>2 DEF Reading
  <2>5. QED
    BY <1>0, <1>1, <1>2, <2>1, <2>3, <2>4, ReaderMoves
<1>5. QED
  BY <1>3, <1>4

\* What a reader writes into a record leaves the counts and the phases alone.
LEMMA ReadInto ==
    ASSUME CaptureInv, NEW j \in 0..Len(records), NEW r,
           j # 0 => /\ r \in C!Record /\ r.caused = records[j].caused /\ r.phase = records[j].phase
                    /\ (C!Active(r) <=> C!Active(records[j]))
    PROVE  LET t == [records EXCEPT ![j] = r]
           IN  t \in Seq(C!Record) /\ Len(t) = Len(records) /\ Waited(t) = Waited(records) /\ CausedLater(t)
<1> DEFINE t == [records EXCEPT ![j] = r]
<1>1. records \in Seq(C!Record) /\ Len(records) \in Nat /\ CausedLater(records) /\ j \in Nat /\ (j # 0 => j \in 1..Len(records))
  BY DEF CaptureInv, RecorderTyped, PhaseEnds
<1>2. t \in Seq(C!Record) /\ Len(t) = Len(records) /\ \A i \in 1..Len(records) : t[i] = IF i = j THEN r ELSE records[i]
  BY <1>1, EditOne
<1> HIDE DEF t
<1>3. \A i \in 1..Len(records) : C!Active(t[i]) <=> C!Active(records[i])
  BY <1>1, <1>2
<1>4. CausedLater(t)
  BY <1>1, <1>2 DEF CausedLater
<1>5. Waited(t) = Waited(records)
  BY <1>1, <1>2, <1>3, AsMany
<1>6. QED
  BY <1>2, <1>4, <1>5 DEF t

LEMMA BodyReadStep ==
    ASSUME CaptureInv, NEW w \in C!Readers, NEW o \in {"kept", "reason"}, C!BodyRead(w, o) PROVE CaptureInv'
<1> DEFINE j == current[busy[w].id]
           r == [records[j] EXCEPT !.body = o]
<1>0. RecorderTyped /\ CausedLater(records)
  BY DEF CaptureInv, PhaseEnds
<1>1. /\ busy[w].kind = "body" /\ busy' = [busy EXCEPT ![w] = C!Idle]
      /\ UNCHANGED <<mode, wire, touched, current, inflight, exceeded, phase, bodyWanted, payloadWanted, docFailed>>
      /\ UNCHANGED <<stage, runErr, stopped, calm, result, run, late>>
      /\ records' = records \/ records' = [records EXCEPT ![j] = r]
  BY DEF C!BodyRead, C!session
<1>2. busy[w] \in Reading
  BY <1>1, StillReading
<1>3. busy[w] \notin {C!Idle, C!Gone}
  BY <1>1 DEF C!Idle, C!Gone
<1>4. stage \notin {"copy", "end", "done"}
  BY <1>3, StillReading
<1>5. records \in Seq(C!Record) /\ j \in 0..Len(records) /\ Len(records) \in Nat
  <2>1. busy[w].id \in Ids
    BY <1>2 DEF Reading
  <2>2. QED
    BY <1>0, <2>1 DEF RecorderTyped
<1>6. ASSUME j # 0
      PROVE  r \in C!Record /\ r.caused = records[j].caused /\ r.phase = records[j].phase
             /\ (C!Active(r) <=> C!Active(records[j]))
  <2>1. records[j] \in C!Record
    BY <1>5, <1>6
  <2>2. r \in C!Record /\ r.finished = records[j].finished /\ r.beacon = records[j].beacon
        /\ r.caused = records[j].caused /\ r.phase = records[j].phase
    <3> HIDE DEF j
    <3>1. QED
      BY <2>1 DEF C!Record
  <2>3. QED
    BY <2>2 DEF C!Active
<1> HIDE DEF r, j
<1>7. /\ records' \in Seq(C!Record) /\ Len(records') = Len(records) /\ Waited(records') = Waited(records)
      /\ CausedLater(records')
  BY <1>0, <1>1, <1>5, <1>6, ReadInto
<1>8. RecorderTyped'
  BY <1>0, <1>1, <1>7 DEF RecorderTyped
<1>9. C!Idle \in {C!Idle, C!Gone} \cup Reading
  OBVIOUS
<1>10. QED
  BY <1>1, <1>4, <1>7, <1>8, <1>9, ReaderMoves

LEMMA PayloadReadStep ==
    ASSUME CaptureInv, NEW w \in C!Readers, C!PayloadRead(w) PROVE CaptureInv'
<1> DEFINE j == current[busy[w].id]
           r == [records[j] EXCEPT !.payload = "settled"]
<1>0. RecorderTyped /\ CausedLater(records)
  BY DEF CaptureInv, PhaseEnds
<1>1. /\ busy[w].kind = "payload" /\ busy' = [busy EXCEPT ![w] = C!Idle]
      /\ UNCHANGED <<mode, wire, touched, current, inflight, exceeded, phase, bodyWanted, payloadWanted, docFailed>>
      /\ UNCHANGED <<stage, runErr, stopped, calm, result, run, late>>
      /\ records' = [records EXCEPT ![j] = r]
  BY DEF C!PayloadRead, C!session
<1>2. busy[w] \in Reading
  BY <1>1, StillReading
<1>3. busy[w] \notin {C!Idle, C!Gone}
  BY <1>1 DEF C!Idle, C!Gone
<1>4. stage \notin {"copy", "end", "done"}
  BY <1>3, StillReading
<1>5. records \in Seq(C!Record) /\ j \in 0..Len(records) /\ Len(records) \in Nat
  <2>1. busy[w].id \in Ids
    BY <1>2 DEF Reading
  <2>2. QED
    BY <1>0, <2>1 DEF RecorderTyped
<1>6. ASSUME j # 0
      PROVE  r \in C!Record /\ r.caused = records[j].caused /\ r.phase = records[j].phase
             /\ (C!Active(r) <=> C!Active(records[j]))
  <2>1. records[j] \in C!Record
    BY <1>5, <1>6
  <2>2. r \in C!Record /\ r.finished = records[j].finished /\ r.beacon = records[j].beacon
        /\ r.caused = records[j].caused /\ r.phase = records[j].phase
    <3> HIDE DEF j
    <3>1. QED
      BY <2>1 DEF C!Record, C!Payload
  <2>3. QED
    BY <2>2 DEF C!Active
<1> HIDE DEF r, j
<1>7. /\ records' \in Seq(C!Record) /\ Len(records') = Len(records) /\ Waited(records') = Waited(records)
      /\ CausedLater(records')
  BY <1>1, <1>5, <1>6, ReadInto
<1>8. RecorderTyped'
  BY <1>0, <1>1, <1>7 DEF RecorderTyped
<1>9. C!Idle \in {C!Idle, C!Gone} \cup Reading
  OBVIOUS
<1>10. QED
  BY <1>1, <1>4, <1>7, <1>8, <1>9, ReaderMoves

LEMMA WorkerLeavesStep ==
    ASSUME CaptureInv, NEW w \in C!Readers, C!WorkerLeaves(w) PROVE CaptureInv'
<1>0. RecorderTyped /\ CausedLater(records)
  BY DEF CaptureInv, PhaseEnds
<1>1. /\ busy' = [busy EXCEPT ![w] = C!Gone]
      /\ UNCHANGED <<mode, wire, touched, records, current, inflight, exceeded, phase, bodyWanted, payloadWanted, docFailed>>
      /\ UNCHANGED <<stage, runErr, stopped, calm, result, run, late>>
  BY DEF C!WorkerLeaves, C!recorder, C!session
<1>2. RecorderTyped'
  BY <1>0, <1>1 DEF RecorderTyped
<1>3. C!Gone \in {C!Idle, C!Gone} \cup Reading
  OBVIOUS
<1>4. QED
  BY <1>0, <1>1, <1>2, <1>3, ReaderMoves

LEMMA ReadingStep == ASSUME CaptureInv, C!Reading PROVE CaptureInv'
BY TakeStep, BodyReadStep, PayloadReadStep, WorkerLeavesStep DEF C!Reading

-----------------------------------------------------------------------------
\* A step of the session that leaves the records, and where they end, alone.
LEMMA SessionMoves ==
    ASSUME CaptureInv,
           UNCHANGED <<mode, wire, records, current, inflight, exceeded, bodyWanted, payloadWanted, docFailed, busy, late, result>>,
           \/ stage' = stage
           \/ /\ stage \notin {"copy", "end", "done"} /\ stage' \in C!Stages \ {"copy", "end", "done"}
              /\ stage' = "join" => busy[C!Session] = C!Idle,
           run' \in {"live", "expired", "cancelled"}, runErr' \in {"none", "deadline", "other"}, phase' \in {"pre", "post"},
           touched' \in BOOLEAN, stopped' \in BOOLEAN, calm' \in BOOLEAN, touched' => phase' = "post",
           stage' \notin Ending => runErr' = "none",
           stage' \in Ending /\ runErr' = "none" /\ exceeded = "none" => calm',
           stage = "done" => UNCHANGED <<calm, runErr>>
    PROVE  CaptureInv'
<1>0. RecorderTyped /\ ScanTyped /\ ScanFlags /\ Counted /\ PhaseEnds /\ WaitTells /\ ReadersLeft /\ BodiesTold
  BY DEF CaptureInv
<1>1. RecorderTyped'
  BY <1>0 DEF RecorderTyped
<1>2. ScanTyped'
  BY <1>0 DEF ScanTyped
<1>3. ScanFlags'
  BY <1>0, Zenon DEF ScanFlags
<1>4. Counted'
  BY <1>0 DEF Counted
<1>40. PhaseEnds'
  BY <1>0 DEF PhaseEnds
<1>5. WaitTells'
  BY <1>0 DEF WaitTells
<1>6. ReadersLeft'
  BY <1>0 DEF ReadersLeft
<1>7. BodiesTold'
  BY <1>0 DEF BodiesTold
<1>8. QED
  BY <1>1, <1>2, <1>3, <1>4, <1>40, <1>5, <1>6, <1>7 DEF CaptureInv

\* What the session finds: typed, with no error before the last wait is over.
LEMMA SessionFinds ==
    ASSUME CaptureInv
    PROVE  /\ run \in {"live", "expired", "cancelled"} /\ runErr \in {"none", "deadline", "other"}
           /\ phase \in {"pre", "post"}
           /\ touched \in BOOLEAN /\ stopped \in BOOLEAN /\ calm \in BOOLEAN /\ docFailed \in BOOLEAN
           /\ touched => phase = "post"
           /\ stage \notin Ending => runErr = "none"
           /\ stage \in Ending /\ runErr = "none" /\ exceeded = "none" => calm
           /\ stage \in C!Stages
<1>1. touched \in BOOLEAN /\ stopped \in BOOLEAN /\ calm \in BOOLEAN /\ docFailed \in BOOLEAN
  BY Zenon DEF CaptureInv, ScanFlags
<1>2. QED
  BY <1>1 DEF CaptureInv, ScanTyped, RecorderTyped, PhaseEnds, WaitTells

LEMMA EndRunStep == ASSUME CaptureInv, NEW how \in Endings, C!EndRun(how) PROVE CaptureInv'
<1>1. /\ UNCHANGED <<mode, wire, records, current, inflight, exceeded, bodyWanted, payloadWanted, docFailed, busy, late, result>>
      /\ UNCHANGED <<stage, runErr, phase, touched, stopped, calm>> /\ run' = how
  BY DEF C!EndRun, C!recorder, C!session
<1>2. run' \in {"live", "expired", "cancelled"}
  BY <1>1, CaptureConstants
<1>3. touched' \in BOOLEAN /\ stopped' \in BOOLEAN /\ calm' \in BOOLEAN
  BY <1>1, SessionFinds, Zenon
<1>4. QED
  BY <1>1, <1>2, <1>3, SessionFinds, SessionMoves

LEMMA PrepareStep ==
    ASSUME CaptureInv, NEW err \in {"none", "deadline", "other"}, C!Prepare(err) PROVE CaptureInv'
<1>1. /\ UNCHANGED <<mode, wire, records, current, inflight, exceeded, bodyWanted, payloadWanted, docFailed, busy, late, result>>
      /\ UNCHANGED <<run, phase, touched, stopped, calm>>
      /\ stage = "prepare" /\ runErr' = err /\ stage' = IF err = "none" THEN "loaded" ELSE "drain"
  BY DEF C!Prepare, C!recorder
<1>2. stage' \in C!Stages \ {"copy", "end", "done"} /\ stage' # "join"
  BY <1>1 DEF C!Stages, C!Settles
<1>3. (stage' \notin Ending => runErr' = "none") /\ (stage' \in Ending => runErr' # "none")
  BY <1>1 DEF Ending
<1>4. touched' \in BOOLEAN /\ stopped' \in BOOLEAN /\ calm' \in BOOLEAN
  BY <1>1, SessionFinds, Zenon
<1>5. QED
  BY <1>1, <1>2, <1>3, <1>4, SessionFinds, SessionMoves

LEMMA FollowingKnown ==
    ASSUME NEW p \in C!Settles, NEW next \in C!Following[p] PROVE next \in {"hook", "scrolled", "dwelt", "drain"}
<1>1. AfterLoad \subseteq {"hook", "scrolled", "dwelt"}
  BY CaptureConstants
<1>2. C!Following = [loaded |-> IF "hook" \in AfterLoad THEN {"hook"} ELSE AfterLoad \cup {"drain"},
                     acted |-> (AfterLoad \ {"hook"}) \cup {"drain"},
                     scrolled |-> (AfterLoad \ {"hook", "scrolled"}) \cup {"drain"}, dwelt |-> {"drain"}]
  BY DEF C!Following
<1>3. CASE p = "loaded"
  BY <1>1, <1>2, <1>3
<1>4. CASE p = "acted"
  BY <1>1, <1>2, <1>4
<1>5. CASE p = "scrolled"
  BY <1>1, <1>2, <1>5
<1>6. CASE p = "dwelt"
  BY <1>1, <1>2, <1>6
<1>7. QED
  BY <1>3, <1>4, <1>5, <1>6 DEF C!Settles

LEMMA WaitStep == ASSUME CaptureInv, NEW next \in C!Stages, C!Settle(next) PROVE CaptureInv'
<1>1. /\ UNCHANGED <<mode, wire, records, current, inflight, exceeded, bodyWanted, payloadWanted, docFailed, busy, late, result>>
      /\ UNCHANGED <<run, phase, touched, stopped>>
      /\ stage \in C!Settles /\ next \in C!Following[stage] /\ stage' = next
      /\ runErr' = IF next = "drain" THEN C!RunError ELSE runErr
      /\ calm' = TRUE \/ (C!CutShort(next) /\ calm' = FALSE)
  BY DEF C!Settle, C!recorder
<1>2. next \in {"hook", "scrolled", "dwelt", "drain"}
  BY <1>1, FollowingKnown
<1>3. stage \notin Ending /\ stage # "done" /\ stage \notin {"copy", "end", "done"} /\ runErr = "none"
  <2>1. stage \notin Ending
    BY <1>1 DEF C!Settles, Ending
  <2>2. QED
    BY <2>1, SessionFinds DEF Ending
<1>4. C!RunError \in {"none", "deadline", "other"} /\ (C!RunError = "none" => run = "live")
  <2>1. CASE run = "live"
    BY <2>1 DEF C!RunError
  <2>2. CASE run = "expired"
    BY <2>2 DEF C!RunError
  <2>3. CASE run = "cancelled"
    BY <2>3 DEF C!RunError
  <2>4. QED
    BY <2>1, <2>2, <2>3, SessionFinds
<1>5. runErr' \in {"none", "deadline", "other"} /\ (stage' \notin Ending => runErr' = "none")
  BY <1>1, <1>2, <1>3, <1>4 DEF Ending
<1>6. stage' \in Ending /\ runErr' = "none" /\ exceeded = "none" => calm'
  <2>1. stage' \in Ending => next = "drain"
    BY <1>1, <1>2 DEF Ending
  <2>2. QED
    BY <1>1, <1>4, <2>1 DEF C!CutShort, C!Reserved
<1>7. touched' \in BOOLEAN /\ stopped' \in BOOLEAN
  BY <1>1, SessionFinds, Zenon
<1>8. calm' \in BOOLEAN
  BY <1>1, Zenon
<1>9. stage' \in C!Stages \ {"copy", "end", "done"} /\ stage' # "join"
  BY <1>1, <1>2
<1>10. QED
  BY <1>1, <1>3, <1>5, <1>6, <1>7, <1>8, <1>9, SessionFinds, SessionMoves

LEMMA HookStep == ASSUME CaptureInv, C!HookMarks \/ C!HookActs \/ C!HookReturns PROVE CaptureInv'
<1>1. /\ UNCHANGED <<mode, wire, records, current, inflight, exceeded, bodyWanted, payloadWanted, docFailed, busy, late, result>>
      /\ UNCHANGED <<run, runErr, stopped, calm>>
      /\ stage = "hook" /\ stage' \in {"hook", "acted"}
  BY DEF C!HookMarks, C!HookActs, C!HookReturns, C!recorder, C!session
<1>2. (phase' = "post" /\ touched' = touched) \/ (phase' = phase /\ phase = "post" /\ touched' = TRUE)
  BY DEF C!HookMarks, C!HookActs, C!HookReturns, C!recorder
<1>3. touched' \in BOOLEAN /\ stopped' \in BOOLEAN /\ calm' \in BOOLEAN
  BY <1>1, <1>2, SessionFinds, Zenon
<1>4. phase' \in {"pre", "post"} /\ phase' = "post"
  BY <1>2
<1>5. stage' \in C!Stages \ {"copy", "end", "done"} /\ stage' # "join" /\ stage' \notin Ending /\ stage \notin Ending
  BY <1>1 DEF C!Stages, C!Settles, Ending
<1>6. QED
  BY <1>1, <1>3, <1>4, <1>5, SessionFinds, SessionMoves

LEMMA StopWorkersStep == ASSUME CaptureInv, C!StopWorkers PROVE CaptureInv'
<1>1. /\ UNCHANGED <<mode, wire, records, current, inflight, exceeded, bodyWanted, payloadWanted, docFailed, busy, late, result>>
      /\ UNCHANGED <<run, runErr, phase, touched, calm>>
      /\ stage = "drain" /\ stage' = "join" /\ stopped' = TRUE /\ busy[C!Session] = C!Idle
  BY DEF C!StopWorkers, C!recorder
<1>2. touched' \in BOOLEAN /\ stopped' \in BOOLEAN /\ calm' \in BOOLEAN
  BY <1>1, SessionFinds, Zenon
<1>3. stage' \in C!Stages \ {"copy", "end", "done"} /\ stage' \in Ending /\ stage \in Ending
  BY <1>1 DEF C!Stages, C!Settles, Ending
<1>4. QED
  BY <1>1, <1>2, <1>3, SessionFinds, SessionMoves

\* finishBodies gives every record what it lacks and touches nothing else of it.
LEMMA AccountedFields ==
    ASSUME NEW r \in C!Record
    PROVE  LET a == C!Accounted(r)
           IN  /\ a \in C!Record /\ (C!Active(a) <=> C!Active(r)) /\ a.caused = r.caused /\ a.phase = r.phase
               /\ Explained(mode, a)
<1> DEFINE b == IF C!Relevant(r) /\ r.body = "owed" THEN "reason" ELSE r.body
           a == [r EXCEPT !.payload = "settled", !.body = b]
<1>1. C!Accounted(r) = a
  BY DEF C!Accounted
<1>2. b \in {"owed", "kept", "reason"} /\ (C!Relevant(r) => b # "owed")
  BY DEF C!Record
<1> HIDE DEF b
<1>3. a \in C!Record
  BY <1>2 DEF C!Record, C!Payload
<1>4. /\ a.finished = r.finished /\ a.beacon = r.beacon /\ a.caused = r.caused /\ a.phase = r.phase
      /\ a.payload = "settled" /\ a.body = b /\ a.hashed = r.hashed
  BY DEF C!Record
<1>5. Explained(mode, a)
  BY <1>2, <1>4 DEF Explained, C!Relevant
<1>6. QED
  BY <1>1, <1>3, <1>4, <1>5 DEF C!Active

LEMMA FinishBodiesStep == ASSUME CaptureInv, C!FinishBodies PROVE CaptureInv'
<1>0. RecorderTyped /\ ScanTyped /\ ScanFlags /\ Counted /\ PhaseEnds /\ WaitTells /\ ReadersLeft /\ BodiesTold
  BY DEF CaptureInv
<1>1. /\ stage = "join" /\ C!Joined /\ stage' = "copy"
      /\ UNCHANGED <<mode, wire, touched, current, inflight, exceeded, phase, bodyWanted, payloadWanted, docFailed>>
      /\ UNCHANGED <<run, runErr, busy, stopped, calm, late, result>>
      /\ records' = IF mode # "none" THEN [i \in DOMAIN records |-> C!Accounted(records[i])] ELSE records
  BY DEF C!FinishBodies, C!Stores
<1>2. records \in Seq(C!Record) /\ Len(records) \in Nat /\ DOMAIN records = 1..Len(records) /\ CausedLater(records)
  BY <1>0 DEF RecorderTyped, PhaseEnds
<1>3. /\ records' \in Seq(C!Record) /\ Len(records') = Len(records) /\ Waited(records') = Waited(records)
      /\ CausedLater(records')
      /\ mode # "none" => AllExplained(mode, records', late)
  <2>1. CASE mode = "none"
    BY <1>1, <1>2, <2>1
  <2>2. CASE mode # "none"
    <3> DEFINE t == [i \in 1..Len(records) |-> C!Accounted(records[i])]
    <3>1. records' = t
      BY <1>1, <1>2, <2>2
    <3>2. \A i \in 1..Len(records) : /\ t[i] \in C!Record /\ (C!Active(t[i]) <=> C!Active(records[i]))
                                     /\ t[i].caused = records[i].caused /\ t[i].phase = records[i].phase
                                     /\ Explained(mode, t[i])
      <4>1. TAKE i \in 1..Len(records)
      <4>2. records[i] \in C!Record /\ t[i] = C!Accounted(records[i])
        BY <1>2
      <4> HIDE DEF t
      <4>3. QED
        BY <4>2, AccountedFields
    <3>3. t \in Seq(C!Record) /\ Len(t) = Len(records)
      <4>1. t \in [1..Len(records) -> C!Record]
        BY <3>2
      <4> HIDE DEF t
      <4>2. QED
        BY <1>2, <4>1
    <3> HIDE DEF t
    <3>4. Waited(t) = Waited(records)
      BY <1>2, <3>2, <3>3, AsMany
    <3>5. CausedLater(t) /\ AllExplained(mode, t, late)
      BY <1>2, <3>2, <3>3 DEF CausedLater, AllExplained
    <3>6. QED
      BY <3>1, <3>3, <3>4, <3>5
  <2>3. QED
    BY <2>1, <2>2
<1>4. RecorderTyped'
  BY <1>0, <1>1, <1>3 DEF RecorderTyped
<1>5. ScanTyped'
  BY <1>0, <1>1 DEF ScanTyped, C!Stages
<1>6. ScanFlags'
  BY <1>0, <1>1, Zenon DEF ScanFlags
<1>7. Counted' /\ PhaseEnds'
  BY <1>0, <1>1, <1>3 DEF Counted, PhaseEnds
<1>8. WaitTells'
  BY <1>0, <1>1 DEF WaitTells, Ending
<1>9. ReadersLeft'
  BY <1>0, <1>1 DEF ReadersLeft, C!Joined
<1>10. BodiesTold'
  <2>1. result.unexplained = {} /\ result.without = {}
    BY <1>0, <1>1 DEF BodiesTold
  <2>2. QED
    BY <1>1, <1>3, <2>1 DEF BodiesTold, Refused
<1>11. QED
  BY <1>4, <1>5, <1>6, <1>7, <1>8, <1>9, <1>10 DEF CaptureInv

LEMMA CopyRequestsStep == ASSUME CaptureInv, C!CopyRequests PROVE CaptureInv'
<1>0. RecorderTyped /\ ScanTyped /\ ScanFlags /\ Counted /\ PhaseEnds /\ WaitTells /\ ReadersLeft /\ BodiesTold
  BY DEF CaptureInv
<1> DEFINE refused == {i \in DOMAIN records : records[i].body = "reason"}
<1>1. /\ stage = "copy" /\ stage' = "end"
      /\ UNCHANGED <<mode, wire, touched, records, current, inflight, exceeded, phase, bodyWanted, payloadWanted, docFailed>>
      /\ UNCHANGED <<run, runErr, busy, stopped, calm, late>>
      /\ result' = [result EXCEPT !.unexplained = C!Unexplained, !.without = refused]
  BY DEF C!CopyRequests, C!recorder
<1>2. records \in Seq(C!Record) /\ Len(records) \in Nat /\ DOMAIN records = 1..Len(records) /\ Len(records) <= MaxRecords
      /\ MaxRecords \in Nat
  BY <1>0, CaptureConstants DEF RecorderTyped
<1>3. C!Unexplained \subseteq 1..MaxRecords /\ refused \subseteq 1..MaxRecords /\ refused \subseteq 1..Len(records)
  BY <1>2 DEF C!Unexplained
<1>4. /\ result'.unexplained = C!Unexplained /\ result'.without = refused /\ result'.termination = result.termination
      /\ result' \in ResultType
  <2>1. result \in ResultType
    BY <1>0 DEF ScanTyped
  <2> HIDE DEF refused
  <2>2. QED
    BY <1>1, <1>3, <2>1 DEF ResultType
<1>5. RecorderTyped' /\ Counted' /\ PhaseEnds'
  BY <1>0, <1>1 DEF RecorderTyped, Counted, PhaseEnds
<1>6. ScanTyped'
  BY <1>0, <1>1, <1>4 DEF ScanTyped, C!Stages
<1>7. ScanFlags'
  BY <1>0, <1>1, Zenon DEF ScanFlags
<1>8. WaitTells'
  BY <1>0, <1>1, <1>4 DEF WaitTells, Ending
<1>9. ReadersLeft'
  BY <1>0, <1>1 DEF ReadersLeft
<1>10. BodiesTold'
  <2>1. Refused(records, refused)
    BY <1>2 DEF Refused
  <2>2. ASSUME mode # "none" PROVE C!Unexplained \subseteq late
    <3>1. AllExplained(mode, records, late)
      BY <1>0, <1>1, <2>2 DEF BodiesTold
    <3>2. \A i \in 1..Len(records) : Explained(mode, records[i]) =>
            records[i].payload # "owed" /\ ~(C!Relevant(records[i]) /\ records[i].body = "owed")
      BY DEF Explained, C!Relevant
    <3>3. QED
      BY <1>2, <3>1, <3>2 DEF AllExplained, C!Unexplained
  <2> HIDE DEF refused
  <2>3. QED
    BY <1>1, <1>4, <2>1, <2>2 DEF BodiesTold
<1>11. QED
  BY <1>5, <1>6, <1>7, <1>8, <1>9, <1>10 DEF CaptureInv

\* A scan is called idle only where nothing else is to be said of it.
LEMMA TerminationKnown ==
    ASSUME runErr \in {"none", "deadline", "other"}, run \in {"live", "expired", "cancelled"},
           exceeded \in {"none", "requests", "bytes"}, docFailed \in BOOLEAN
    PROVE  /\ C!Termination \in {"none", "error", "request-cap", "byte-cap", "timeout", "idle"}
           /\ C!Termination = "idle" => runErr = "none" /\ ~docFailed /\ exceeded = "none"
<1>1. CASE runErr = "other"
  BY <1>1 DEF C!Termination
<1>2. CASE runErr # "other" /\ docFailed
  BY <1>2 DEF C!Termination
<1>3. CASE runErr # "other" /\ ~docFailed /\ exceeded = "requests"
  BY <1>3 DEF C!Termination
<1>4. CASE runErr # "other" /\ ~docFailed /\ exceeded = "bytes"
  BY <1>4 DEF C!Termination
<1>5. CASE runErr # "other" /\ ~docFailed /\ exceeded = "none" /\ (run = "expired" \/ runErr = "deadline")
  BY <1>5 DEF C!Termination
<1>6. CASE runErr = "none" /\ ~docFailed /\ exceeded = "none" /\ run = "cancelled"
  BY <1>6 DEF C!Termination
<1>7. CASE runErr = "none" /\ ~docFailed /\ exceeded = "none" /\ run = "live"
  BY <1>7 DEF C!Termination
<1>8. QED
  BY <1>1, <1>2, <1>3, <1>4, <1>5, <1>6, <1>7

LEMMA ConcludeStep == ASSUME CaptureInv, C!Conclude PROVE CaptureInv'
<1>0. RecorderTyped /\ ScanTyped /\ ScanFlags /\ Counted /\ PhaseEnds /\ WaitTells /\ ReadersLeft /\ BodiesTold
  BY DEF CaptureInv
<1>1. /\ stage = "end" /\ stage' = "done"
      /\ UNCHANGED <<mode, wire, touched, records, current, inflight, exceeded, phase, bodyWanted, payloadWanted, docFailed>>
      /\ UNCHANGED <<run, runErr, busy, stopped, calm, late>>
      /\ result' = [result EXCEPT !.termination = C!Termination]
  BY DEF C!Conclude, C!recorder
<1>2. /\ C!Termination \in {"none", "error", "request-cap", "byte-cap", "timeout", "idle"}
      /\ C!Termination = "idle" => runErr = "none" /\ ~docFailed /\ exceeded = "none"
  BY <1>0, SessionFinds, TerminationKnown DEF RecorderTyped
<1>3. /\ result'.unexplained = result.unexplained /\ result'.without = result.without
      /\ result'.termination = C!Termination /\ result' \in ResultType
  BY <1>0, <1>1, <1>2 DEF ScanTyped, ResultType
<1>4. RecorderTyped' /\ Counted' /\ PhaseEnds'
  BY <1>0, <1>1 DEF RecorderTyped, Counted, PhaseEnds
<1>5. ScanTyped'
  BY <1>0, <1>1, <1>3 DEF ScanTyped, C!Stages
<1>6. ScanFlags'
  BY <1>0, <1>1, Zenon DEF ScanFlags
<1>7. WaitTells'
  BY <1>0, <1>1, <1>2, <1>3 DEF WaitTells, Ending
<1>8. ReadersLeft'
  BY <1>0, <1>1 DEF ReadersLeft
<1>9. BodiesTold'
  BY <1>0, <1>1, <1>3 DEF BodiesTold
<1>10. QED
  BY <1>4, <1>5, <1>6, <1>7, <1>8, <1>9 DEF CaptureInv

LEMMA CaptureStep == ASSUME CaptureInv, C!Next \/ UNCHANGED C!vars PROVE CaptureInv'
<1>1. CASE C!BrowserEvent
  BY <1>1, BrowserStep
<1>2. CASE C!Reading
  BY <1>2, ReadingStep
<1>3. CASE C!SessionStep
  <2>1. CASE \E how \in Endings : C!EndRun(how)
    BY <2>1, EndRunStep
  <2>2. CASE \E err \in {"none", "deadline", "other"} : C!Prepare(err)
    BY <2>2, PrepareStep
  <2>3. CASE \E next \in C!Stages : C!Settle(next)
    BY <2>3, WaitStep
  <2>4. CASE C!HookMarks \/ C!HookActs \/ C!HookReturns \/ C!StopWorkers
    BY <2>4, HookStep, StopWorkersStep
  <2>5. CASE C!FinishBodies \/ C!CopyRequests \/ C!Conclude
    BY <2>5, FinishBodiesStep, CopyRequestsStep, ConcludeStep
  <2>6. QED
    BY <1>3, <2>1, <2>2, <2>3, <2>4, <2>5 DEF C!SessionStep
<1>4. CASE UNCHANGED C!vars
  <2>1. /\ UNCHANGED <<mode, wire, records, current, inflight, exceeded, bodyWanted, payloadWanted, docFailed, busy, late, result>>
        /\ UNCHANGED <<run, runErr, phase, touched, stopped, calm, stage>>
    BY <1>4 DEF C!vars, C!recorder, C!session
  <2>2. touched' \in BOOLEAN /\ stopped' \in BOOLEAN /\ calm' \in BOOLEAN
    BY <2>1, SessionFinds, Zenon
  <2>3. QED
    BY <2>1, <2>2, SessionFinds, SessionMoves
<1>5. QED
  BY <1>1, <1>2, <1>3, <1>4 DEF C!Next

LEMMA CapturePromise ==
    ASSUME CaptureInv
    PROVE  C!TypeOK /\ C!InflightIsTrue /\ C!IdleMeansIdle /\ C!EveryBodyAccounted /\ C!PhaseIsHonest
<1>0. RecorderTyped /\ ScanTyped /\ ScanFlags /\ Counted /\ PhaseEnds /\ WaitTells /\ ReadersLeft /\ BodiesTold
  BY DEF CaptureInv
<1>1. records \in Seq(C!Record) /\ Len(records) \in Nat /\ DOMAIN records = 1..Len(records) /\ Len(records) <= MaxRecords
      /\ MaxRecords \in Nat
  BY <1>0, CaptureConstants DEF RecorderTyped
<1>2. inflight \in 0..MaxRecords
  <2>1. Cardinality(Waited(records)) \in 0..Len(records)
    BY <1>1, WaitedIsFinite
  <2>2. QED
    BY <1>0, <1>1, <2>1 DEF Counted
<1>3. C!TypeOK
  <2>1. touched \in BOOLEAN /\ docFailed \in BOOLEAN /\ stopped \in BOOLEAN /\ calm \in BOOLEAN
    BY <1>0, Zenon DEF ScanFlags
  <2>2. /\ result.unexplained \subseteq 1..MaxRecords /\ result.without \subseteq 1..MaxRecords
        /\ result.termination \in {"none", "error", "request-cap", "byte-cap", "timeout", "idle"}
    BY <1>0 DEF ScanTyped, ResultType
  <2>3. busy \in [C!Readers -> {C!Idle, C!Gone} \cup [kind : {"body", "payload"}, id : Ids]]
    BY <1>0 DEF ScanTyped, Reading
  <2>4. QED
    BY <1>0, <1>2, <2>1, <2>2, <2>3 DEF RecorderTyped, ScanTyped, C!TypeOK
<1>4. C!InflightIsTrue
  BY <1>0, CaptureCounts DEF Counted, Waited, C!InflightIsTrue
<1>5. C!IdleMeansIdle
  BY <1>0 DEF WaitTells, C!IdleMeansIdle
<1>6. C!EveryBodyAccounted
  BY <1>0 DEF BodiesTold, Refused, C!EveryBodyAccounted, C!Stores
<1>7. C!PhaseIsHonest
  BY <1>0, <1>1 DEF PhaseEnds, CausedLater, C!PhaseIsHonest
<1>8. QED
  BY <1>3, <1>4, <1>5, <1>6, <1>7

-----------------------------------------------------------------------------
(* Consent: one interaction with a page.                                      *)

\* The places at which the handler has a rule, and those past its first step.
Working == {"steps", "settled", "storage", "written", "verify", "gone", "escalate", "closed", "nudge"}
PageTyped == /\ shown \in BOOLEAN /\ comes \in BOOLEAN /\ tcf \in BOOLEAN /\ old \in BOOLEAN
             /\ clicked \in BOOLEAN /\ choice \in BOOLEAN /\ stored \in BOOLEAN /\ budget \in BOOLEAN
FlagsTyped == /\ ran \in BOOLEAN /\ found \in BOOLEAN /\ seenTCF \in BOOLEAN /\ blind \in BOOLEAN
              /\ marked \in BOOLEAN /\ attempted \in BOOLEAN
HandlerTyped ==
    /\ rules \in RuleLists /\ pc \in H!Places /\ at \in 1..(Len(rules) + 1) /\ step \in 1..3
    /\ using \in {"steps", "necessary"} /\ stale \subseteq DOMAIN rules
    /\ outcome \in H!Outcomes /\ by \in {"none", "tcf", "rule", "storage"}
    /\ pc \in Working => at <= Len(rules)

\* The page does nothing of its own, and nothing is done to it before the phase is marked
\* and a rule or the API was found.
PageIsActedOn ==
    /\ choice => clicked
    /\ stored => clicked
    /\ clicked => marked
    /\ marked => attempted \/ seenTCF
    /\ pc \in {"inject", "probe", "banner", "snapshot"} => ~marked
    /\ pc \in Working => marked /\ attempted
    /\ pc = "tcf" => seenTCF

\* What the handler has seen by the time it is at a place.
SeenSoFar ==
    /\ pc \in {"gone", "escalate", "closed", "nudge"} => choice
    /\ pc = "written" => stored \/ (blind /\ old)
    /\ using = "necessary" => ~ran

\* An outcome is given at the end, and from evidence the page cannot take back.
OutcomeIsGiven ==
    /\ outcome # "" => pc \in {"end", "done"}
    /\ outcome = "applied" /\ ~blind => (choice \/ stored) /\ (by \in {"rule", "storage"} => ~shown)
    /\ outcome = "not-needed" => ~marked /\ ~found /\ ~seenTCF

ConsentInv == PageTyped /\ FlagsTyped /\ HandlerTyped /\ PageIsActedOn /\ SeenSoFar /\ OutcomeIsGiven

LEMMA ConsentStart == H!Init => ConsentInv
<1> SUFFICES ASSUME H!Init PROVE ConsentInv
  OBVIOUS
<1>1. rules \in Seq(H!Rule)
  BY SessionAssumption DEF H!Init, H!ConsentAssumption
<1>2. 1 \in 1..(Len(rules) + 1)
  BY <1>1
<1>3. PageTyped /\ FlagsTyped
  BY Zenon DEF H!Init, PageTyped, FlagsTyped
<1>4. rules \in RuleLists /\ pc = "inject" /\ at = 1 /\ step = 1 /\ using = "steps" /\ stale = {}
      /\ outcome = "" /\ by = "none"
  BY DEF H!Init
<1>5. HandlerTyped
  <2>1. pc \in H!Places /\ pc \notin Working
    BY <1>4 DEF H!Places, Working
  <2>2. outcome \in H!Outcomes /\ stale \subseteq DOMAIN rules
    BY <1>4 DEF H!Outcomes
  <2>3. at \in 1..(Len(rules) + 1)
    BY <1>2, <1>4, Zenon
  <2>30. step \in 1..3
    <3>1. step = 1
      BY <1>4
    <3>2. QED
      BY <3>1
  <2>4. QED
    BY <1>4, <2>1, <2>2, <2>3, <2>30 DEF HandlerTyped
<1>6. QED
  BY <1>3, <1>5 DEF H!Init, ConsentInv, PageIsActedOn, SeenSoFar, OutcomeIsGiven, Working

LEMMA RuleTypes ==
    ASSUME HandlerTyped
    PROVE  /\ Len(rules) \in Nat /\ at \in Nat
           /\ at <= Len(rules) => rules[at].steps \in H!Steps /\ rules[at].necessary \in H!Steps
<1>1. rules \in Seq(H!Rule)
  BY SessionAssumption DEF HandlerTyped, H!ConsentAssumption
<1>2. at \in 1..(Len(rules) + 1)
  BY DEF HandlerTyped
<1>3. Len(rules) \in Nat /\ at \in Nat /\ at >= 1
  BY <1>1, <1>2
<1>4. ASSUME at <= Len(rules) PROVE rules[at].steps \in H!Steps /\ rules[at].necessary \in H!Steps
  <2>1. at \in DOMAIN rules
    BY <1>1, <1>3, <1>4
  <2>2. rules[at] \in H!Rule
    BY <1>1, <2>1
  <2>3. QED
    BY <2>2 DEF H!Rule
<1>5. QED
  BY <1>3, <1>4

\* A sequence has at most two steps.
LEMMA ShortSequence == ASSUME HandlerTyped, at <= Len(rules) PROVE Len(H!Sequence) \in 0..2
<1>1. H!Sequence \in H!Steps
  BY RuleTypes DEF H!Sequence, H!Current
<1>2. QED
  BY <1>1 DEF H!Steps

LEMMA PageStep == ASSUME ConsentInv, H!Page PROVE ConsentInv'
<1>1. UNCHANGED <<rules, tcf, old, found, seenTCF, blind, pc, at, step, using, ran, marked, attempted, stale, outcome, by, clicked>>
  BY DEF H!Page, H!PageShows, H!PageRecords, H!PageCloses, H!BudgetEnds, H!page, H!seen, H!handler
<1>2. /\ shown' \in BOOLEAN /\ comes' \in BOOLEAN /\ choice' \in BOOLEAN /\ stored' \in BOOLEAN /\ budget' \in BOOLEAN
      /\ choice => choice'
      /\ stored => stored'
      /\ choice' => clicked
      /\ stored' => clicked
      /\ clicked /\ ~shown => ~shown'
  <2>0. PageTyped /\ (choice => clicked) /\ (stored => clicked)
    BY DEF ConsentInv, PageIsActedOn
  <2>1. CASE H!PageShows
    <3>1. ~clicked /\ comes' = FALSE /\ shown' = TRUE /\ UNCHANGED <<choice, stored, budget>>
      BY <2>1 DEF H!PageShows
    <3>2. QED
      BY <2>0, <3>1 DEF PageTyped
  <2>2. CASE H!PageRecords
    <3>1. clicked /\ choice' = TRUE /\ (stored' = stored \/ stored' = TRUE) /\ UNCHANGED <<shown, comes, budget>>
      BY <2>2 DEF H!PageRecords
    <3>2. shown' \in BOOLEAN /\ comes' \in BOOLEAN /\ budget' \in BOOLEAN /\ choice' \in BOOLEAN
      BY <2>0, <3>1, Zenon DEF PageTyped
    <3>3. stored' \in BOOLEAN
      BY <2>0, <3>1, Zenon DEF PageTyped
    <3>4. choice' /\ clicked /\ (stored => stored') /\ (~shown => ~shown')
      BY <3>1
    <3>5. QED
      BY <3>2, <3>3, <3>4
  <2>3. CASE H!PageCloses
    <3>1. clicked /\ shown' = FALSE /\ UNCHANGED <<comes, choice, stored, budget>>
      BY <2>3 DEF H!PageCloses
    <3>2. QED
      BY <2>0, <3>1 DEF PageTyped
  <2>4. CASE H!BudgetEnds
    <3>1. budget' = FALSE /\ UNCHANGED <<shown, comes, choice, stored>>
      BY <2>4 DEF H!BudgetEnds, H!page
    <3>2. QED
      BY <2>0, <3>1 DEF PageTyped
  <2>5. QED
    BY <2>1, <2>2, <2>3, <2>4 DEF H!Page
<1>3. PageTyped' /\ FlagsTyped' /\ HandlerTyped'
  <2>1. PageTyped' /\ FlagsTyped'
    BY <1>1, <1>2, Zenon DEF ConsentInv, PageTyped, FlagsTyped
  <2>2. HandlerTyped'
    BY <1>1 DEF ConsentInv, HandlerTyped
  <2>3. QED
    BY <2>1, <2>2
<1>4. PageIsActedOn' /\ SeenSoFar'
  BY <1>1, <1>2 DEF ConsentInv, PageIsActedOn, SeenSoFar
<1>5. OutcomeIsGiven'
  BY <1>1, <1>2 DEF ConsentInv, PageIsActedOn, OutcomeIsGiven
<1>6. QED
  BY <1>3, <1>4, <1>5 DEF ConsentInv

\* A look at the page tells the truth or fails, and fails once the budget is spent.
LEMMA LooksTell ==
    ASSUME NEW truth \in BOOLEAN, NEW look \in H!Looks(truth)
    PROVE  look \in {"yes", "no", "error"} /\ (look = "yes" => truth) /\ (look = "no" => ~truth)
<1>1. CASE budget /\ truth
  BY <1>1 DEF H!Looks
<1>2. CASE budget /\ ~truth
  BY <1>2 DEF H!Looks
<1>3. CASE ~budget
  BY <1>3 DEF H!Looks
<1>4. QED
  BY <1>1, <1>2, <1>3

\* The first looks: they change what the handler has seen and nothing else.
LEMMA LookAround ==
    ASSUME ConsentInv, H!Inject \/ H!Probe \/ H!AwaitBanner \/ H!Snapshot
    PROVE  ConsentInv'
<1>0. PageTyped /\ FlagsTyped /\ HandlerTyped /\ PageIsActedOn /\ SeenSoFar /\ OutcomeIsGiven
  BY DEF ConsentInv
<1>1. /\ UNCHANGED <<rules, shown, comes, tcf, old, clicked, choice, stored, budget, marked, by>>
      /\ UNCHANGED <<at, step, using, ran, stale, attempted>>
      /\ pc' \in {"end", "probe", "banner", "snapshot", "tcf", "rule"}
  BY DEF H!Inject, H!Probe, H!AwaitBanner, H!Snapshot, H!Goto, H!page, H!seen
<1>2. /\ seenTCF' \in BOOLEAN /\ found' \in BOOLEAN /\ blind' \in BOOLEAN
      /\ pc' = "tcf" => seenTCF'
      /\ pc \in {"inject", "probe", "banner", "snapshot"}
      /\ outcome' = outcome \/ (outcome' = "failed" /\ pc' = "end")
  <2>1. CASE H!Inject
    BY <1>0, <2>1 DEF H!Inject, H!Goto, H!seen, FlagsTyped
  <2>2. CASE H!Probe
    BY <1>0, <2>2 DEF H!Probe, H!Goto, FlagsTyped
  <2>3. CASE H!AwaitBanner
    BY <1>0, <2>3 DEF H!AwaitBanner, H!Goto, FlagsTyped
  <2>4. CASE H!Snapshot
    BY <1>0, <2>4 DEF H!Snapshot, H!Goto, FlagsTyped
  <2>5. QED
    BY <2>1, <2>2, <2>3, <2>4
<1>3. outcome = "" /\ ~clicked /\ ~marked
  BY <1>0, <1>2 DEF PageIsActedOn, OutcomeIsGiven
<1>4. PageTyped' /\ FlagsTyped' /\ HandlerTyped'
  <2>1. PageTyped' /\ FlagsTyped'
    BY <1>0, <1>1, <1>2, Zenon DEF PageTyped, FlagsTyped
  <2>2. HandlerTyped'
    BY <1>0, <1>1, <1>2 DEF HandlerTyped, H!Places, H!Outcomes, Working
  <2>3. QED
    BY <2>1, <2>2
<1>5. PageIsActedOn' /\ SeenSoFar' /\ OutcomeIsGiven'
  BY <1>0, <1>1, <1>2, <1>3 DEF PageIsActedOn, SeenSoFar, OutcomeIsGiven, Working
<1>6. QED
  BY <1>4, <1>5 DEF ConsentInv

\* What an action of the handler must see to: the rest of the invariant follows.
LEMMA HandlerMoves ==
    ASSUME ConsentInv, UNCHANGED <<rules, shown, comes, tcf, old, stored, budget, found, seenTCF, blind>>,
           choice' \in BOOLEAN, clicked' \in BOOLEAN, marked' \in BOOLEAN, attempted' \in BOOLEAN, ran' \in BOOLEAN,
           clicked => clicked', choice' => clicked', clicked' => marked', marked' => attempted' \/ seenTCF,
           HandlerTyped', SeenSoFar',
           pc' \in Working => marked' /\ attempted',
           pc' \notin {"inject", "probe", "banner", "snapshot", "tcf"},
           outcome' # "" => pc' \in {"end", "done"},
           outcome' = "applied" /\ ~blind => (choice' \/ stored) /\ (by' \in {"rule", "storage"} => ~shown),
           outcome' = "not-needed" => ~marked' /\ ~found /\ ~seenTCF
    PROVE  ConsentInv'
<1>1. PageTyped' /\ FlagsTyped'
  BY Zenon DEF ConsentInv, PageTyped, FlagsTyped
<1>2. PageIsActedOn'
  BY DEF ConsentInv, PageIsActedOn
<1>3. OutcomeIsGiven'
  BY DEF OutcomeIsGiven
<1>4. QED
  BY <1>1, <1>2, <1>3 DEF ConsentInv

LEMMA ApplyTCFStep == ASSUME ConsentInv, H!ApplyTCF PROVE ConsentInv'
<1>0. PageTyped /\ FlagsTyped /\ HandlerTyped /\ PageIsActedOn /\ SeenSoFar /\ OutcomeIsGiven
  BY DEF ConsentInv
<1>1. /\ pc = "tcf" /\ marked' = TRUE /\ UNCHANGED <<rules, shown, comes, tcf, old, stored, budget, found, seenTCF, blind>>
      /\ UNCHANGED <<at, step, using, ran, stale, attempted>>
  BY DEF H!ApplyTCF, H!Goto, H!seen
<1>2. seenTCF /\ outcome = ""
  BY <1>0, <1>1 DEF PageIsActedOn, OutcomeIsGiven
<1>3. \/ clicked' = TRUE /\ choice' = TRUE /\ outcome' = "applied" /\ by' = "tcf" /\ pc' = "end"
      \/ clicked' = TRUE /\ choice' = choice /\ outcome' = "unverified" /\ by' = "tcf" /\ pc' = "end"
      \/ (clicked' = clicked \/ clicked' = TRUE) /\ choice' = choice /\ outcome' = outcome /\ by' = by /\ pc' = "rule"
  BY DEF H!ApplyTCF, H!Goto
<1>4. HandlerTyped'
  <2>1. pc' \in H!Places /\ pc' \notin Working /\ outcome' \in H!Outcomes /\ by' \in {"none", "tcf", "rule", "storage"}
    BY <1>0, <1>2, <1>3 DEF HandlerTyped, H!Places, H!Outcomes, Working
  <2>2. QED
    BY <1>0, <1>1, <2>1 DEF HandlerTyped
<1>5. /\ choice' \in BOOLEAN /\ clicked' \in BOOLEAN /\ marked' \in BOOLEAN /\ attempted' \in BOOLEAN /\ ran' \in BOOLEAN
  <2>1. marked' \in BOOLEAN /\ attempted' \in BOOLEAN /\ ran' \in BOOLEAN
    BY <1>0, <1>1, Zenon DEF FlagsTyped
  <2>2. choice' \in BOOLEAN /\ clicked' \in BOOLEAN
    BY <1>0, <1>3, Zenon DEF PageTyped
  <2>3. QED
    BY <2>1, <2>2
<1>6. (clicked => clicked') /\ (choice' => clicked') /\ marked'
  BY <1>0, <1>1, <1>3 DEF PageIsActedOn
<1>7. SeenSoFar'
  BY <1>0, <1>1, <1>3 DEF SeenSoFar
<1>8. outcome' = "applied" => choice' /\ by' = "tcf"
  BY <1>2, <1>3
<1>9. QED
  BY <1>1, <1>2, <1>3, <1>4, <1>5, <1>6, <1>7, <1>8, HandlerMoves DEF Working

\* At a rule: nothing is concluded yet, and the handler works on none.
LEMMA AtRule ==
    ASSUME ConsentInv, pc = "rule" \/ pc \in Working
    PROVE  /\ outcome = "" /\ by \in {"none", "tcf", "rule", "storage"} /\ HandlerTyped
           /\ choice \in BOOLEAN /\ clicked \in BOOLEAN /\ marked \in BOOLEAN /\ attempted \in BOOLEAN /\ ran \in BOOLEAN
           /\ choice => clicked
           /\ clicked => marked
           /\ marked => attempted \/ seenTCF
           /\ pc \in Working => marked /\ attempted /\ at <= Len(rules)
           /\ using = "necessary" => ~ran
<1>1. outcome = ""
  BY DEF ConsentInv, OutcomeIsGiven, Working
<1>2. HandlerTyped /\ PageIsActedOn /\ SeenSoFar
  BY DEF ConsentInv
<1>3. choice \in BOOLEAN /\ clicked \in BOOLEAN /\ marked \in BOOLEAN /\ attempted \in BOOLEAN /\ ran \in BOOLEAN
  BY Zenon DEF ConsentInv, PageTyped, FlagsTyped
<1>4. QED
  BY <1>1, <1>2, <1>3 DEF HandlerTyped, PageIsActedOn, SeenSoFar

LEMMA NextRuleTyped ==
    ASSUME ConsentInv, at <= Len(rules), H!NextRule, rules' = rules, stale' \subseteq DOMAIN rules,
           UNCHANGED <<outcome, by>>
    PROVE  HandlerTyped' /\ SeenSoFar' /\ pc' = "rule" /\ ran' \in BOOLEAN
<1>1. pc' = "rule" /\ at' = at + 1 /\ step' = 1 /\ using' = "steps" /\ ran' = FALSE
  BY DEF H!NextRule
<1>2. HandlerTyped
  BY DEF ConsentInv
<1>3. at' \in 1..(Len(rules) + 1)
  <2>1. at \in 1..(Len(rules) + 1) /\ Len(rules) \in Nat
    BY <1>2, RuleTypes DEF HandlerTyped
  <2>2. at' = at + 1
    BY <1>1
  <2>3. QED
    BY <2>1, <2>2
<1>4. step' \in 1..3
  BY DEF H!NextRule
<1>5. pc' \in H!Places /\ pc' \notin Working /\ using' \in {"steps", "necessary"}
  BY <1>1 DEF H!Places, Working
<1>6. HandlerTyped'
  BY <1>2, <1>3, <1>4, <1>5 DEF HandlerTyped
<1>7. SeenSoFar'
  BY <1>1 DEF SeenSoFar
<1>8. QED
  BY <1>1, <1>6, <1>7

LEMMA PassOverStep == ASSUME ConsentInv, H!PassOver PROVE ConsentInv'
<1>1. /\ pc = "rule" /\ at <= Len(rules) /\ H!NextRule
      /\ UNCHANGED <<rules, shown, comes, tcf, old, clicked, choice, stored, budget, found, seenTCF, blind>>
      /\ UNCHANGED <<marked, attempted, stale, outcome, by>>
  BY DEF H!PassOver, H!page, H!seen
<1>2. HandlerTyped' /\ SeenSoFar' /\ pc' = "rule" /\ ran' \in BOOLEAN
  BY <1>1, AtRule, NextRuleTyped DEF HandlerTyped
<1>3. QED
  BY <1>1, <1>2, AtRule, HandlerMoves DEF Working

LEMMA DetectStep == ASSUME ConsentInv, H!Detect PROVE ConsentInv'
<1>1. /\ pc = "rule" /\ at <= Len(rules)
      /\ UNCHANGED <<rules, shown, comes, tcf, old, clicked, choice, stored, budget, found, seenTCF, blind>>
      /\ UNCHANGED <<outcome, by>>
  BY DEF H!Detect, H!page, H!seen
<1>2. /\ outcome = "" /\ HandlerTyped /\ choice \in BOOLEAN /\ clicked \in BOOLEAN /\ marked \in BOOLEAN
      /\ attempted \in BOOLEAN /\ (choice => clicked) /\ (clicked => marked) /\ (marked => attempted \/ seenTCF)
  BY <1>1, AtRule
<1>3. at \in DOMAIN rules
  <2>1. rules \in Seq(H!Rule) /\ at \in 1..(Len(rules) + 1)
    BY <1>2, SessionAssumption DEF HandlerTyped, H!ConsentAssumption
  <2>2. QED
    BY <1>1, <2>1
<1>4. CASE H!NextRule /\ UNCHANGED <<attempted, marked>> /\ stale' \subseteq DOMAIN rules
  <2>1. HandlerTyped' /\ SeenSoFar' /\ pc' = "rule" /\ ran' \in BOOLEAN
    BY <1>1, <1>4, NextRuleTyped
  <2>2. QED
    BY <1>1, <1>2, <1>4, <2>1, HandlerMoves DEF Working
<1>5. CASE /\ attempted' = TRUE /\ marked' = TRUE /\ pc' = "steps" /\ step' = 1 /\ ran' = FALSE
           /\ using' \in {"steps", "necessary"} /\ UNCHANGED <<at, stale>>
  <2>1. step' \in 1..3
    <3>1. step' = 1
      BY <1>5
    <3>2. QED
      BY <3>1
  <2>2. HandlerTyped'
    BY <1>1, <1>2, <1>5, <2>1 DEF HandlerTyped, H!Places
  <2>3. SeenSoFar'
    BY <1>5 DEF SeenSoFar
  <2>4. ran' \in BOOLEAN /\ attempted' \in BOOLEAN /\ marked' \in BOOLEAN /\ marked' /\ attempted'
    BY <1>5, Zenon
  <2>5. QED
    BY <1>1, <1>2, <1>5, <2>2, <2>3, <2>4, HandlerMoves
<1>6. QED
  <2>1. stale \subseteq DOMAIN rules
    BY <1>2 DEF HandlerTyped
  <2>2. PICK matched \in BOOLEAN : \E look \in H!Looks(matched) :
       \/ /\ look = "error" /\ H!NextRule /\ UNCHANGED <<stale, attempted, marked>>
       \/ /\ look = "no" /\ H!NextRule /\ UNCHANGED <<attempted, marked>>
          /\ stale' = IF H!Current.hosted THEN stale \cup {at} ELSE stale
       \/ /\ look = "yes" /\ attempted' = TRUE /\ pc' = "steps" /\ step' = 1
          /\ using' = (IF H!Current.steps = <<>> THEN "necessary" ELSE "steps")
          /\ marked' = TRUE /\ ran' = FALSE /\ UNCHANGED <<at, stale>>
    BY DEF H!Detect, H!Marks
  <2>3. \/ H!NextRule /\ UNCHANGED <<stale, attempted, marked>>
        \/ /\ H!NextRule /\ UNCHANGED <<attempted, marked>>
           /\ (stale' = stale \cup {at} \/ stale' = stale)
        \/ /\ attempted' = TRUE /\ pc' = "steps" /\ step' = 1
           /\ using' \in {"steps", "necessary"}
           /\ marked' = TRUE /\ ran' = FALSE /\ UNCHANGED <<at, stale>>
    BY <2>2
  <2>4. QED
    BY <1>3, <1>4, <1>5, <2>1, <2>3

\* A rule has come to an outcome: it is given where it is conclusive, and otherwise the
\* next candidate is tried.
LEMMA RuleMoves ==
    ASSUME ConsentInv, pc \in Working,
           UNCHANGED <<rules, shown, comes, tcf, old, choice, stored, budget, found, seenTCF, blind>>,
           clicked' \in BOOLEAN, clicked => clicked',
           NEW o \in H!Outcomes, NEW mechanism \in {"none", "tcf", "rule", "storage"},
           H!RuleComesTo(o, mechanism), o # "not-needed",
           o = "applied" /\ ~blind => (choice \/ stored) /\ (mechanism \in {"rule", "storage"} => ~shown)
    PROVE  ConsentInv'
<1>1. /\ outcome = "" /\ HandlerTyped /\ choice \in BOOLEAN /\ marked \in BOOLEAN /\ attempted \in BOOLEAN
      /\ ran \in BOOLEAN /\ (choice => clicked) /\ marked /\ attempted /\ at <= Len(rules)
      /\ (using = "necessary" => ~ran)
  BY AtRule
<1>2. UNCHANGED <<stale, attempted, marked>>
  BY DEF H!RuleComesTo
<1>3. CASE outcome' = o /\ by' = mechanism /\ pc' = "end" /\ UNCHANGED <<at, step, using, ran>>
  <2>1. HandlerTyped'
    <3>1. pc' \in H!Places /\ pc' \notin Working
      BY <1>3 DEF H!Places, Working
    <3>2. QED
      BY <1>1, <1>2, <1>3, <3>1 DEF HandlerTyped
  <2>2. SeenSoFar'
    BY <1>1, <1>3 DEF SeenSoFar
  <2>3. attempted' \in BOOLEAN /\ marked' \in BOOLEAN /\ ran' \in BOOLEAN
    BY <1>1, <1>2, <1>3, Zenon
  <2>4. QED
    BY <1>1, <1>2, <1>3, <2>1, <2>2, <2>3, HandlerMoves DEF Working
<1>4. CASE H!NextRule /\ UNCHANGED <<outcome, by>>
  <2>1. stale' \subseteq DOMAIN rules
    BY <1>1, <1>2 DEF HandlerTyped
  <2>2. HandlerTyped' /\ SeenSoFar' /\ pc' = "rule" /\ ran' \in BOOLEAN
    BY <1>1, <1>4, <2>1, NextRuleTyped
  <2>3. attempted' \in BOOLEAN /\ marked' \in BOOLEAN
    BY <1>1, <1>2, Zenon
  <2>4. QED
    BY <1>1, <1>2, <1>4, <2>2, <2>3, HandlerMoves DEF Working
<1>5. QED
  BY <1>3, <1>4 DEF H!RuleComesTo

\* The handler goes on with the rule it has.
LEMMA RuleGoesOn ==
    ASSUME ConsentInv, pc \in Working, pc' \in Working, step' \in 1..3, using' \in {"steps", "necessary"},
           UNCHANGED <<rules, shown, comes, tcf, old, choice, stored, budget, found, seenTCF, blind>>,
           UNCHANGED <<at, attempted, stale, outcome, by>>,
           clicked' \in BOOLEAN, clicked => clicked', marked' = TRUE, ran' \in BOOLEAN, SeenSoFar'
    PROVE  ConsentInv'
<1>1. /\ outcome = "" /\ HandlerTyped /\ choice \in BOOLEAN /\ attempted \in BOOLEAN
      /\ (choice => clicked) /\ marked /\ attempted /\ at <= Len(rules)
  BY AtRule
<1>2. pc' \in H!Places /\ pc' \notin {"inject", "probe", "banner", "snapshot", "tcf"}
  BY DEF H!Places, Working
<1>3. HandlerTyped'
  BY <1>1, <1>2 DEF HandlerTyped
<1>4. marked' \in BOOLEAN /\ marked' /\ attempted' \in BOOLEAN
  BY <1>1, Zenon
<1>5. QED
  BY <1>1, <1>2, <1>3, <1>4, HandlerMoves

LEMMA OneMore == ASSUME NEW s \in 1..3, NEW n \in 0..2, s <= n PROVE s + 1 \in 1..3
OBVIOUS

LEMMA StepActsStep == ASSUME ConsentInv, H!StepActs PROVE ConsentInv'
<1>1. /\ pc = "steps" /\ step <= Len(H!Sequence) /\ clicked' = TRUE /\ step' = step + 1
      /\ UNCHANGED <<rules, shown, comes, tcf, old, choice, stored, budget, found, seenTCF, blind>>
      /\ UNCHANGED <<pc, at, using, marked, attempted, stale, outcome, by>>
      /\ ran' = (ran \/ using = "steps")
  BY DEF H!StepActs, H!seen
<1>2. pc \in Working
  BY <1>1 DEF Working
<1>3. /\ HandlerTyped /\ marked \in BOOLEAN /\ marked /\ at <= Len(rules) /\ ran \in BOOLEAN
      /\ (using = "necessary" => ~ran)
  BY <1>2, AtRule
<1>4. step' \in 1..3
  <2>1. step \in 1..3 /\ Len(H!Sequence) \in 0..2
    BY <1>3, ShortSequence DEF HandlerTyped
  <2>2. step' = step + 1 /\ step <= Len(H!Sequence)
    BY <1>1
  <2>3. QED
    BY <2>1, <2>2, OneMore
<1>5. SeenSoFar'
  BY <1>1, <1>3 DEF SeenSoFar
<1>6. clicked' \in BOOLEAN /\ ran' \in BOOLEAN /\ marked' = TRUE /\ using' \in {"steps", "necessary"} /\ pc' \in Working
  <2>1. ran' \in BOOLEAN /\ clicked' \in BOOLEAN
    BY <1>1, Zenon
  <2>2. marked' = TRUE
    BY <1>1, <1>3
  <2>3. QED
    BY <1>1, <1>2, <1>3, <2>1, <2>2 DEF HandlerTyped
<1>7. clicked => clicked'
  BY <1>1
<1>8. QED
  BY <1>1, <1>2, <1>4, <1>5, <1>6, <1>7, RuleGoesOn

LEMMA StepFailsStep == ASSUME ConsentInv, H!StepFails PROVE ConsentInv'
<1>1. /\ pc = "steps" /\ step <= Len(H!Sequence)
      /\ UNCHANGED <<rules, shown, comes, tcf, old, clicked, choice, stored, budget, found, seenTCF, blind>>
  BY DEF H!StepFails, H!page, H!seen
<1>2. pc \in Working
  BY <1>1 DEF Working
<1>3. /\ HandlerTyped /\ marked \in BOOLEAN /\ marked /\ at <= Len(rules) /\ ran \in BOOLEAN /\ clicked \in BOOLEAN
      /\ (using = "necessary" => ~ran)
  BY <1>2, AtRule
<1>4. clicked' \in BOOLEAN /\ (clicked => clicked')
  BY <1>1, <1>3
<1>5. CASE step' = step + 1 /\ UNCHANGED <<pc, at, using, ran, marked, attempted, stale, outcome, by>>
  <2>1. step' \in 1..3
    <3>1. step \in 1..3 /\ Len(H!Sequence) \in 0..2
      BY <1>3, ShortSequence DEF HandlerTyped
    <3>2. step' = step + 1 /\ step <= Len(H!Sequence)
      BY <1>1, <1>5
    <3>3. QED
      BY <3>1, <3>2, OneMore
  <2>2. SeenSoFar'
    BY <1>1, <1>3, <1>5 DEF SeenSoFar
  <2>3. marked' = TRUE
    BY <1>3, <1>5
  <2>4. ran' \in BOOLEAN
    BY <1>3, <1>5, Zenon
  <2>5. QED
    BY <1>1, <1>2, <1>3, <1>4, <1>5, <2>1, <2>2, <2>3, <2>4, RuleGoesOn DEF HandlerTyped
<1>6. CASE H!RuleComesTo("failed", "none")
  <2>1. "failed" \in H!Outcomes
    BY DEF H!Outcomes
  <2>2. QED
    BY <1>1, <1>2, <1>4, <1>6, <2>1, RuleMoves
<1>7. QED
  BY <1>5, <1>6 DEF H!StepFails

LEMMA StepsEndStep == ASSUME ConsentInv, H!StepsEnd PROVE ConsentInv'
<1>1. /\ pc = "steps" /\ UNCHANGED <<rules, shown, comes, tcf, old, clicked, choice, stored, budget, found, seenTCF, blind>>
  BY DEF H!StepsEnd, H!page, H!seen
<1>2. pc \in Working
  BY <1>1 DEF Working
<1>3. /\ HandlerTyped /\ marked \in BOOLEAN /\ marked /\ at <= Len(rules) /\ ran \in BOOLEAN /\ clicked \in BOOLEAN
      /\ (using = "necessary" => ~ran)
  BY <1>2, AtRule
<1>4. clicked' \in BOOLEAN /\ (clicked => clicked')
  BY <1>1, <1>3
<1>5. CASE H!RuleComesTo("", "none")
  <2>1. "" \in H!Outcomes
    BY DEF H!Outcomes
  <2>2. QED
    BY <1>1, <1>2, <1>4, <1>5, <2>1, RuleMoves
<1>6. CASE /\ H!RanNothing /\ using' = "necessary" /\ step' = 1 /\ marked' = TRUE
           /\ UNCHANGED <<pc, at, ran, attempted, stale, outcome, by>>
  <2>1. step' \in 1..3
    <3>1. step' = 1
      BY <1>6
    <3>2. QED
      BY <3>1
  <2>2. ~ran
    BY <1>6 DEF H!RanNothing
  <2>3. SeenSoFar'
    BY <1>1, <1>6, <2>2 DEF SeenSoFar
  <2>4. ran' \in BOOLEAN
    BY <1>3, <1>6, Zenon
  <2>5. QED
    BY <1>1, <1>2, <1>4, <1>6, <2>1, <2>3, <2>4, RuleGoesOn
<1>7. CASE /\ pc' \in {"verify", "storage", "settled"}
           /\ UNCHANGED <<at, step, using, ran, marked, attempted, stale, outcome, by>>
  <2>1. pc' \in Working /\ pc' \notin {"written", "gone", "escalate", "closed", "nudge"}
    BY <1>7 DEF Working
  <2>2. SeenSoFar'
    BY <1>3, <1>7, <2>1 DEF SeenSoFar
  <2>3. ran' \in BOOLEAN
    BY <1>3, <1>7, Zenon
  <2>4. marked' = TRUE
    BY <1>3, <1>7
  <2>5. QED
    BY <1>1, <1>2, <1>3, <1>4, <1>7, <2>1, <2>2, <2>3, <2>4, RuleGoesOn DEF HandlerTyped
<1>8. QED
  <2>1. CASE H!RanNothing
    BY <1>5, <1>6, <2>1 DEF H!StepsEnd, H!Marks
  <2>2. CASE ~H!RanNothing
    <3>1. /\ pc' = CASE H!Current.verify -> "verify"
                     [] ~H!Current.verify /\ using = "steps" -> "storage"
                     [] OTHER -> "settled"
          /\ UNCHANGED <<at, step, using, ran, marked, attempted, stale, outcome, by>>
      BY <2>2 DEF H!StepsEnd
    <3>2. CASE H!Current.verify
      BY <1>7, <3>1, <3>2
    <3>3. CASE ~H!Current.verify /\ using = "steps"
      BY <1>7, <3>1, <3>3
    <3>4. CASE ~H!Current.verify /\ using # "steps"
      BY <1>7, <3>1, <3>4
    <3>5. QED
      BY <3>2, <3>3, <3>4
  <2>3. QED
    BY <2>1, <2>2

\* A look takes the handler to another place and changes nothing.
LEMMA GoesTo ==
    ASSUME ConsentInv, pc \in Working, NEW place \in Working, H!Goto(place),
           UNCHANGED <<rules, shown, comes, tcf, old, choice, stored, budget, found, seenTCF, blind>>,
           UNCHANGED <<marked, outcome, by>>, clicked' \in BOOLEAN, clicked => clicked',
           place \in {"gone", "escalate", "closed", "nudge"} => choice,
           place = "written" => stored \/ (blind /\ old)
    PROVE  ConsentInv'
<1>1. pc' = place /\ UNCHANGED <<at, step, using, ran, stale, attempted>>
  BY DEF H!Goto
<1>2. HandlerTyped /\ marked \in BOOLEAN /\ marked /\ ran \in BOOLEAN /\ (using = "necessary" => ~ran)
  BY AtRule
<1>3. SeenSoFar'
  BY <1>1, <1>2 DEF SeenSoFar
<1>4. ran' \in BOOLEAN
  BY <1>1, <1>2, Zenon
<1>5. marked' = TRUE
  BY <1>2
<1>6. step' \in 1..3 /\ using' \in {"steps", "necessary"}
  BY <1>1, <1>2 DEF HandlerTyped
<1>7. QED
  BY <1>1, <1>3, <1>4, <1>5, <1>6, RuleGoesOn

LEMMA SettledStep ==
    ASSUME ConsentInv, H!Unverified \/ H!LookForWrites \/ H!WrittenAndGone
    PROVE  ConsentInv'
<1>1. /\ pc \in Working
      /\ UNCHANGED <<rules, shown, comes, tcf, old, clicked, choice, stored, budget, found, seenTCF, blind>>
  BY DEF H!Unverified, H!LookForWrites, H!WrittenAndGone, H!page, H!seen, Working
<1>2. clicked' \in BOOLEAN /\ (clicked => clicked')
  BY <1>1, AtRule
<1>3. {"unverified", "applied"} \subseteq H!Outcomes
  BY DEF H!Outcomes
<1>30. PageTyped /\ FlagsTyped /\ SeenSoFar
  BY DEF ConsentInv
<1>4. CASE H!RuleComesTo("unverified", "none")
  BY <1>1, <1>2, <1>3, <1>4, RuleMoves
<1>5. CASE H!Unverified
  BY <1>4, <1>5 DEF H!Unverified
<1>6. CASE H!LookForWrites
  <2>1. UNCHANGED <<marked, outcome, by>>
    BY <1>6 DEF H!LookForWrites
  <2>2. PICK look \in H!Looks(H!Written) : H!Goto(IF look = "yes" THEN "written" ELSE "settled")
    BY <1>6 DEF H!LookForWrites
  <2>3. H!Written \in BOOLEAN
    BY <1>30, Zenon DEF H!Written, PageTyped, FlagsTyped
  <2>4. CASE look = "yes"
    <3>1. stored \/ (blind /\ old)
      BY <2>2, <2>3, <2>4, LooksTell DEF H!Written
    <3>2. H!Goto("written") /\ "written" \in Working
      BY <2>2, <2>4 DEF Working
    <3>3. QED
      BY <1>1, <1>2, <2>1, <3>1, <3>2, GoesTo
  <2>5. CASE look # "yes"
    <3>1. H!Goto("settled") /\ "settled" \in Working
      BY <2>2, <2>5 DEF Working
    <3>2. QED
      BY <1>1, <1>2, <2>1, <3>1, GoesTo
  <2>6. QED
    BY <2>4, <2>5
<1>7. CASE H!WrittenAndGone
  <2>1. pc = "written"
    BY <1>7 DEF H!WrittenAndGone
  <2>2. PICK look \in H!Looks(~shown) :
          IF look = "yes" THEN H!RuleComesTo("applied", "storage") ELSE H!RuleComesTo("unverified", "none")
    BY <1>7 DEF H!WrittenAndGone
  <2>3. CASE look = "yes"
    <3>1. (~shown) \in BOOLEAN
      OBVIOUS
    <3>2. ~shown
      BY <2>2, <2>3, <3>1, LooksTell
    <3>3. stored \/ blind
      BY <1>30, <2>1 DEF SeenSoFar
    <3>4. H!RuleComesTo("applied", "storage")
      BY <2>2, <2>3
    <3>5. QED
      BY <1>1, <1>2, <1>3, <3>2, <3>3, <3>4, RuleMoves
  <2>4. CASE look # "yes"
    BY <1>4, <2>2, <2>4
  <2>5. QED
    BY <2>3, <2>4
<1>8. QED
  BY <1>5, <1>6, <1>7

LEMMA VerifyStep == ASSUME ConsentInv, H!Verify PROVE ConsentInv'
<1>1. /\ pc \in Working
      /\ UNCHANGED <<rules, shown, comes, tcf, old, clicked, choice, stored, budget, found, seenTCF, blind>>
  BY DEF H!Verify, H!page, H!seen, Working
<1>2. clicked' \in BOOLEAN /\ (clicked => clicked') /\ choice \in BOOLEAN
  BY <1>1, AtRule
<1>3. {"unverified", "failed"} \subseteq H!Outcomes
  BY DEF H!Outcomes
<1>4. PICK look \in H!Looks(choice) :
       \/ look = "error" /\ H!RuleComesTo("unverified", "none")
       \/ look = "no" /\ H!RuleComesTo("failed", "none")
       \/ /\ look = "yes" /\ H!Goto(IF using = "steps" THEN "gone" ELSE "nudge")
          /\ UNCHANGED <<marked, outcome, by>>
  BY DEF H!Verify
<1>5. CASE H!RuleComesTo("unverified", "none")
  BY <1>1, <1>2, <1>3, <1>5, RuleMoves
<1>6. CASE H!RuleComesTo("failed", "none")
  BY <1>1, <1>2, <1>3, <1>6, RuleMoves
<1>7. CASE look = "yes" /\ H!Goto(IF using = "steps" THEN "gone" ELSE "nudge") /\ UNCHANGED <<marked, outcome, by>>
  <2>1. choice
    BY <1>2, <1>7, LooksTell
  <2>2. "gone" \in Working /\ "nudge" \in Working
    BY DEF Working
  <2>3. CASE using = "steps"
    BY <1>1, <1>2, <1>7, <2>1, <2>2, <2>3, GoesTo
  <2>4. CASE using # "steps"
    BY <1>1, <1>2, <1>7, <2>1, <2>2, <2>4, GoesTo
  <2>5. QED
    BY <2>3, <2>4
<1>8. QED
  BY <1>4, <1>5, <1>6, <1>7

LEMMA BannerStep ==
    ASSUME ConsentInv, H!BannerGone \/ H!Escalate \/ H!Closed \/ H!Nudge
    PROVE  ConsentInv'
<1>1. /\ pc \in {"gone", "escalate", "closed", "nudge"} /\ pc \in Working
      /\ UNCHANGED <<rules, shown, comes, tcf, old, choice, stored, budget, found, seenTCF, blind>>
  BY DEF H!BannerGone, H!Escalate, H!Closed, H!Nudge, H!page, H!seen, Working
<1>2. choice
  BY <1>1 DEF ConsentInv, SeenSoFar
<1>3. {"unverified", "applied", "banner-visible", "necessary-only"} \subseteq H!Outcomes
  BY DEF H!Outcomes
<1>4. clicked \in BOOLEAN /\ budget \in BOOLEAN /\ (~shown) \in BOOLEAN
  BY Zenon DEF ConsentInv, PageTyped
<1>5. {"escalate", "closed"} \subseteq Working
  BY DEF Working
<1>6. ASSUME NEW look \in H!Looks(~shown), look = "yes" PROVE ~shown
  BY <1>4, <1>6, LooksTell
<1>7. CASE H!BannerGone
  <2>1. clicked' = clicked
    BY <1>7 DEF H!BannerGone, H!page
  <2>2. PICK look \in H!Looks(~shown) :
          IF look = "yes" THEN H!RuleComesTo("applied", "rule")
                          ELSE H!Goto("escalate") /\ UNCHANGED <<marked, outcome, by>>
    BY <1>7 DEF H!BannerGone
  <2>3. CASE look = "yes"
    BY <1>1, <1>2, <1>3, <1>4, <1>6, <2>1, <2>2, <2>3, RuleMoves
  <2>4. CASE look # "yes"
    BY <1>1, <1>2, <1>4, <1>5, <2>1, <2>2, <2>4, GoesTo
  <2>5. QED
    BY <2>3, <2>4
<1>8. CASE H!Escalate
  <2>1. H!Goto("closed") /\ UNCHANGED <<marked, outcome, by>> /\ (clicked' = clicked \/ clicked' = (budget \/ clicked))
    BY <1>8 DEF H!Escalate
  <2>2. clicked' \in BOOLEAN
    BY <1>4, <2>1, Zenon
  <2>3. clicked => clicked'
    BY <2>1
  <2>4. QED
    BY <1>1, <1>2, <1>5, <2>1, <2>2, <2>3, GoesTo
<1>9. CASE H!Closed
  <2>1. clicked' = clicked
    BY <1>9 DEF H!Closed, H!page
  <2>2. PICK look \in H!Looks(~shown) : H!RuleComesTo(H!AfterEscalation[look], "rule")
    BY <1>9 DEF H!Closed
  <2>3. /\ H!AfterEscalation["yes"] = "applied" /\ H!AfterEscalation["no"] = "banner-visible"
        /\ H!AfterEscalation["error"] = "unverified" /\ look \in {"yes", "no", "error"}
    BY <1>4, LooksTell DEF H!AfterEscalation
  <2>4. CASE look = "yes"
    BY <1>1, <1>2, <1>3, <1>4, <1>6, <2>1, <2>2, <2>3, <2>4, RuleMoves
  <2>5. CASE look = "no"
    BY <1>1, <1>2, <1>3, <1>4, <2>1, <2>2, <2>3, <2>5, RuleMoves
  <2>6. CASE look = "error"
    BY <1>1, <1>2, <1>3, <1>4, <2>1, <2>2, <2>3, <2>6, RuleMoves
  <2>7. QED
    BY <2>3, <2>4, <2>5, <2>6
<1>10. CASE H!Nudge
  <2>1. H!RuleComesTo("necessary-only", "none") /\ (clicked' = clicked \/ clicked' = (budget \/ clicked))
    BY <1>10 DEF H!Nudge
  <2>2. clicked' \in BOOLEAN
    BY <1>4, <2>1, Zenon
  <2>3. clicked => clicked'
    BY <2>1
  <2>4. QED
    BY <1>1, <1>3, <2>1, <2>2, <2>3, RuleMoves
<1>11. QED
  BY <1>7, <1>8, <1>9, <1>10

LEMMA RulesEndStep == ASSUME ConsentInv, H!RulesEnd PROVE ConsentInv'
<1>1. /\ pc = "rule" /\ pc' = "end" /\ outcome' = H!NoRule
      /\ UNCHANGED <<rules, shown, comes, tcf, old, clicked, choice, stored, budget, found, seenTCF, blind>>
      /\ UNCHANGED <<at, step, using, ran, stale, attempted, marked, by>>
  BY DEF H!RulesEnd, H!Goto, H!page, H!seen
<1>2. /\ HandlerTyped /\ choice \in BOOLEAN /\ clicked \in BOOLEAN /\ marked \in BOOLEAN /\ attempted \in BOOLEAN
      /\ ran \in BOOLEAN /\ (choice => clicked) /\ (clicked => marked) /\ (marked => attempted \/ seenTCF)
      /\ (using = "necessary" => ~ran)
  BY <1>1, AtRule
<1>3. /\ outcome' \in {"failed", "not-needed"}
      /\ outcome' = "not-needed" => ~seenTCF /\ ~attempted /\ ~found
  BY <1>1 DEF H!NoRule
<1>4. HandlerTyped'
  <2>1. pc' \in H!Places /\ pc' \notin Working /\ outcome' \in H!Outcomes
    BY <1>1, <1>3 DEF H!Places, H!Outcomes, Working
  <2>2. QED
    BY <1>1, <1>2, <2>1 DEF HandlerTyped
<1>5. SeenSoFar'
  BY <1>1, <1>2 DEF SeenSoFar
<1>6. marked' \in BOOLEAN /\ attempted' \in BOOLEAN /\ ran' \in BOOLEAN /\ choice' \in BOOLEAN /\ clicked' \in BOOLEAN
  BY <1>1, <1>2, Zenon
<1>7. outcome' = "not-needed" => ~marked'
  BY <1>1, <1>2, <1>3
<1>8. QED
  BY <1>1, <1>2, <1>3, <1>4, <1>5, <1>6, <1>7, HandlerMoves DEF Working

LEMMA ReturnStep == ASSUME ConsentInv, H!Return PROVE ConsentInv'
<1>1. /\ pc = "end" /\ pc' = "done" /\ (outcome' = outcome \/ outcome' = "unverified")
      /\ UNCHANGED <<rules, shown, comes, tcf, old, clicked, choice, stored, budget, found, seenTCF, blind>>
      /\ UNCHANGED <<at, step, using, ran, stale, attempted, marked, by>>
  BY DEF H!Return, H!Goto, H!page, H!seen
<1>2. PageTyped' /\ FlagsTyped'
  <2>1. UNCHANGED <<shown, comes, tcf, old, clicked, choice, stored, budget>> /\ PageTyped
    BY <1>1 DEF ConsentInv
  <2>2. UNCHANGED <<ran, found, seenTCF, blind, marked, attempted>> /\ FlagsTyped
    BY <1>1 DEF ConsentInv
  <2>3. PageTyped'
    BY <2>1, Zenon DEF PageTyped
  <2>4. FlagsTyped'
    BY <2>2, Zenon DEF FlagsTyped
  <2>5. QED
    BY <2>3, <2>4
<1>3. HandlerTyped'
  <2>1. HandlerTyped
    BY DEF ConsentInv
  <2>2. pc' \in H!Places /\ pc' \notin Working /\ outcome' \in H!Outcomes
    BY <1>1, <2>1 DEF H!Places, H!Outcomes, Working, HandlerTyped
  <2>3. QED
    BY <1>1, <2>1, <2>2 DEF HandlerTyped
<1>4. PageIsActedOn' /\ SeenSoFar'
  BY <1>1 DEF ConsentInv, PageIsActedOn, SeenSoFar, Working
<1>5. OutcomeIsGiven'
  BY <1>1 DEF ConsentInv, OutcomeIsGiven
<1>6. QED
  BY <1>2, <1>3, <1>4, <1>5 DEF ConsentInv

LEMMA ConsentStep == ASSUME ConsentInv, H!Next \/ UNCHANGED H!vars PROVE ConsentInv'
<1>1. CASE H!Page
  BY <1>1, PageStep
<1>2. CASE H!Handler
  <2>1. CASE H!Inject \/ H!Probe \/ H!AwaitBanner \/ H!Snapshot
    BY <2>1, LookAround
  <2>2. CASE H!ApplyTCF \/ H!PassOver \/ H!Detect
    BY <2>2, ApplyTCFStep, PassOverStep, DetectStep
  <2>3. CASE H!StepActs \/ H!StepFails \/ H!StepsEnd
    BY <2>3, StepActsStep, StepFailsStep, StepsEndStep
  <2>4. CASE H!Unverified \/ H!LookForWrites \/ H!WrittenAndGone
    BY <2>4, SettledStep
  <2>5. CASE H!Verify
    BY <2>5, VerifyStep
  <2>6. CASE H!BannerGone \/ H!Escalate \/ H!Closed \/ H!Nudge
    BY <2>6, BannerStep
  <2>7. CASE H!RulesEnd \/ H!Return
    BY <2>7, RulesEndStep, ReturnStep
  <2>8. QED
    BY <1>2, <2>1, <2>2, <2>3, <2>4, <2>5, <2>6, <2>7 DEF H!Handler
<1>3. CASE UNCHANGED H!vars
  <2>1. UNCHANGED <<rules, shown, comes, tcf, old, clicked, choice, stored, budget, found, seenTCF, blind>>
    BY <1>3 DEF H!vars, H!page, H!seen
  <2>2. UNCHANGED <<pc, at, step, using, ran, marked, attempted, stale, outcome, by>>
    BY <1>3 DEF H!vars, H!handler
  <2>3. PageTyped' /\ FlagsTyped'
    <3>1. UNCHANGED <<shown, comes, tcf, old, clicked, choice, stored, budget>> /\ PageTyped
      BY <2>1 DEF ConsentInv
    <3>2. UNCHANGED <<ran, found, seenTCF, blind, marked, attempted>> /\ FlagsTyped
      BY <2>1, <2>2 DEF ConsentInv
    <3>3. PageTyped'
      BY <3>1, Zenon DEF PageTyped
    <3>4. FlagsTyped'
      BY <3>2, Zenon DEF FlagsTyped
    <3>5. QED
      BY <3>3, <3>4
  <2>4. HandlerTyped' /\ PageIsActedOn' /\ SeenSoFar' /\ OutcomeIsGiven'
    <3>1. HandlerTyped /\ PageIsActedOn /\ SeenSoFar /\ OutcomeIsGiven
      BY DEF ConsentInv
    <3>2. HandlerTyped'
      BY <2>1, <2>2, <3>1 DEF HandlerTyped
    <3>3. PageIsActedOn'
      BY <2>1, <2>2, <3>1 DEF PageIsActedOn
    <3>4. SeenSoFar'
      BY <2>1, <2>2, <3>1 DEF SeenSoFar
    <3>5. OutcomeIsGiven'
      BY <2>1, <2>2, <3>1 DEF OutcomeIsGiven
    <3>6. QED
      BY <3>2, <3>3, <3>4, <3>5
  <2>5. QED
    BY <2>3, <2>4 DEF ConsentInv
<1>4. QED
  BY <1>1, <1>2, <1>3 DEF H!Next

LEMMA ConsentPromise ==
    ASSUME ConsentInv
    PROVE  H!TypeOK /\ H!AppliedIsEarned /\ H!NotNeededIsUntouched /\ H!FallbackIsLastResort /\ H!MarkedBeforeActing
<1>1. H!TypeOK
  <2>1. /\ {shown, comes, tcf, old, clicked, choice, stored, budget} \subseteq BOOLEAN
        /\ {ran, found, seenTCF, blind, marked, attempted} \subseteq BOOLEAN
    BY Zenon DEF ConsentInv, PageTyped, FlagsTyped
  <2>2. QED
    BY <2>1 DEF ConsentInv, HandlerTyped, H!TypeOK
<1>2. QED
  BY <1>1 DEF ConsentInv, PageIsActedOn, SeenSoFar, OutcomeIsGiven, H!AppliedIsEarned, H!NotNeededIsUntouched,
     H!FallbackIsLastResort, H!MarkedBeforeActing

-----------------------------------------------------------------------------
(* BodySamples: the ledger of a series.                                       *)

Place == {"idle", "read", "claim", "scan", "settle", "wait", "over"}
ObsType == [at : Place, attempt : 1..MaxAttempts, decision : B!Decisions, end : Ends \cup {"none"}]
LedgerTyped ==
    /\ now \in Moments /\ enabled \in BOOLEAN /\ lock \in Observations \cup {0}
    /\ DOMAIN ledger \subseteq Observations /\ \A o \in DOMAIN ledger : ledger[o] \in B!Row
    /\ obs \in [Observations -> ObsType]
    /\ seen \subseteq Observations /\ succeeded \subseteq DOMAIN ledger
    /\ documents \subseteq [of : Observations, ok : BOOLEAN, kind : B!Decisions] /\ merged \subseteq documents

\* Whoever is in the transaction is alone in it and has seen every row there is.
OneInTransaction ==
    /\ \A o \in Observations : obs[o].at = "claim" => lock = o
    /\ lock # 0 => obs[lock].at = "claim" /\ DOMAIN ledger \subseteq seen

\* No row or document comes before the decision, and an attempt that kept its
\* result stored it.
Stores(kept, o, ok) == \E d \in kept : d.of = o /\ d.ok = ok
Documented(o, ok) == Stores(documents, o, ok)
Deciding == {"idle", "read", "claim"}
AttemptsAreKnown == \A o \in Observations :
    /\ obs[o].at \in Deciding => o \notin DOMAIN ledger /\ \A d \in documents : d.of # o
    /\ obs[o].at = "settle" => obs[o].end \in {"ok", "cut", "failed"}
    /\ obs[o].at = "settle" /\ obs[o].decision \notin {"disabled", "unavailable"} =>
         Documented(o, B!Ok(obs[o].end))
    /\ obs[o].at = "wait" => obs[o].attempt < MaxAttempts
    /\ o \in succeeded => obs[o].at = "over"

\* A row that is open is pending, was merged, or is too old for a retry to come.
Merging(o) == \E d \in merged : d.of = o
Late(o) == ledger[o].at + StaleAfter < now
RowsAreTrue == \A o \in DOMAIN ledger :
    /\ o \in succeeded => ledger[o].outcome = "completed"
    /\ ledger[o].outcome = "completed" => Documented(o, TRUE)
    /\ obs[o].at \in {"scan", "settle", "wait"} /\ ~Merging(o) => ledger[o].outcome = "pending" \/ Late(o)

LedgerInv == LedgerTyped /\ OneInTransaction /\ AttemptsAreKnown /\ RowsAreTrue

LEMMA LedgerConstants ==
    /\ 0 \notin Observations /\ Moments \subseteq Nat /\ 0 \in Moments
    /\ SampleWindow \in Nat /\ StaleAfter \in Nat /\ MaxAttempts \in Nat /\ MaxAttempts > 0
    /\ Ends \subseteq {"ok", "cut", "failed", "skipped"} /\ B!Nobody = 0 /\ B!HasRow = DOMAIN ledger
BY SessionAssumption DEF B!BodySamplesAssumption, B!Nobody, B!HasRow

\* What an observation's record holds once an action has changed it.
LEMMA ObsFields ==
    ASSUME LedgerTyped, NEW o \in Observations
    PROVE  /\ obs[o].at \in Place /\ obs[o].attempt \in 1..MaxAttempts
           /\ obs[o].decision \in B!Decisions /\ obs[o].end \in Ends \cup {"none"}
<1>1. obs[o] \in ObsType
  BY DEF LedgerTyped
<1>2. QED
  BY <1>1 DEF ObsType

LEMMA SetsFields ==
    ASSUME LedgerTyped, NEW o \in Observations, NEW a \in Place, NEW d \in B!Decisions, B!Sets(o, a, d)
    PROVE  /\ obs' \in [Observations -> ObsType]
           /\ \A p \in Observations \ {o} : obs'[p] = obs[p]
           /\ obs'[o].at = a /\ obs'[o].decision = d
           /\ obs'[o].attempt = obs[o].attempt /\ obs'[o].end = obs[o].end
<1>1. obs[o] \in ObsType /\ obs \in [Observations -> ObsType]
  BY DEF LedgerTyped
<1>2. [[obs[o] EXCEPT !.at = a] EXCEPT !.decision = d] \in ObsType
  BY <1>1 DEF ObsType
<1>3. obs' = [obs EXCEPT ![o] = [[obs[o] EXCEPT !.at = a] EXCEPT !.decision = d]]
  BY <1>1 DEF B!Sets
<1>4. QED
  BY <1>1, <1>2, <1>3 DEF ObsType

LEMMA LedgerStart == B!Init => LedgerInv
<1> SUFFICES ASSUME B!Init PROVE LedgerInv
  OBVIOUS
<1>1. obs \in [Observations -> ObsType] /\ \A o \in Observations : obs[o].at = "idle"
  BY LedgerConstants DEF B!Init, ObsType, Place, B!Decisions
<1>2. DOMAIN ledger = {}
  BY DEF B!Init
<1>3. LedgerTyped
  BY <1>1, <1>2, LedgerConstants DEF B!Init, LedgerTyped, B!Nobody
<1>4. QED
  BY <1>1, <1>2, <1>3 DEF LedgerInv, OneInTransaction, AttemptsAreKnown, RowsAreTrue, B!Init, B!Nobody, Deciding

\* An action that changes one observation and neither the ledger nor the documents.
LEMMA ObservationMoves ==
    ASSUME LedgerInv, UNCHANGED <<now, enabled, ledger, documents, merged, succeeded>>,
           NEW o \in Observations, obs' \in [Observations -> ObsType],
           \A p \in Observations \ {o} : obs'[p] = obs[p],
           o \notin succeeded,
           obs'[o].at \in {"scan", "settle", "wait"} =>
             obs[o].at \in Deciding \cup {"scan", "settle", "wait"},
           obs'[o].at \in Deciding => obs[o].at \in Deciding,
           obs'[o].at = "wait" => obs'[o].attempt < MaxAttempts,
           obs'[o].at # "settle",
           lock' \in Observations \cup {0}, seen' \subseteq Observations, OneInTransaction'
    PROVE  LedgerInv'
<1>1. LedgerTyped'
  BY DEF LedgerInv, LedgerTyped
<1>2. AttemptsAreKnown'
  BY DEF LedgerInv, AttemptsAreKnown, Documented, Stores
<1>3. RowsAreTrue'
  <2> SUFFICES ASSUME NEW p \in DOMAIN ledger
               PROVE  /\ p \in succeeded => ledger[p].outcome = "completed"
                      /\ ledger[p].outcome = "completed" => Documented(p, TRUE)
                      /\ obs'[p].at \in {"scan", "settle", "wait"} /\ ~Merging(p) =>
                           ledger[p].outcome = "pending" \/ Late(p)
    BY DEF RowsAreTrue, Documented, Merging, Late
  <2>1. p \in Observations
    BY DEF LedgerInv, LedgerTyped
  <2>2. CASE p = o
    BY <2>2 DEF LedgerInv, RowsAreTrue, AttemptsAreKnown
  <2>3. CASE p # o
    BY <2>1, <2>3 DEF LedgerInv, RowsAreTrue
  <2>4. QED
    BY <2>2, <2>3
<1>4. QED
  BY <1>1, <1>2, <1>3 DEF LedgerInv

\* The actions that only move on: no row, no document, and not into "settle".
LEMMA DecideStep ==
    ASSUME LedgerInv, NEW o \in Observations,
           B!Begin(o) \/ B!LedgerFails(o) \/ B!ReadWindow(o) \/ B!Rollback(o)
    PROVE  LedgerInv'
<1>0. LedgerTyped /\ OneInTransaction /\ AttemptsAreKnown
  BY DEF LedgerInv
<1>1. CASE B!Begin(o)
  <2>1. PICK a \in {"read", "scan"}, d \in {"none", "forced", "disabled"} : B!Sets(o, a, d)
    BY <1>1 DEF B!Begin
  <2>2. obs[o].at = "idle"
    BY <1>1 DEF B!Begin
  <2>3. a \in Place /\ d \in B!Decisions
    BY DEF Place, B!Decisions
  <2>4. /\ obs' \in [Observations -> ObsType] /\ \A p \in Observations \ {o} : obs'[p] = obs[p]
        /\ obs'[o].at = a
    BY <1>0, <2>1, <2>3, SetsFields
  <2>5. UNCHANGED <<now, enabled, ledger, documents, merged, succeeded, lock, seen>>
    BY <1>1 DEF B!Begin
  <2>6. o \notin succeeded
    BY <1>0, <2>2 DEF AttemptsAreKnown
  <2>7. OneInTransaction'
    BY <1>0, <2>2, <2>4, <2>5 DEF OneInTransaction, LedgerTyped
  <2>8. QED
    BY <1>0, <2>2, <2>4, <2>5, <2>6, <2>7, ObservationMoves DEF LedgerTyped, Deciding
<1>2. CASE B!LedgerFails(o)
  <2>1. B!Sets(o, "scan", B!Unavailable(o)) /\ obs[o].at = "read"
    BY <1>2 DEF B!LedgerFails
  <2>2. "scan" \in Place /\ B!Unavailable(o) \in B!Decisions
    BY DEF Place, B!Decisions, B!Unavailable
  <2>3. /\ obs' \in [Observations -> ObsType] /\ \A p \in Observations \ {o} : obs'[p] = obs[p]
        /\ obs'[o].at = "scan"
    BY <1>0, <2>1, <2>2, SetsFields
  <2>4. UNCHANGED <<now, enabled, ledger, documents, merged, succeeded, lock, seen>>
    BY <1>2 DEF B!LedgerFails
  <2>5. o \notin succeeded
    BY <1>0, <2>1 DEF AttemptsAreKnown
  <2>6. OneInTransaction'
    BY <1>0, <2>1, <2>3, <2>4 DEF OneInTransaction, LedgerTyped
  <2>7. QED
    BY <1>0, <2>1, <2>3, <2>4, <2>5, <2>6, ObservationMoves DEF LedgerTyped, Deciding
<1>3. CASE B!ReadWindow(o)
  <2>1. B!Sets(o, "claim", obs[o].decision) /\ obs[o].at = "read" /\ lock = 0 /\ lock' = o
    BY <1>3, LedgerConstants DEF B!ReadWindow, B!Goes, B!Exclusive
  <2>2. "claim" \in Place /\ obs[o].decision \in B!Decisions
    BY <1>0, ObsFields DEF Place
  <2>3. /\ obs' \in [Observations -> ObsType] /\ \A p \in Observations \ {o} : obs'[p] = obs[p]
        /\ obs'[o].at = "claim"
    BY <1>0, <2>1, <2>2, SetsFields
  <2>4. UNCHANGED <<now, enabled, ledger, documents, merged, succeeded>> /\ seen' = DOMAIN ledger
    BY <1>3 DEF B!ReadWindow, B!HasRow
  <2>5. o \notin succeeded
    BY <1>0, <2>1 DEF AttemptsAreKnown
  <2>6. \A p \in Observations : obs[p].at # "claim"
    BY <1>0, <2>1, LedgerConstants DEF OneInTransaction
  <2>7. OneInTransaction'
    BY <2>1, <2>3, <2>4, <2>6 DEF OneInTransaction
  <2>8. QED
    BY <1>0, <2>1, <2>3, <2>4, <2>5, <2>7, ObservationMoves DEF LedgerTyped, Deciding
<1>4. CASE B!Rollback(o)
  <2>1. B!Sets(o, "read", obs[o].decision) /\ obs[o].at = "claim" /\ lock' = 0 /\ seen' = {}
    BY <1>4, LedgerConstants DEF B!Rollback, B!Goes
  <2>2. "read" \in Place /\ obs[o].decision \in B!Decisions
    BY <1>0, ObsFields DEF Place
  <2>3. /\ obs' \in [Observations -> ObsType] /\ \A p \in Observations \ {o} : obs'[p] = obs[p]
        /\ obs'[o].at = "read"
    BY <1>0, <2>1, <2>2, SetsFields
  <2>4. UNCHANGED <<now, enabled, ledger, documents, merged, succeeded>>
    BY <1>4 DEF B!Rollback
  <2>5. o \notin succeeded
    BY <1>0, <2>1 DEF AttemptsAreKnown
  <2>6. \A p \in Observations \ {o} : obs[p].at # "claim"
    BY <1>0, <2>1 DEF OneInTransaction
  <2>7. OneInTransaction'
    BY <2>1, <2>3, <2>4, <2>6 DEF OneInTransaction
  <2>8. QED
    BY <1>0, <2>1, <2>3, <2>4, <2>5, <2>7, ObservationMoves DEF LedgerTyped, Deciding
<1>5. QED
  BY <1>1, <1>2, <1>3, <1>4

\* The rows after a claim: the claimed one, and of the others those young enough, of
\* which only a pending one that no retry can still come for has changed.
LEMMA DecidedRows ==
    ASSUME LedgerInv, NEW o \in Observations
    PROVE  /\ DOMAIN B!Decided(o) \subseteq DOMAIN ledger \cup {o} /\ o \in DOMAIN B!Decided(o)
           /\ B!Decided(o)[o] \in B!Row /\ B!Decided(o)[o].outcome = "pending"
           /\ \A r \in DOMAIN B!Decided(o) \ {o} :
                \/ B!Decided(o)[r] = ledger[r]
                \/ /\ ledger[r].outcome = "pending" /\ Late(r)
                   /\ B!Decided(o)[r] \in B!Row /\ B!Decided(o)[r].at = ledger[r].at
                   /\ B!Decided(o)[r].outcome = "failed"
<1> DEFINE Rows == {q \in DOMAIN ledger : B!Kept(q)} \cup {o}
           Value(r) == CASE r = o -> [at |-> now, sampled |-> B!Sampled(o), outcome |-> "pending"]
                         [] r # o /\ B!Stale(r) -> [ledger[r] EXCEPT !.outcome = "failed"]
                         [] OTHER -> ledger[r]
<1>1. B!Decided(o) = [r \in Rows |-> Value(r)]
  BY LedgerConstants DEF B!Decided
<1>2. B!Sampled(o) \in BOOLEAN
  BY DEF B!Sampled, B!Wanted
<1>3. Value(o) \in B!Row /\ Value(o).outcome = "pending"
  <2>1. Value(o) = [at |-> now, sampled |-> B!Sampled(o), outcome |-> "pending"]
    OBVIOUS
  <2>2. QED
    BY <1>2, <2>1 DEF B!Row, LedgerInv, LedgerTyped
<1>4. ASSUME NEW r \in Rows \ {o}
      PROVE  \/ Value(r) = ledger[r]
             \/ /\ ledger[r].outcome = "pending" /\ Late(r)
                /\ Value(r) \in B!Row /\ Value(r).at = ledger[r].at /\ Value(r).outcome = "failed"
  <2>1. CASE B!Stale(r)
    <3>1. Value(r) = [ledger[r] EXCEPT !.outcome = "failed"]
      BY <2>1
    <3>2. ledger[r].outcome = "pending" /\ Late(r)
      BY <2>1 DEF B!Stale, Late
    <3>3. ledger[r] \in B!Row
      BY DEF LedgerInv, LedgerTyped
    <3>4. QED
      BY <3>1, <3>2, <3>3 DEF B!Row
  <2>2. CASE ~B!Stale(r)
    BY <2>2
  <2>3. QED
    BY <2>1, <2>2
<1> HIDE DEF Value
<1>5. QED
  BY <1>1, <1>3, <1>4

LEMMA ClaimStep == ASSUME LedgerInv, NEW o \in Observations, B!Claim(o) PROVE LedgerInv'
<1>0. LedgerTyped /\ OneInTransaction /\ AttemptsAreKnown /\ RowsAreTrue
  BY DEF LedgerInv
<1>1. /\ obs[o].at = "claim" /\ ledger' = B!Decided(o) /\ lock' = 0 /\ seen' = {}
      /\ succeeded' = succeeded \cap DOMAIN ledger' /\ UNCHANGED <<now, enabled, documents, merged>>
  BY LedgerConstants DEF B!Claim
<1>2. PICK d \in B!Decisions : B!Sets(o, "scan", d)
  <2>1. B!Verdict(o) \in B!Decisions /\ B!Unavailable(o) \in B!Decisions
    BY DEF B!Verdict, B!Unavailable, B!Decisions
  <2>2. QED
    BY <2>1 DEF B!Claim
<1>3. /\ obs' \in [Observations -> ObsType] /\ \A p \in Observations \ {o} : obs'[p] = obs[p]
      /\ obs'[o].at = "scan"
  <2>1. "scan" \in Place
    BY DEF Place
  <2>2. QED
    BY <1>0, <1>2, <2>1, SetsFields
<1>4. /\ DOMAIN ledger' \subseteq DOMAIN ledger \cup {o} /\ o \in DOMAIN ledger'
      /\ ledger'[o] \in B!Row /\ ledger'[o].outcome = "pending"
  BY <1>1, DecidedRows
<1>5. \A r \in DOMAIN ledger' \ {o} :
        \/ ledger'[r] = ledger[r]
        \/ /\ ledger[r].outcome = "pending" /\ Late(r)
           /\ ledger'[r] \in B!Row /\ ledger'[r].at = ledger[r].at /\ ledger'[r].outcome = "failed"
  BY <1>1, DecidedRows
<1>6. LedgerTyped'
  <2>1. \A r \in DOMAIN ledger' : ledger'[r] \in B!Row
    BY <1>0, <1>4, <1>5 DEF LedgerTyped
  <2>2. DOMAIN ledger' \subseteq Observations
    BY <1>0, <1>4 DEF LedgerTyped
  <2>3. QED
    BY <1>0, <1>1, <1>3, <2>1, <2>2 DEF LedgerTyped
<1>7. OneInTransaction'
  BY <1>0, <1>1, <1>3 DEF OneInTransaction
<1>8. o \notin succeeded
  BY <1>0, <1>1 DEF AttemptsAreKnown
<1>9. AttemptsAreKnown'
  <2> SUFFICES ASSUME NEW p \in Observations
               PROVE  /\ obs'[p].at \in Deciding => p \notin DOMAIN ledger' /\ \A e \in documents : e.of # p
                      /\ obs'[p].at = "settle" => obs'[p].end \in {"ok", "cut", "failed"}
                      /\ obs'[p].at = "settle" /\ obs'[p].decision \notin {"disabled", "unavailable"} =>
                           Documented(p, B!Ok(obs'[p].end))
                      /\ obs'[p].at = "wait" => obs'[p].attempt < MaxAttempts
                      /\ p \in succeeded' => obs'[p].at = "over"
    BY <1>1 DEF AttemptsAreKnown, Documented, Stores, B!Ok
  <2>1. CASE p = o
    BY <1>1, <1>3, <1>8, <2>1 DEF Deciding
  <2>2. CASE p # o
    <3>1. obs'[p] = obs[p] /\ (p \in DOMAIN ledger' => p \in DOMAIN ledger)
      BY <1>3, <1>4, <2>2
    <3>2. QED
      BY <1>0, <1>1, <3>1 DEF AttemptsAreKnown
  <2>3. QED
    BY <2>1, <2>2
<1>10. RowsAreTrue'
  <2> SUFFICES ASSUME NEW p \in DOMAIN ledger'
               PROVE  /\ p \in succeeded' => ledger'[p].outcome = "completed"
                      /\ ledger'[p].outcome = "completed" => Documented(p, TRUE)
                      /\ obs'[p].at \in {"scan", "settle", "wait"} /\ ~Merging(p) =>
                           ledger'[p].outcome = "pending" \/ ledger'[p].at + StaleAfter < now
    BY <1>1 DEF RowsAreTrue, Documented, Merging, Late
  <2>1. CASE p = o
    BY <1>1, <1>4, <1>8, <2>1
  <2>2. CASE p # o /\ ledger'[p] = ledger[p]
    <3>1. obs'[p] = obs[p] /\ p \in DOMAIN ledger
      BY <1>0, <1>3, <1>4, <2>2 DEF LedgerTyped
    <3>2. QED
      BY <1>0, <1>1, <2>2, <3>1 DEF RowsAreTrue, Late
  <2>3. CASE p # o /\ ledger'[p] # ledger[p]
    <3>1. ledger[p].outcome = "pending" /\ Late(p) /\ ledger'[p].at = ledger[p].at /\ ledger'[p].outcome = "failed"
      BY <1>5, <2>3
    <3>2. p \notin succeeded
      BY <1>0, <3>1 DEF RowsAreTrue, LedgerTyped
    <3>3. QED
      BY <1>1, <3>1, <3>2 DEF Late
  <2>4. QED
    BY <2>1, <2>2, <2>3
<1>11. QED
  BY <1>6, <1>7, <1>9, <1>10 DEF LedgerInv

LEMMA EndStep == ASSUME LedgerInv, NEW o \in Observations, B!EndAttempt(o) PROVE LedgerInv'
<1>0. LedgerTyped /\ OneInTransaction /\ AttemptsAreKnown /\ RowsAreTrue
  BY DEF LedgerInv
<1>1. obs[o].at = "scan" /\ UNCHANGED <<now, enabled, ledger, lock, seen, merged, succeeded>>
  BY DEF B!EndAttempt
<1>2. obs[o] \in ObsType /\ obs \in [Observations -> ObsType]
  BY <1>0 DEF LedgerTyped
<1>3. o \notin succeeded
  BY <1>0, <1>1 DEF AttemptsAreKnown
<1>4. PICK end \in Ends :
        /\ obs' = [obs EXCEPT ![o] = IF end = "skipped" THEN B!Over ELSE [[obs[o] EXCEPT !.at = "settle"] EXCEPT !.end = end]]
        /\ documents' = IF end = "skipped" \/ obs[o].decision \in {"disabled", "unavailable"} THEN documents
                        ELSE documents \cup {[of |-> o, ok |-> B!Ok(end), kind |-> obs[o].decision]}
  BY <1>2 DEF B!EndAttempt
<1>5. CASE end = "skipped"
  <2>1. obs' = [obs EXCEPT ![o] = B!Over] /\ documents' = documents
    BY <1>4, <1>5
  <2>2. B!Over \in ObsType /\ B!Over.at = "over"
    BY LedgerConstants DEF B!Over, ObsType, Place, B!Decisions
  <2>3. /\ obs' \in [Observations -> ObsType] /\ \A p \in Observations \ {o} : obs'[p] = obs[p]
        /\ obs'[o].at = "over"
    BY <1>2, <2>1, <2>2
  <2>4. OneInTransaction'
    BY <1>0, <1>1, <2>3 DEF OneInTransaction, LedgerTyped
  <2>5. QED
    BY <1>0, <1>1, <1>3, <2>1, <2>3, <2>4, ObservationMoves DEF LedgerTyped, Deciding
<1>6. CASE end # "skipped"
  <2> DEFINE new == [[obs[o] EXCEPT !.at = "settle"] EXCEPT !.end = end]
             kept == obs[o].decision \notin {"disabled", "unavailable"}
             document == [of |-> o, ok |-> B!Ok(end), kind |-> obs[o].decision]
  <2>1. /\ new \in ObsType /\ new.at = "settle" /\ new.end = end /\ new.decision = obs[o].decision
    BY <1>2, <1>6 DEF ObsType, Place
  <2>2. /\ obs' \in [Observations -> ObsType] /\ \A p \in Observations \ {o} : obs'[p] = obs[p]
        /\ obs'[o] = new
    BY <1>2, <1>4, <1>6, <2>1
  <2>3. /\ documents \subseteq documents' /\ documents' \subseteq documents \cup {document}
        /\ kept => document \in documents'
    BY <1>4, <1>6
  <2>4. B!Ok(end) \in BOOLEAN
    BY DEF B!Ok
  <2>5. /\ document.of = o /\ document.ok = B!Ok(end)
        /\ document \in [of : Observations, ok : BOOLEAN, kind : B!Decisions]
    BY <1>2, <2>4 DEF ObsType
  <2> HIDE DEF new, kept, document
  <2>6. LedgerTyped'
    BY <1>0, <1>1, <2>2, <2>3, <2>5 DEF LedgerTyped
  <2>7. OneInTransaction'
    BY <1>0, <1>1, <2>1, <2>2 DEF OneInTransaction, LedgerTyped
  <2>8. \A p \in Observations : \A ok : Documented(p, ok) => Documented(p, ok)'
    BY <2>3 DEF Documented, Stores
  <2>9. kept => Stores(documents', o, B!Ok(end))
    BY <2>3, <2>5 DEF Documented, Stores
  <2>10. AttemptsAreKnown'
    <3> SUFFICES ASSUME NEW p \in Observations
                 PROVE  /\ obs'[p].at \in Deciding => p \notin DOMAIN ledger /\ \A d \in documents' : d.of # p
                        /\ obs'[p].at = "settle" => obs'[p].end \in {"ok", "cut", "failed"}
                        /\ obs'[p].at = "settle" /\ obs'[p].decision \notin {"disabled", "unavailable"} =>
                             Stores(documents', p, B!Ok(obs'[p].end))
                        /\ obs'[p].at = "wait" => obs'[p].attempt < MaxAttempts
                        /\ p \in succeeded => obs'[p].at = "over"
      BY <1>1 DEF AttemptsAreKnown, Documented, Stores, B!Ok
    <3>1. CASE p = o
      BY <1>1, <1>3, <1>6, <2>1, <2>2, <2>9, <3>1, LedgerConstants DEF Deciding, kept
    <3>2. CASE p # o
      <4>1. obs'[p] = obs[p]
        BY <2>2, <3>2
      <4>2. obs'[p].at \in Deciding => \A d \in documents' : d.of # p
        BY <1>0, <2>3, <2>5, <3>2, <4>1 DEF AttemptsAreKnown
      <4>3. obs'[p].at = "settle" /\ obs'[p].decision \notin {"disabled", "unavailable"} =>
              Stores(documents', p, B!Ok(obs'[p].end))
        <5>1. obs[p].at = "settle" /\ obs[p].decision \notin {"disabled", "unavailable"} =>
                Documented(p, B!Ok(obs[p].end))
          BY <1>0 DEF AttemptsAreKnown
        <5>2. QED
          BY <4>1, <5>1, <2>3 DEF Documented, Stores, B!Ok
      <4>4. QED
        BY <1>0, <4>1, <4>2, <4>3 DEF AttemptsAreKnown
    <3>3. QED
      BY <3>1, <3>2
  <2>11. RowsAreTrue'
    <3> SUFFICES ASSUME NEW p \in DOMAIN ledger
                 PROVE  /\ p \in succeeded => ledger[p].outcome = "completed"
                        /\ ledger[p].outcome = "completed" => Documented(p, TRUE)'
                        /\ obs'[p].at \in {"scan", "settle", "wait"} /\ ~Merging(p) =>
                             ledger[p].outcome = "pending" \/ Late(p)
      BY <1>1 DEF RowsAreTrue, Documented, Merging, Late
    <3>1. p \in Observations /\ (obs'[p].at \in {"scan", "settle", "wait"} => obs[p].at \in {"scan", "settle", "wait"})
      BY <1>0, <1>1, <2>2 DEF LedgerTyped
    <3>2. QED
      BY <1>0, <2>8, <3>1 DEF RowsAreTrue
  <2>12. QED
    BY <2>6, <2>7, <2>10, <2>11 DEF LedgerInv
<1>7. QED
  BY <1>5, <1>6

\* What an observation does once its attempt is settled.
LEMMA LeavesFields ==
    ASSUME LedgerTyped, NEW o \in Observations, obs[o].at = "settle", B!Leaves(o)
    PROVE  /\ obs' \in [Observations -> ObsType] /\ \A p \in Observations \ {o} : obs'[p] = obs[p]
           /\ obs'[o].at \in {"wait", "over"}
           /\ obs'[o].at = "wait" <=> (B!Retryable(obs[o].end) /\ obs[o].attempt < MaxAttempts)
           /\ obs'[o].at = "wait" => obs'[o].attempt < MaxAttempts
<1> DEFINE back == [[obs[o] EXCEPT !.at = "wait"] EXCEPT !.end = "none"]
           again == B!Retryable(obs[o].end) /\ obs[o].attempt < MaxAttempts
<1>1. obs[o] \in ObsType /\ obs \in [Observations -> ObsType]
  BY DEF LedgerTyped
<1>2. back \in ObsType /\ back.at = "wait" /\ back.attempt = obs[o].attempt
  BY <1>1 DEF ObsType, Place
<1>3. B!Over \in ObsType /\ B!Over.at = "over"
  BY LedgerConstants DEF B!Over, ObsType, Place, B!Decisions
<1>4. obs' = [obs EXCEPT ![o] = IF again THEN back ELSE B!Over]
  BY <1>1 DEF B!Leaves
<1> HIDE DEF back
<1>5. CASE again
  BY <1>1, <1>2, <1>4, <1>5
<1>6. CASE ~again
  <2>1. obs' = [obs EXCEPT ![o] = B!Over]
    BY <1>4, <1>6
  <2>2. obs'[o] = B!Over
    BY <1>1, <2>1
  <2>3. QED
    BY <1>1, <1>3, <1>6, <2>1, <2>2
<1>7. QED
  BY <1>5, <1>6

LEMMA SettleStep == ASSUME LedgerInv, NEW o \in Observations, B!Settle(o) PROVE LedgerInv'
<1>0. LedgerTyped /\ OneInTransaction /\ AttemptsAreKnown /\ RowsAreTrue
  BY DEF LedgerInv
<1>1. obs[o].at = "settle" /\ UNCHANGED <<now, enabled, lock, seen, documents, merged>> /\ B!Leaves(o)
  BY DEF B!Settle
<1>2. /\ obs' \in [Observations -> ObsType] /\ \A p \in Observations \ {o} : obs'[p] = obs[p]
      /\ obs'[o].at \in {"wait", "over"}
      /\ obs'[o].at = "wait" <=> (B!Retryable(obs[o].end) /\ obs[o].attempt < MaxAttempts)
      /\ obs'[o].at = "wait" => obs'[o].attempt < MaxAttempts
  BY <1>0, <1>1, LeavesFields
<1>3. o \notin succeeded
  BY <1>0, <1>1 DEF AttemptsAreKnown
<1>5. CASE ~B!Settles(o)
  <2>1. UNCHANGED <<ledger, succeeded>>
    BY <1>5 DEF B!Settle
  <2>2. OneInTransaction'
    BY <1>0, <1>1, <1>2, <2>1 DEF OneInTransaction, LedgerTyped
  <2>3. QED
    BY <1>0, <1>1, <1>2, <1>3, <2>1, <2>2, ObservationMoves DEF LedgerTyped, Deciding
<1>6. CASE B!Settles(o)
  <2>1. /\ ledger' = [ledger EXCEPT ![o].outcome = B!Outcome(o)]
        /\ succeeded' = IF B!Outcome(o) = "completed" THEN succeeded \cup {o} ELSE succeeded
    BY <1>6 DEF B!Settle
  <2>2. o \in DOMAIN ledger /\ obs[o].decision \in B!Ledgered \cup {"disabledByReload"}
    BY <1>6 DEF B!Settles, B!HasRow
  <2>3. /\ DOMAIN ledger' = DOMAIN ledger /\ \A p \in DOMAIN ledger \ {o} : ledger'[p] = ledger[p]
        /\ ledger'[o] = [ledger[o] EXCEPT !.outcome = B!Outcome(o)]
    BY <2>1, <2>2
  <2>4. ledger[o] \in B!Row
    BY <1>0, <2>2 DEF LedgerTyped
  <2>5. B!Outcome(o) \in {"pending", "completed", "failed"}
    BY DEF B!Outcome
  <2>6. ledger'[o] \in B!Row /\ ledger'[o].outcome = B!Outcome(o)
    BY <2>3, <2>4, <2>5 DEF B!Row
  <2>7. LedgerTyped'
    BY <1>0, <1>1, <1>2, <2>1, <2>2, <2>3, <2>6 DEF LedgerTyped
  <2>8. OneInTransaction'
    BY <1>0, <1>1, <1>2, <2>3 DEF OneInTransaction, LedgerTyped
  <2>9. B!Outcome(o) = "completed" => Documented(o, TRUE) /\ obs'[o].at = "over"
    <3>1. obs[o].end \in {"ok", "cut", "failed"} /\ Documented(o, B!Ok(obs[o].end))
      BY <1>0, <1>1, <2>2 DEF AttemptsAreKnown, B!Ledgered
    <3>2. B!Outcome(o) = "completed" => obs[o].end = "ok"
      BY <3>1 DEF B!Outcome, B!Retryable
    <3>3. obs[o].end = "ok" => B!Ok(obs[o].end) = TRUE /\ ~B!Retryable(obs[o].end)
      BY DEF B!Ok, B!Retryable
    <3>4. QED
      BY <1>2, <3>1, <3>2, <3>3
  <2>10. obs'[o].at = "wait" => B!Outcome(o) = "pending"
    BY <1>2 DEF B!Outcome
  <2>11. AttemptsAreKnown'
    <3> SUFFICES ASSUME NEW p \in Observations
                 PROVE  /\ obs'[p].at \in Deciding => p \notin DOMAIN ledger' /\ \A d \in documents : d.of # p
                        /\ obs'[p].at = "settle" => obs'[p].end \in {"ok", "cut", "failed"}
                        /\ obs'[p].at = "settle" /\ obs'[p].decision \notin {"disabled", "unavailable"} =>
                             Documented(p, B!Ok(obs'[p].end))
                        /\ obs'[p].at = "wait" => obs'[p].attempt < MaxAttempts
                        /\ p \in succeeded' => obs'[p].at = "over"
      BY <1>1 DEF AttemptsAreKnown, Documented, Stores, B!Ok
    <3>1. CASE p = o
      BY <1>2, <1>3, <2>1, <2>9, <3>1 DEF Deciding
    <3>2. CASE p # o
      <4>1. obs'[p] = obs[p] /\ (p \in succeeded' => p \in succeeded)
        BY <1>2, <2>1, <3>2
      <4>2. QED
        BY <1>0, <2>3, <4>1 DEF AttemptsAreKnown
    <3>3. QED
      BY <3>1, <3>2
  <2>12. RowsAreTrue'
    <3> SUFFICES ASSUME NEW p \in DOMAIN ledger
                 PROVE  /\ p \in succeeded' => ledger'[p].outcome = "completed"
                        /\ ledger'[p].outcome = "completed" => Documented(p, TRUE)
                        /\ obs'[p].at \in {"scan", "settle", "wait"} /\ ~Merging(p) =>
                             ledger'[p].outcome = "pending" \/ ledger'[p].at + StaleAfter < now
      BY <1>1, <2>3 DEF RowsAreTrue, Documented, Merging, Late
    <3>1. CASE p = o
      BY <1>2, <1>3, <2>1, <2>6, <2>9, <2>10, <3>1
    <3>2. CASE p # o
      <4>1. p \in Observations /\ obs'[p] = obs[p] /\ ledger'[p] = ledger[p] /\ (p \in succeeded' => p \in succeeded)
        BY <1>0, <1>2, <2>1, <2>3, <3>2 DEF LedgerTyped
      <4>2. QED
        BY <1>0, <4>1 DEF RowsAreTrue, Late
    <3>3. QED
      BY <3>1, <3>2
  <2>13. QED
    BY <2>7, <2>8, <2>11, <2>12 DEF LedgerInv
<1>7. QED
  BY <1>5, <1>6

LEMMA AttemptStep ==
    ASSUME LedgerInv, NEW o \in Observations, B!SettleFails(o) \/ B!Retry(o) \/ B!LoseRetry(o)
    PROVE  LedgerInv'
<1>0. LedgerTyped /\ OneInTransaction /\ AttemptsAreKnown
  BY DEF LedgerInv
<1>1. /\ obs[o].at \in {"scan", "settle", "wait"}
      /\ UNCHANGED <<now, enabled, ledger, lock, seen, documents, merged, succeeded>>
  BY DEF B!SettleFails, B!Retry, B!LoseRetry
<1>2. o \notin succeeded
  BY <1>0, <1>1 DEF AttemptsAreKnown
<1>3. obs[o] \in ObsType /\ obs \in [Observations -> ObsType]
  BY <1>0 DEF LedgerTyped
<1>4. /\ obs' \in [Observations -> ObsType] /\ \A p \in Observations \ {o} : obs'[p] = obs[p]
      /\ obs'[o].at \in {"scan", "wait", "over"}
      /\ obs'[o].at = "wait" => obs'[o].attempt < MaxAttempts
  <2>1. CASE B!SettleFails(o)
    BY <1>0, <2>1, LeavesFields DEF B!SettleFails
  <2>2. CASE B!LoseRetry(o)
    <3>1. B!Over \in ObsType /\ B!Over.at = "over"
      BY LedgerConstants DEF B!Over, ObsType, Place, B!Decisions
    <3>2. obs' = [obs EXCEPT ![o] = B!Over]
      BY <2>2 DEF B!LoseRetry
    <3>3. QED
      BY <1>3, <3>1, <3>2
  <2>3. CASE B!Retry(o)
    <3> DEFINE next == [at |-> "scan", attempt |-> obs[o].attempt + 1, decision |-> B!Inherited(o), end |-> "none"]
    <3>1. obs[o].at = "wait" /\ obs' = [obs EXCEPT ![o] = next]
      BY <1>3, <2>3 DEF B!Retry
    <3>2. obs[o].attempt + 1 \in 1..MaxAttempts
      BY <1>0, <1>3, <3>1, LedgerConstants DEF AttemptsAreKnown, ObsType
    <3>3. B!Inherited(o) \in B!Decisions
      BY <1>3 DEF B!Inherited, ObsType, B!Decisions
    <3>4. next \in ObsType /\ next.at = "scan"
      BY <3>2, <3>3 DEF ObsType, Place
    <3> HIDE DEF next
    <3>5. QED
      BY <1>3, <3>1, <3>4
  <2>4. QED
    BY <2>1, <2>2, <2>3
<1>5. OneInTransaction'
  BY <1>0, <1>1, <1>4 DEF OneInTransaction, LedgerTyped
<1>6. QED
  BY <1>0, <1>1, <1>2, <1>4, <1>5, ObservationMoves DEF LedgerTyped, Deciding

LEMMA TimeStep == ASSUME LedgerInv, B!Tick \/ B!Reload PROVE LedgerInv'
<1>0. LedgerTyped /\ OneInTransaction /\ AttemptsAreKnown /\ RowsAreTrue
  BY DEF LedgerInv
<1>1. UNCHANGED <<ledger, obs, lock, seen, documents, merged, succeeded>>
  BY DEF B!Tick, B!Reload
<1>2. now \in Nat /\ now' \in Moments /\ now' \in Nat /\ now <= now' /\ enabled' \in BOOLEAN
  <2>1. now \in Moments /\ enabled \in BOOLEAN
    BY <1>0 DEF LedgerTyped
  <2>2. CASE B!Tick
    <3>1. now' \in Moments /\ now < now' /\ enabled' = enabled
      BY <2>2 DEF B!Tick
    <3>2. QED
      BY <2>1, <3>1, LedgerConstants
  <2>3. CASE B!Reload
    <3>1. now' = now /\ enabled' = FALSE
      BY <2>3 DEF B!Reload
    <3>2. now <= now' /\ now' \in Nat
      BY <2>1, <3>1, LedgerConstants
    <3>3. QED
      BY <2>1, <3>1, <3>2
  <2>4. QED
    BY <2>2, <2>3
<1>3. LedgerTyped'
  BY <1>0, <1>1, <1>2 DEF LedgerTyped
<1>4. OneInTransaction' /\ AttemptsAreKnown'
  BY <1>0, <1>1 DEF OneInTransaction, AttemptsAreKnown, Documented, Stores, B!Ok
<1>5. RowsAreTrue'
  <2> SUFFICES ASSUME NEW p \in DOMAIN ledger
               PROVE  /\ p \in succeeded => ledger[p].outcome = "completed"
                      /\ ledger[p].outcome = "completed" => Documented(p, TRUE)
                      /\ obs[p].at \in {"scan", "settle", "wait"} /\ ~Merging(p) =>
                           ledger[p].outcome = "pending" \/ ledger[p].at + StaleAfter < now'
    BY <1>1 DEF RowsAreTrue, Documented, Stores, Merging, Late
  <2>1. ledger[p].at \in Nat
    BY <1>0, LedgerConstants DEF LedgerTyped, B!Row
  <2>2. Late(p) => ledger[p].at + StaleAfter < now'
    BY <1>2, <2>1, LedgerConstants DEF Late
  <2>3. QED
    BY <1>0, <2>2 DEF RowsAreTrue
<1>6. QED
  BY <1>3, <1>4, <1>5 DEF LedgerInv

LEMMA LoseIndexStep == ASSUME LedgerInv, B!LoseIndex PROVE LedgerInv'
<1>1. /\ DOMAIN ledger' = {} /\ lock = 0 /\ merged' = {} /\ succeeded' = {}
      /\ UNCHANGED <<now, enabled, obs, lock, seen, documents>>
  BY LedgerConstants DEF B!LoseIndex
<1>2. LedgerTyped' /\ RowsAreTrue'
  BY <1>1 DEF LedgerInv, LedgerTyped, RowsAreTrue
<1>3. OneInTransaction' /\ AttemptsAreKnown'
  BY <1>1 DEF LedgerInv, OneInTransaction, AttemptsAreKnown, Documented, Stores, B!Ok
<1>4. QED
  BY <1>2, <1>3 DEF LedgerInv

LEMMA RebuildStep == ASSUME LedgerInv, NEW d \in documents, B!RebuildRow(d) PROVE LedgerInv'
<1>0. LedgerTyped /\ OneInTransaction /\ AttemptsAreKnown /\ RowsAreTrue
  BY DEF LedgerInv
<1> DEFINE o == d.of
           verdict == B!Merged(d)
<1>1. d \in [of : Observations, ok : BOOLEAN, kind : B!Decisions]
  BY <1>0 DEF LedgerTyped
<1>2. o \in Observations /\ d.ok \in BOOLEAN
  BY <1>1
<1>3. /\ lock = 0 /\ merged' = merged \cup {d} /\ UNCHANGED <<now, enabled, obs, lock, seen, documents>>
      /\ succeeded' = IF d.ok /\ obs[o].at = "over" THEN succeeded \cup {o} ELSE succeeded
  BY LedgerConstants DEF B!RebuildRow, B!Exclusive
<1>4. verdict \in {"completed", "failed"}
  BY DEF B!Merged
<1>5. /\ verdict = "completed" => Documented(o, TRUE)
      /\ d.ok \/ o \in succeeded => verdict = "completed"
  <2>1. d.ok => Documented(o, TRUE)
    BY <1>2 DEF Documented, Stores
  <2>2. o \in DOMAIN ledger /\ ledger[o].outcome = "completed" => Documented(o, TRUE)
    BY <1>0 DEF RowsAreTrue
  <2>3. o \in succeeded => o \in DOMAIN ledger /\ ledger[o].outcome = "completed"
    BY <1>0 DEF RowsAreTrue, LedgerTyped
  <2>4. QED
    BY <2>1, <2>2, <2>3, LedgerConstants DEF B!Merged
<1>6. obs[o].at \notin Deciding
  BY <1>0, <1>2 DEF AttemptsAreKnown
<1>7. /\ DOMAIN ledger' = DOMAIN ledger \cup {o}
      /\ \A p \in DOMAIN ledger \ {o} : ledger'[p] = ledger[p]
      /\ ledger'[o] = IF o \in DOMAIN ledger THEN [ledger[o] EXCEPT !.outcome = verdict]
                      ELSE [at |-> now, sampled |-> d.kind # "notSampled", outcome |-> verdict]
  BY LedgerConstants DEF B!RebuildRow
<1>8. ledger'[o] \in B!Row /\ ledger'[o].outcome = verdict
  <2>1. CASE o \in DOMAIN ledger
    <3>1. ledger[o] \in B!Row /\ ledger'[o] = [ledger[o] EXCEPT !.outcome = verdict]
      BY <1>0, <1>7, <2>1 DEF LedgerTyped
    <3> HIDE DEF verdict, o
    <3>2. QED
      BY <1>4, <3>1 DEF B!Row
  <2>2. CASE o \notin DOMAIN ledger
    <3>1. ledger'[o] = [at |-> now, sampled |-> d.kind # "notSampled", outcome |-> verdict]
      BY <1>7, <2>2
    <3>2. now \in Moments /\ (d.kind # "notSampled") \in BOOLEAN
      BY <1>0 DEF LedgerTyped
    <3> HIDE DEF verdict, o
    <3>3. QED
      BY <1>4, <3>1, <3>2 DEF B!Row
  <2>3. QED
    BY <2>1, <2>2
<1> HIDE DEF verdict, o
<1>9. LedgerTyped'
  <2>1. \A p \in DOMAIN ledger' : ledger'[p] \in B!Row
    BY <1>0, <1>7, <1>8 DEF LedgerTyped
  <2>2. succeeded' \subseteq DOMAIN ledger'
    BY <1>0, <1>3, <1>7 DEF LedgerTyped
  <2>3. QED
    BY <1>0, <1>2, <1>3, <1>7, <2>1, <2>2 DEF LedgerTyped
<1>10. OneInTransaction'
  BY <1>0, <1>3 DEF OneInTransaction
<1>11. AttemptsAreKnown'
  <2> SUFFICES ASSUME NEW p \in Observations
               PROVE  /\ obs[p].at \in Deciding => p \notin DOMAIN ledger' /\ \A e \in documents : e.of # p
                      /\ obs[p].at = "settle" => obs[p].end \in {"ok", "cut", "failed"}
                      /\ obs[p].at = "settle" /\ obs[p].decision \notin {"disabled", "unavailable"} =>
                           Documented(p, B!Ok(obs[p].end))
                      /\ obs[p].at = "wait" => obs[p].attempt < MaxAttempts
                      /\ p \in succeeded' => obs[p].at = "over"
    BY <1>3 DEF AttemptsAreKnown, Documented, Stores, B!Ok
  <2>1. p \in succeeded' => p \in succeeded \/ obs[p].at = "over"
    BY <1>3
  <2>2. p \in DOMAIN ledger' => p \in DOMAIN ledger \/ p = o
    BY <1>7
  <2>3. QED
    BY <1>0, <1>6, <2>1, <2>2 DEF AttemptsAreKnown
<1>12. RowsAreTrue'
  <2> SUFFICES ASSUME NEW p \in DOMAIN ledger'
               PROVE  /\ p \in succeeded' => ledger'[p].outcome = "completed"
                      /\ ledger'[p].outcome = "completed" => Documented(p, TRUE)
                      /\ obs[p].at \in {"scan", "settle", "wait"} /\ ~Merging(p)' =>
                           ledger'[p].outcome = "pending" \/ ledger'[p].at + StaleAfter < now
    BY <1>3 DEF RowsAreTrue, Documented, Stores, Merging, Late
  <2>1. CASE p = o
    <3>1. Merging(p)'
      BY <1>3, <2>1 DEF Merging, o
    <3>2. p \in succeeded' => d.ok \/ p \in succeeded
      BY <1>3
    <3>3. QED
      BY <1>5, <1>8, <2>1, <3>1, <3>2
  <2>2. CASE p # o
    <3>1. p \in DOMAIN ledger /\ ledger'[p] = ledger[p] /\ (p \in succeeded' => p \in succeeded)
      BY <1>3, <1>7, <2>2
    <3>2. Merging(p) => Merging(p)'
      BY <1>3 DEF Merging
    <3>3. QED
      BY <1>0, <3>1, <3>2 DEF RowsAreTrue, Late
  <2>3. QED
    BY <2>1, <2>2
<1>13. QED
  BY <1>9, <1>10, <1>11, <1>12 DEF LedgerInv

\* What a claim rests on is in the invariant before it.
LEMMA LedgerStep == ASSUME LedgerInv, [B!Next]_B!vars PROVE LedgerInv' /\ B!ClaimsUnderLock
<1>1. ASSUME B!Next PROVE LedgerInv'
  <2>1. CASE B!Tick \/ B!Reload \/ B!LoseIndex
    BY <2>1, TimeStep, LoseIndexStep
  <2>2. CASE \E o \in Observations : B!Decide(o) \/ B!Attempt(o)
    BY <2>2, DecideStep, ClaimStep, EndStep, SettleStep, AttemptStep DEF B!Decide, B!Attempt
  <2>3. CASE \E d \in documents : B!RebuildRow(d)
    BY <2>3, RebuildStep
  <2>4. QED
    BY <1>1, <2>1, <2>2, <2>3 DEF B!Next
<1>2. ASSUME UNCHANGED B!vars PROVE LedgerInv'
  <2>1. UNCHANGED <<now, enabled, ledger, obs, lock, seen, documents, merged, succeeded>>
    BY <1>2 DEF B!vars
  <2>2. LedgerTyped' /\ OneInTransaction' /\ AttemptsAreKnown' /\ RowsAreTrue'
    BY <2>1 DEF LedgerInv, LedgerTyped, OneInTransaction, AttemptsAreKnown, RowsAreTrue,
                Documented, Stores, Merging, Late, B!Ok
  <2>3. QED
    BY <2>2 DEF LedgerInv
<1>3. B!ClaimsUnderLock
  BY LedgerConstants DEF LedgerInv, OneInTransaction, B!ClaimsUnderLock
<1>4. QED
  BY <1>1, <1>2, <1>3

LEMMA LedgerPromise == LedgerInv => B!TypeOK /\ B!OutcomeIsTrue /\ B!RetryKeepsItsPlace
<1> SUFFICES ASSUME LedgerInv PROVE B!TypeOK /\ B!OutcomeIsTrue /\ B!RetryKeepsItsPlace
  OBVIOUS
<1>1. B!TypeOK
  <2>1. lock = 0 <=> \A o \in Observations : obs[o].at # "claim"
    BY LedgerConstants DEF LedgerInv, LedgerTyped, OneInTransaction
  <2>2. obs \in [Observations -> [at : {"idle", "read", "claim", "scan", "settle", "wait", "over"},
                                  attempt : 1..MaxAttempts, decision : B!Decisions, end : Ends \cup {"none"}]]
    BY DEF LedgerInv, LedgerTyped, ObsType, Place
  <2>3. QED
    BY <2>1, <2>2, LedgerConstants DEF LedgerInv, LedgerTyped, B!TypeOK
<1>2. B!OutcomeIsTrue
  BY LedgerConstants DEF LedgerInv, RowsAreTrue, Documented, Stores, B!OutcomeIsTrue
<1>3. B!RetryKeepsItsPlace
  BY LedgerConstants DEF LedgerInv, RowsAreTrue, Merging, Late, B!RetryKeepsItsPlace
<1>4. QED
  BY <1>1, <1>2, <1>3

-----------------------------------------------------------------------------
(* Robots: the cache that scans of one origin share.                          *)

Asking == [at : {"idle", "asking", "told"}, since : 0..MaxClock, answer : R!Known]
CacheTyped ==
    /\ now \in 0..MaxClock /\ served \in [0..now -> Answers] /\ broken \subseteq 0..now
    /\ cache \in [answer : R!Known, fetched : 0..MaxClock \cup {-1}]
    /\ check \in [Checks -> Asking]
    /\ last \in [allowed : SUBSET Paths, at : 0..MaxClock \cup {-1}]

\* The site gave the answer at t, or the fetch that got it broke off at t.
SaidIn(answers, breaks, answer, t) ==
    answer = answers[t] \/ (t \in breaks /\ answer \in {R!Failed} \cup R!CutShort(answers[t]))
Said(answer, t) == SaidIn(served, broken, answer, t)
SaidSince(answer, from, to) == \E t \in 0..now : from <= t /\ t <= to /\ Said(answer, t)

\* No fetch is older than its limit, what it brought was said while it lasted, and
\* what is cached was said by one that ended when it was cached.
FetchesAreYoung == \A c \in Checks : check[c].at # "idle" =>
    /\ check[c].since <= now /\ now <= check[c].since + FetchLimit
    /\ check[c].at = "told" => SaidSince(check[c].answer, check[c].since, now)
CacheWasSaid == cache.fetched # -1 =>
    cache.fetched <= now /\ SaidSince(cache.answer, cache.fetched - FetchLimit, cache.fetched)
DecisionWasSaid == last.at # -1 =>
    /\ last.at <= now
    /\ \E t \in 0..now : /\ last.at - Ttl - FetchLimit < t /\ t <= last.at
                         /\ \E a \in R!Known : Said(a, t) /\ last.allowed = R!Decides(a)

CacheInv == CacheTyped /\ FetchesAreYoung /\ CacheWasSaid /\ DecisionWasSaid

LEMMA RobotsConstants ==
    /\ FetchLimit \in Nat /\ MaxClock \in Nat /\ Ttl \in Nat /\ Ttl > 0 /\ R!Never = -1
    /\ Answers \subseteq [ok : BOOLEAN, file : R!Files] /\ 0 \in 0..MaxClock
BY SessionAssumption DEF R!RobotsAssumption, R!Never

\* What a fetch may bring is what is known of the site, a whole answer being cut at its end.
LEMMA KnownAnswers ==
    /\ R!Failed \in R!Known
    /\ \A a \in Answers : a \in R!Known /\ R!CutShort(a) \subseteq R!Known
<1>1. ASSUME NEW a \in Answers PROVE a \in R!CutShort(a)
  <2>1. a \in [ok : BOOLEAN, file : R!Files]
    BY RobotsConstants
  <2>2. a.file \in Seq([field : STRING, agent : STRING, rule : R!Pattern])
    BY <2>1 DEF R!Files
  <2>3. SubSeq(a.file, 1, Len(a.file)) = a.file /\ Len(a.file) \in 0..Len(a.file)
    BY <2>2
  <2>4. [a EXCEPT !.file = a.file] = a
    BY <2>1
  <2>5. a = [a EXCEPT !.file = SubSeq(a.file, 1, Len(a.file))]
    BY <2>3, <2>4
  <2>6. QED
    BY <2>3, <2>5 DEF R!CutShort
<1>2. QED
  BY <1>1 DEF R!Known

LEMMA IdleAsking == R!Idle \in Asking /\ R!Idle.at = "idle"
BY KnownAnswers, RobotsConstants DEF R!Idle, Asking

LEMMA CacheStart == R!Init => CacheInv
<1> SUFFICES ASSUME R!Init PROVE CacheInv
  OBVIOUS
<1>1. CacheTyped
  BY IdleAsking, KnownAnswers, RobotsConstants DEF R!Init, CacheTyped
<1>2. QED
  BY <1>1, IdleAsking, RobotsConstants DEF R!Init, CacheInv, FetchesAreYoung, CacheWasSaid, DecisionWasSaid

\* What was said once was said, whatever the site answers afterwards.
LEMMA SaidForGood ==
    ASSUME CacheTyped, now' \in 0..MaxClock, now <= now', broken \subseteq broken',
           \A t \in 0..now : served'[t] = served[t]
    PROVE  /\ \A a, from, to : SaidSince(a, from, to) => SaidSince(a, from, to)'
           /\ \A a : \A t \in 0..now : Said(a, t) => Said(a, t)'
<1>1. \A a : \A t \in 0..now : Said(a, t) => Said(a, t)'
  BY DEF Said, SaidIn
<1>2. \A t \in 0..now : t \in 0..now'
  BY DEF CacheTyped
<1>3. QED
  BY <1>1, <1>2 DEF SaidSince

LEMMA CheckFields ==
    ASSUME CacheTyped, NEW c \in Checks
    PROVE  check[c].at \in {"idle", "asking", "told"} /\ check[c].since \in 0..MaxClock /\ check[c].answer \in R!Known
<1>1. check[c] \in Asking
  BY DEF CacheTyped
<1>2. QED
  BY <1>1 DEF Asking

LEMMA DecisionIsTyped == \A a : R!Decides(a) \subseteq Paths
BY DEF R!Decides

LEMMA HitStep == ASSUME CacheInv, NEW c \in Checks, R!Hit(c) PROVE CacheInv'
<1>0. CacheTyped /\ FetchesAreYoung /\ CacheWasSaid
  BY DEF CacheInv
<1>1. /\ UNCHANGED <<now, served, broken, cache, check>> /\ last' = [allowed |-> R!Decides(cache.answer), at |-> now]
      /\ cache.fetched # -1 /\ now - cache.fetched < Ttl
  BY RobotsConstants DEF R!Hit, R!Fresh, R!Decide
<1>2. cache.fetched \in 0..MaxClock /\ now \in 0..MaxClock /\ cache.answer \in R!Known
  BY <1>0, <1>1 DEF CacheTyped
<1>3. PICK t \in 0..now : cache.fetched - FetchLimit <= t /\ t <= cache.fetched /\ Said(cache.answer, t)
  BY <1>0, <1>1 DEF CacheWasSaid, SaidSince
<1>4. now - Ttl - FetchLimit < t /\ t <= now
  BY <1>1, <1>2, <1>3, RobotsConstants
<1>5. CacheTyped'
  BY <1>0, <1>1, <1>2, DecisionIsTyped DEF CacheTyped
<1>6. DecisionWasSaid'
  <2>1. last'.at = now /\ last'.allowed = R!Decides(cache.answer)
    BY <1>1
  <2>2. Said(cache.answer, t)'
    BY <1>1, <1>3 DEF Said, SaidIn
  <2>3. QED
    BY <1>1, <1>2, <1>4, <2>1, <2>2 DEF DecisionWasSaid
<1>7. FetchesAreYoung' /\ CacheWasSaid'
  BY <1>0, <1>1 DEF FetchesAreYoung, CacheWasSaid, SaidSince, Said, SaidIn
<1>8. QED
  BY <1>5, <1>6, <1>7 DEF CacheInv

LEMMA AskStep == ASSUME CacheInv, NEW c \in Checks, R!Ask(c) PROVE CacheInv'
<1>0. CacheTyped /\ FetchesAreYoung
  BY DEF CacheInv
<1> DEFINE new == [at |-> "asking", since |-> now, answer |-> R!Failed]
<1>1. check' = [check EXCEPT ![c] = new] /\ UNCHANGED <<now, served, broken, cache, last>>
  BY DEF R!Ask
<1>2. new \in Asking /\ new.at = "asking" /\ new.since = now
  BY <1>0, KnownAnswers DEF CacheTyped, Asking
<1> HIDE DEF new
<1>3. CacheTyped' /\ check'[c] = new /\ \A b \in Checks \ {c} : check'[b] = check[b]
  BY <1>0, <1>1, <1>2 DEF CacheTyped
<1>4. now <= now + FetchLimit
  BY <1>0, RobotsConstants DEF CacheTyped
<1>5. FetchesAreYoung'
  <2> SUFFICES ASSUME NEW b \in Checks, check'[b].at # "idle"
               PROVE  /\ check'[b].since <= now /\ now <= check'[b].since + FetchLimit
                      /\ check'[b].at = "told" => SaidSince(check'[b].answer, check'[b].since, now)
    BY <1>1 DEF FetchesAreYoung, SaidSince, Said, SaidIn
  <2>1. CASE b = c
    BY <1>0, <1>2, <1>3, <1>4, <2>1 DEF CacheTyped
  <2>2. CASE b # c
    BY <1>0, <1>3, <2>2 DEF FetchesAreYoung
  <2>3. QED
    BY <2>1, <2>2
<1>6. CacheWasSaid' /\ DecisionWasSaid'
  BY <1>1 DEF CacheInv, CacheWasSaid, DecisionWasSaid, SaidSince, Said, SaidIn
<1>7. QED
  BY <1>3, <1>5, <1>6 DEF CacheInv

LEMMA ToldStep ==
    ASSUME CacheInv, NEW c \in Checks, R!Told(c) \/ R!BreaksOff(c)
    PROVE  CacheInv'
<1>0. CacheTyped /\ FetchesAreYoung
  BY DEF CacheInv
<1>1. check[c].at = "asking" /\ UNCHANGED <<now, served, cache, last>> /\ broken \subseteq broken'
      /\ broken' \subseteq 0..now
  BY <1>0 DEF R!Told, R!BreaksOff, CacheTyped
<1>2. served[now] \in Answers /\ now \in 0..now /\ now \in 0..MaxClock
  BY <1>0 DEF CacheTyped
<1>3. PICK a \in R!Known :
        /\ check' = [check EXCEPT ![c].at = "told", ![c].answer = a]
        /\ a = served[now] \/ (now \in broken' /\ a \in {R!Failed} \cup R!CutShort(served[now]))
  <2>1. CASE R!Told(c)
    BY <1>2, <2>1, KnownAnswers DEF R!Told
  <2>2. CASE R!BreaksOff(c)
    <3>1. now \in broken'
      BY <2>2 DEF R!BreaksOff
    <3>2. PICK a \in {R!Failed} \cup R!CutShort(served[now]) : check' = [check EXCEPT ![c].at = "told", ![c].answer = a]
      BY <2>2 DEF R!BreaksOff
    <3>3. a \in R!Known
      BY <1>2, <3>2, KnownAnswers
    <3>4. QED
      BY <3>1, <3>2, <3>3
  <2>3. QED
    BY <2>1, <2>2
<1> DEFINE new == [[check[c] EXCEPT !.at = "told"] EXCEPT !.answer = a]
<1>4. check[c] \in Asking /\ check \in [Checks -> Asking]
  BY <1>0 DEF CacheTyped
<1>5. check' = [check EXCEPT ![c] = new]
  BY <1>3, <1>4
<1>6. new \in Asking /\ new.at = "told" /\ new.answer = a /\ new.since = check[c].since
  BY <1>4 DEF Asking
<1> HIDE DEF new
<1>7. /\ check' \in [Checks -> Asking] /\ check'[c] = new /\ \A b \in Checks \ {c} : check'[b] = check[b]
  BY <1>4, <1>5, <1>6
<1>8. CacheTyped'
  BY <1>0, <1>1, <1>7 DEF CacheTyped
<1>9. /\ \A x, from, to : SaidSince(x, from, to) => SaidSince(x, from, to)'
      /\ \A x : \A t \in 0..now : Said(x, t) => Said(x, t)'
  <2>1. now' \in 0..MaxClock /\ now <= now' /\ \A t \in 0..now : served'[t] = served[t]
    BY <1>0, <1>1 DEF CacheTyped
  <2>2. QED
    BY <1>0, <1>1, <2>1, SaidForGood
<1>10. FetchesAreYoung'
  <2> SUFFICES ASSUME NEW b \in Checks, check'[b].at # "idle"
               PROVE  /\ check'[b].since <= now /\ now <= check'[b].since + FetchLimit
                      /\ check'[b].at = "told" =>
                           \E t \in 0..now : /\ check'[b].since <= t /\ t <= now
                                             /\ SaidIn(served', broken', check'[b].answer, t)
    BY <1>1 DEF FetchesAreYoung, SaidSince, Said, SaidIn
  <2>1. CASE b = c
    <3>1. check[c].since <= now /\ now <= check[c].since + FetchLimit
      BY <1>0, <1>1 DEF FetchesAreYoung
    <3>2. SaidIn(served', broken', a, now)
      BY <1>1, <1>3 DEF SaidIn
    <3>3. QED
      BY <1>2, <1>6, <1>7, <2>1, <3>1, <3>2
  <2>2. CASE b # c
    <3>1. check'[b] = check[b]
      BY <1>7, <2>2
    <3>2. check[b].at = "told" =>
            \E t \in 0..now : check[b].since <= t /\ t <= now /\ Said(check[b].answer, t)
      BY <1>0 DEF FetchesAreYoung, SaidSince
    <3>3. \A x : \A t \in 0..now : Said(x, t) => SaidIn(served', broken', x, t)
      BY <1>9 DEF Said
    <3>4. QED
      BY <1>0, <3>1, <3>2, <3>3 DEF FetchesAreYoung
  <2>3. QED
    BY <2>1, <2>2
<1>11. CacheWasSaid' /\ DecisionWasSaid'
  BY <1>1, <1>9 DEF CacheInv, CacheWasSaid, DecisionWasSaid
<1>12. QED
  BY <1>8, <1>10, <1>11 DEF CacheInv

LEMMA KeptStep == ASSUME CacheInv, NEW c \in Checks, R!Kept(c) PROVE CacheInv'
<1>0. CacheTyped /\ FetchesAreYoung
  BY DEF CacheInv
<1>1. /\ check[c].at = "told" /\ cache' = [answer |-> check[c].answer, fetched |-> now]
      /\ last' = [allowed |-> R!Decides(check[c].answer), at |-> now]
      /\ check' = [check EXCEPT ![c] = R!Idle] /\ UNCHANGED <<now, served, broken>>
  BY DEF R!Kept, R!Decide
<1>2. /\ check[c].since \in 0..MaxClock /\ check[c].answer \in R!Known /\ now \in 0..MaxClock
      /\ check[c].since <= now /\ now <= check[c].since + FetchLimit
  BY <1>0, <1>1, CheckFields DEF CacheTyped, FetchesAreYoung
<1>3. PICK t \in 0..now : check[c].since <= t /\ t <= now /\ Said(check[c].answer, t)
  BY <1>0, <1>1 DEF FetchesAreYoung, SaidSince
<1>4. now - FetchLimit <= t /\ now - Ttl - FetchLimit < t
  BY <1>2, <1>3, RobotsConstants
<1>5. CacheTyped' /\ \A b \in Checks \ {c} : check'[b] = check[b]
  BY <1>0, <1>1, <1>2, IdleAsking, DecisionIsTyped DEF CacheTyped
<1>6. FetchesAreYoung'
  BY <1>0, <1>1, <1>5, IdleAsking DEF FetchesAreYoung, SaidSince, Said, SaidIn, CacheTyped
<1>7. Said(check[c].answer, t) /\ cache'.answer = check[c].answer /\ cache'.fetched = now
      /\ last'.at = now /\ last'.allowed = R!Decides(check[c].answer)
  BY <1>1, <1>3
<1>8. CacheWasSaid'
  BY <1>1, <1>2, <1>3, <1>4, <1>7 DEF CacheWasSaid, SaidSince, Said, SaidIn
<1>9. DecisionWasSaid'
  BY <1>1, <1>2, <1>3, <1>4, <1>7 DEF DecisionWasSaid, Said, SaidIn
<1>10. QED
  BY <1>5, <1>6, <1>8, <1>9 DEF CacheInv

LEMMA ClockStep == ASSUME CacheInv, R!Tick PROVE CacheInv'
<1>0. CacheTyped /\ FetchesAreYoung /\ CacheWasSaid /\ DecisionWasSaid
  BY DEF CacheInv
<1>1. now \in 0..MaxClock /\ now < MaxClock /\ now' = now + 1 /\ UNCHANGED <<broken, cache, check, last>>
  BY <1>0 DEF R!Tick, CacheTyped
<1>2. PICK a \in Answers : served' = [t \in 0..now + 1 |-> IF t <= now THEN served[t] ELSE a]
  BY DEF R!Tick
<1>3. now' \in 0..MaxClock /\ now <= now' /\ \A t \in 0..now : served'[t] = served[t]
  BY <1>1, <1>2, RobotsConstants
<1>4. served' \in [0..now' -> Answers]
  BY <1>0, <1>1, <1>2 DEF CacheTyped
<1>5. CacheTyped'
  <2>1. broken' \subseteq 0..now'
    BY <1>0, <1>1 DEF CacheTyped
  <2>2. QED
    BY <1>0, <1>1, <1>3, <1>4, <2>1 DEF CacheTyped
<1>6. /\ \A x, from, to : SaidSince(x, from, to) => SaidSince(x, from, to)'
      /\ \A x : \A t \in 0..now : Said(x, t) => Said(x, t)'
  BY <1>0, <1>1, <1>3, SaidForGood
<1>7. FetchesAreYoung'
  <2> SUFFICES ASSUME NEW b \in Checks, check[b].at # "idle"
               PROVE  /\ check[b].since <= now' /\ now' <= check[b].since + FetchLimit
                      /\ check[b].at = "told" =>
                           \E t \in 0..now' : /\ check[b].since <= t /\ t <= now'
                                              /\ SaidIn(served', broken', check[b].answer, t)
    BY <1>1 DEF FetchesAreYoung, SaidSince, Said
  <2>1. check[b].since <= now /\ now < check[b].since + FetchLimit /\ check[b].since \in 0..MaxClock
    BY <1>0, CheckFields DEF FetchesAreYoung, R!Tick
  <2>2. check[b].since <= now' /\ now' <= check[b].since + FetchLimit
    BY <1>1, <2>1, RobotsConstants
  <2>3. ASSUME check[b].at = "told"
        PROVE  \E t \in 0..now' : /\ check[b].since <= t /\ t <= now'
                                  /\ SaidIn(served', broken', check[b].answer, t)
    <3>1. PICK t \in 0..now : check[b].since <= t /\ t <= now /\ Said(check[b].answer, t)
      BY <1>0, <2>3 DEF FetchesAreYoung, SaidSince
    <3>2. \A x : \A u \in 0..now : Said(x, u) => SaidIn(served', broken', x, u)
      BY <1>6 DEF Said
    <3>3. t \in 0..now' /\ t <= now'
      BY <1>1
    <3>4. QED
      BY <3>1, <3>2, <3>3
  <2>4. QED
    BY <2>2, <2>3
<1>8. CacheWasSaid'
  <2>1. cache.fetched \in 0..MaxClock \cup {-1}
    BY <1>0 DEF CacheTyped
  <2>2. QED
    BY <1>0, <1>1, <1>6, <2>1 DEF CacheWasSaid
<1>9. DecisionWasSaid'
  <2> SUFFICES ASSUME last.at # -1
               PROVE  /\ last.at <= now'
                      /\ \E t \in 0..now' : /\ last.at - Ttl - FetchLimit < t /\ t <= last.at
                           /\ \E x \in R!Known : SaidIn(served', broken', x, t) /\ last.allowed = R!Decides(x)
    BY <1>1 DEF DecisionWasSaid, Said
  <2>1. last.at \in 0..MaxClock \cup {-1}
    BY <1>0 DEF CacheTyped
  <2>2. PICK t \in 0..now : /\ last.at - Ttl - FetchLimit < t /\ t <= last.at
                            /\ \E x \in R!Known : Said(x, t) /\ last.allowed = R!Decides(x)
    BY <1>0 DEF DecisionWasSaid
  <2>3. \A x : Said(x, t) => SaidIn(served', broken', x, t)
    BY <1>6 DEF Said
  <2>4. t \in 0..now'
    BY <1>1
  <2>5. last.at <= now'
    BY <1>0, <1>1, <2>1 DEF DecisionWasSaid
  <2>6. QED
    BY <2>2, <2>3, <2>4, <2>5
<1>10. QED
  BY <1>5, <1>7, <1>8, <1>9 DEF CacheInv

LEMMA CacheStep == ASSUME CacheInv, [R!Next]_R!vars PROVE CacheInv'
<1>1. CASE R!Tick
  BY <1>1, ClockStep
<1>2. CASE \E c \in Checks : R!Hit(c) \/ R!Ask(c) \/ R!Told(c) \/ R!BreaksOff(c) \/ R!Kept(c)
  BY <1>2, HitStep, AskStep, ToldStep, KeptStep
<1>3. CASE UNCHANGED R!vars
  <2>1. UNCHANGED <<now, served, broken, cache, check, last>>
    BY <1>3 DEF R!vars
  <2>2. CacheTyped' /\ FetchesAreYoung' /\ CacheWasSaid' /\ DecisionWasSaid'
    BY <2>1 DEF CacheInv, CacheTyped, FetchesAreYoung, CacheWasSaid, DecisionWasSaid, SaidSince, Said, SaidIn
  <2>3. QED
    BY <2>2 DEF CacheInv
<1>4. QED
  BY <1>1, <1>2, <1>3 DEF R!Next

LEMMA CachePromise == CacheInv => R!TypeOK /\ R!DecisionIsCurrent
<1> SUFFICES ASSUME CacheInv PROVE R!TypeOK /\ R!DecisionIsCurrent
  OBVIOUS
<1>1. R!TypeOK
  BY RobotsConstants DEF CacheInv, CacheTyped, Asking, R!TypeOK
<1>2. R!DecisionIsCurrent
  <2> SUFFICES ASSUME last.at # -1
               PROVE  \E t \in R!Window :
                        \/ last.allowed = R!Decides(served[t])
                        \/ t \in broken /\ \E a \in {R!Failed} \cup R!CutShort(served[t]) : last.allowed = R!Decides(a)
    BY RobotsConstants DEF R!DecisionIsCurrent
  <2>1. PICK t \in 0..now : /\ last.at - Ttl - FetchLimit < t /\ t <= last.at
                            /\ \E a \in R!Known : Said(a, t) /\ last.allowed = R!Decides(a)
    BY DEF CacheInv, DecisionWasSaid
  <2>2. t \in R!Window
    BY <2>1 DEF R!Window
  <2>3. QED
    BY <2>1, <2>2 DEF Said, SaidIn
<1>3. QED
  BY <1>1, <1>2

-----------------------------------------------------------------------------
(* Robots: how a file is read.                                                *)

LEMMA Least == ASSUME NEW X, X \subseteq Nat, X # {} PROVE \E m \in X : \A l \in X : m <= l
<1> DEFINE Less == OpToRel(<, Nat)
<1>1. \A x, y \in Nat : <<y, x>> \in Less <=> y < x
  BY DEF OpToRel
<1>2. IsWellFoundedOn(Less, Nat)
  BY NatLessThanWellFounded
<1> HIDE DEF Less
<1>3. PICK m \in X : \A l \in X : ~ (<<l, m>> \in Less)
  BY <1>2, WFMin
<1>4. m \in Nat /\ \A l \in X : l \in Nat /\ ~ (l < m)
  BY <1>1, <1>3
<1>5. \A l \in X : m <= l
  BY <1>4
<1>6. QED
  BY <1>5

\* What holds of 0, and of a number when it holds of the one before it, holds of them all.
LEMMA Upward ==
    ASSUME NEW X, 0 \in X, \A n \in Nat : n \in X => n + 1 \in X
    PROVE  Nat \subseteq X
<1> DEFINE Bad == {n \in Nat : n \notin X}
<1>1. CASE Bad = {}
  BY <1>1
<1>2. CASE Bad # {}
  <2>1. Bad \subseteq Nat
    OBVIOUS
  <2> HIDE DEF Bad
  <2>2. PICK m \in Bad : \A l \in Bad : m <= l
    BY <1>2, <2>1, Least
  <2>3. m \in Nat /\ m \notin X /\ m # 0
    BY <2>2 DEF Bad
  <2>4. m - 1 \in Nat /\ m - 1 \notin Bad
    BY <2>2, <2>3
  <2>5. m - 1 \in X
    BY <2>4 DEF Bad
  <2>6. (m - 1) + 1 \in X
    BY <2>4, <2>5
  <2>7. QED
    BY <2>3, <2>6
<1>3. QED
  BY <1>1, <1>2

FileLine == [field : STRING, agent : STRING, rule : R!Pattern]
Group == [agents : SUBSET STRING, allow : SUBSET R!Pattern, disallow : SUBSET R!Pattern]
Account == [groups : Seq(Group), sawRule : BOOLEAN]
Unread == [groups |-> <<>>, sawRule |-> FALSE]
SaysAgent(line) == line.field = "user-agent"
SaysRule(line) == line.field \in {"allow", "disallow"}

\* What a line adds to the group it belongs to.
Names(line, x) == line.field = "user-agent" /\ line.agent = x
Allows(line, x) == line.field = "allow" /\ line.rule = x
Forbids(line, x) == line.field = "disallow" /\ line.rule = x

OpensGroup(a, line) == SaysAgent(line) /\ (Len(a.groups) = 0 \/ a.sawRule)

\* One line read: it opens a group or it is of the last one.
LineRead(a, b, line) ==
    /\ b \in Account
    /\ OpensGroup(a, line) => Len(b.groups) = Len(a.groups) + 1
    /\ ~OpensGroup(a, line) => Len(b.groups) = Len(a.groups)
    /\ b.sawRule <=> (SaysRule(line) /\ Len(a.groups) # 0) \/ (a.sawRule /\ Len(b.groups) = Len(a.groups))
    /\ \A g \in 1..Len(b.groups) :
         /\ \A x : x \in b.groups[g].agents <=>
              (g <= Len(a.groups) /\ x \in a.groups[g].agents) \/ (g = Len(b.groups) /\ Names(line, x))
         /\ \A x : x \in b.groups[g].allow <=>
              (g <= Len(a.groups) /\ x \in a.groups[g].allow) \/ (g = Len(b.groups) /\ Allows(line, x))
         /\ \A x : x \in b.groups[g].disallow <=>
              (g <= Len(a.groups) /\ x \in a.groups[g].disallow) \/ (g = Len(b.groups) /\ Forbids(line, x))

\* A line of the last group adds to it and to no other.
LEMMA LastGrows ==
    ASSUME NEW a \in Account, NEW line \in FileLine, NEW b, NEW new \in Group, NEW saw \in BOOLEAN, Len(a.groups) # 0,
           b = [groups |-> [a.groups EXCEPT ![Len(a.groups)] = new], sawRule |-> saw],
           ~(SaysAgent(line) /\ a.sawRule), saw <=> SaysRule(line) \/ a.sawRule,
           \A x : x \in new.agents <=> x \in a.groups[Len(a.groups)].agents \/ Names(line, x),
           \A x : x \in new.allow <=> x \in a.groups[Len(a.groups)].allow \/ Allows(line, x),
           \A x : x \in new.disallow <=> x \in a.groups[Len(a.groups)].disallow \/ Forbids(line, x)
    PROVE  LineRead(a, b, line)
<1> DEFINE n == Len(a.groups)
<1>1. a.groups \in Seq(Group) /\ a.sawRule \in BOOLEAN /\ n \in Nat /\ n # 0
  BY DEF Account
<1>2. /\ b.groups = [a.groups EXCEPT ![n] = new] /\ b.sawRule = saw
  OBVIOUS
<1>3. b.groups \in Seq(Group) /\ Len(b.groups) = n /\ b.groups[n] = new /\ \A g \in 1..n : g # n => b.groups[g] = a.groups[g]
  BY <1>1, <1>2
<1>4. b \in Account
  BY <1>2, <1>3 DEF Account
<1>5. ~OpensGroup(a, line) /\ Len(b.groups) = n
  BY <1>1, <1>3 DEF OpensGroup
<1>6. b.sawRule <=> (SaysRule(line) /\ n # 0) \/ (a.sawRule /\ Len(b.groups) = n)
  BY <1>1, <1>2, <1>3
<1> HIDE DEF n
<1>7. ASSUME NEW g \in 1..Len(b.groups)
      PROVE  /\ \A x : x \in b.groups[g].agents <=> (g <= n /\ x \in a.groups[g].agents) \/ (g = Len(b.groups) /\ Names(line, x))
             /\ \A x : x \in b.groups[g].allow <=> (g <= n /\ x \in a.groups[g].allow) \/ (g = Len(b.groups) /\ Allows(line, x))
             /\ \A x : x \in b.groups[g].disallow <=>
                  (g <= n /\ x \in a.groups[g].disallow) \/ (g = Len(b.groups) /\ Forbids(line, x))
  <2>1. CASE g = n
    <3>1. b.groups[g] = new /\ g <= n /\ g = Len(b.groups)
      BY <1>1, <1>3, <2>1
    <3>2. QED
      BY <2>1, <3>1 DEF n
  <2>2. CASE g # n
    <3>1. g <= n /\ g # Len(b.groups) /\ b.groups[g] = a.groups[g]
      BY <1>1, <1>3, <2>2
    <3>2. QED
      BY <3>1
  <2>3. QED
    BY <2>1, <2>2
<1>8. QED
  BY <1>4, <1>5, <1>6, <1>7 DEF LineRead, n

LEMMA LineIsRead ==
    ASSUME NEW a \in Account, NEW line \in FileLine
    PROVE  LineRead(a, R!ReadLine(a, line), line)
<1> DEFINE b == R!ReadLine(a, line)
           n == Len(a.groups)
<1>1. /\ a.groups \in Seq(Group) /\ a.sawRule \in BOOLEAN /\ n \in Nat
      /\ line.agent \in STRING /\ line.rule \in R!Pattern
  BY DEF Account, FileLine
<1>2. R!Opens(a) <=> n = 0 \/ a.sawRule
  BY <1>1 DEF R!Opens
<1>3. CASE SaysAgent(line) /\ (n = 0 \/ a.sawRule)
  <2> DEFINE new == R!NewGroup(line.agent)
  <2>1. b = [groups |-> Append(a.groups, new), sawRule |-> FALSE]
    BY <1>2, <1>3 DEF R!ReadLine, R!StartsGroup, R!RuleFields, SaysAgent
  <2>2. new \in Group /\ new.agents = {line.agent} /\ new.allow = {} /\ new.disallow = {}
    BY <1>1 DEF R!NewGroup, Group
  <2> HIDE DEF new
  <2>3. /\ b.groups = Append(a.groups, new) /\ b.sawRule = FALSE /\ b.groups \in Seq(Group) /\ Len(b.groups) = n + 1
        /\ b.groups[n + 1] = new /\ \A g \in 1..n : b.groups[g] = a.groups[g]
    BY <1>1, <2>1, <2>2
  <2>4. b \in Account
    BY <2>1, <2>3 DEF Account
  <2>5. \A x : (Names(line, x) <=> x = line.agent) /\ ~Allows(line, x) /\ ~Forbids(line, x)
    BY <1>3 DEF Names, Allows, Forbids, SaysAgent
  <2>6. ~SaysRule(line)
    BY <1>3 DEF SaysRule, SaysAgent
  <2> HIDE DEF b
  <2>7. OpensGroup(a, line) /\ Len(b.groups) = n + 1
    BY <1>3, <2>3 DEF OpensGroup
  <2>8. b.sawRule <=> (SaysRule(line) /\ n # 0) \/ (a.sawRule /\ Len(b.groups) = n)
    BY <1>1, <2>3, <2>6
  <2>9. ASSUME NEW g \in 1..Len(b.groups)
        PROVE  /\ \A x : x \in b.groups[g].agents <=> (g <= n /\ x \in a.groups[g].agents) \/ (g = Len(b.groups) /\ Names(line, x))
               /\ \A x : x \in b.groups[g].allow <=> (g <= n /\ x \in a.groups[g].allow) \/ (g = Len(b.groups) /\ Allows(line, x))
               /\ \A x : x \in b.groups[g].disallow <=>
                    (g <= n /\ x \in a.groups[g].disallow) \/ (g = Len(b.groups) /\ Forbids(line, x))
    <3>1. CASE g = n + 1
      <4>1. b.groups[g] = new /\ ~(g <= n) /\ g = Len(b.groups)
        BY <1>1, <2>3, <3>1
      <4>2. QED
        BY <2>2, <2>5, <4>1
    <3>2. CASE g # n + 1
      <4>1. g \in 1..n /\ g # Len(b.groups) /\ g <= n
        BY <1>1, <2>3, <3>2
      <4>2. b.groups[g] = a.groups[g]
        BY <2>3, <4>1
      <4>3. QED
        BY <4>1, <4>2
    <3>3. QED
      BY <3>1, <3>2
  <2>10. QED
    BY <2>4, <2>7, <2>8, <2>9 DEF LineRead, b
<1>4. CASE n # 0 /\ ((SaysAgent(line) /\ ~a.sawRule) \/ SaysRule(line))
  <2> DEFINE prior == a.groups[n]
  <2>1. prior \in Group
    BY <1>1, <1>4
  <2>2. CASE SaysAgent(line) /\ ~a.sawRule
    <3> DEFINE new == [prior EXCEPT !.agents = @ \cup {line.agent}]
    <3>1. b = [a EXCEPT !.groups = [a.groups EXCEPT ![n] = new]]
      BY <1>1, <1>2, <1>4, <2>2 DEF R!ReadLine, R!StartsGroup, R!ToLast, R!RuleFields, SaysAgent
    <3>2. b = [groups |-> [a.groups EXCEPT ![n] = new], sawRule |-> FALSE]
      BY <2>2, <3>1 DEF Account
    <3>3. new \in Group
      BY <1>1, <2>1 DEF Group
    <3>4. new.agents = prior.agents \cup {line.agent} /\ new.allow = prior.allow /\ new.disallow = prior.disallow
      BY <2>1 DEF Group
    <3>5. (\A x : Names(line, x) <=> x = line.agent) /\ (\A x : ~Allows(line, x) /\ ~Forbids(line, x)) /\ ~SaysRule(line)
      BY <2>2 DEF Names, Allows, Forbids, SaysAgent, SaysRule
    <3> HIDE DEF new, b
    <3>6. QED
      BY <1>4, <2>2, <3>2, <3>3, <3>4, <3>5, LastGrows DEF b
  <2>3. CASE line.field = "allow"
    <3> DEFINE new == [prior EXCEPT !.allow = @ \cup {line.rule}]
    <3>1. b = [groups |-> [a.groups EXCEPT ![n] = new], sawRule |-> TRUE]
      <4>1. a.groups # <<>> /\ line.field \in R!RuleFields /\ line.field # "user-agent"
        BY <1>1, <1>4, <2>3 DEF R!RuleFields
      <4>2. b = [groups |-> R!ToLast(a.groups, line.field, line.rule), sawRule |-> TRUE]
        BY <4>1 DEF R!ReadLine
      <4>3. R!ToLast(a.groups, line.field, line.rule) = R!ToLast(a.groups, "allow", line.rule)
        BY <2>3
      <4>4. R!ToLast(a.groups, "allow", line.rule) = [a.groups EXCEPT ![n] = new]
        BY DEF R!ToLast
      <4> HIDE DEF b, new
      <4>5. QED
        BY <4>2, <4>3, <4>4
    <3>2. new \in Group
      BY <1>1, <2>1 DEF Group
    <3>3. new.allow = prior.allow \cup {line.rule} /\ new.agents = prior.agents /\ new.disallow = prior.disallow
      BY <2>1 DEF Group
    <3>4. (\A x : Allows(line, x) <=> x = line.rule) /\ (\A x : ~Names(line, x) /\ ~Forbids(line, x))
          /\ SaysRule(line) /\ ~SaysAgent(line)
      BY <2>3 DEF Names, Allows, Forbids, SaysAgent, SaysRule
    <3> HIDE DEF new, b
    <3>5. QED
      BY <1>4, <3>1, <3>2, <3>3, <3>4, LastGrows DEF b
  <2>4. CASE line.field = "disallow"
    <3> DEFINE new == [prior EXCEPT !.disallow = @ \cup {line.rule}]
    <3>1. b = [groups |-> [a.groups EXCEPT ![n] = new], sawRule |-> TRUE]
      <4>1. a.groups # <<>> /\ line.field \in R!RuleFields /\ line.field # "user-agent"
        BY <1>1, <1>4, <2>4 DEF R!RuleFields
      <4>2. b = [groups |-> R!ToLast(a.groups, line.field, line.rule), sawRule |-> TRUE]
        BY <4>1 DEF R!ReadLine
      <4>3. R!ToLast(a.groups, line.field, line.rule) = R!ToLast(a.groups, "disallow", line.rule)
        BY <2>4
      <4>4. R!ToLast(a.groups, "disallow", line.rule) = [a.groups EXCEPT ![n] = new]
        BY DEF R!ToLast
      <4> HIDE DEF b, new
      <4>5. QED
        BY <4>2, <4>3, <4>4
    <3>2. new \in Group
      BY <1>1, <2>1 DEF Group
    <3>3. new.disallow = prior.disallow \cup {line.rule} /\ new.agents = prior.agents /\ new.allow = prior.allow
      BY <2>1 DEF Group
    <3>4. (\A x : Forbids(line, x) <=> x = line.rule) /\ (\A x : ~Names(line, x) /\ ~Allows(line, x))
          /\ SaysRule(line) /\ ~SaysAgent(line)
      BY <2>4 DEF Names, Allows, Forbids, SaysAgent, SaysRule
    <3> HIDE DEF new, b
    <3>5. QED
      BY <1>4, <3>1, <3>2, <3>3, <3>4, LastGrows DEF b
  <2>5. QED
    BY <1>4, <2>2, <2>3, <2>4 DEF SaysRule
<1>5. CASE ~SaysAgent(line) /\ (~SaysRule(line) \/ n = 0)
  <2>1. b = a
    BY <1>1, <1>5 DEF R!ReadLine, R!RuleFields, SaysAgent, SaysRule
  <2>2. \A x : ~Names(line, x)
    BY <1>5 DEF Names, SaysAgent
  <2>3. n # 0 => \A x : ~Allows(line, x) /\ ~Forbids(line, x)
    BY <1>5 DEF Allows, Forbids, SaysRule
  <2>4. QED
    BY <1>1, <1>5, <2>1, <2>2, <2>3 DEF LineRead, OpensGroup
<1>6. QED
  BY <1>3, <1>4, <1>5

LEMMA LinesTyped == ASSUME NEW f \in R!Files PROVE Len(f) \in Nat /\ DOMAIN f = 1..Len(f) /\ \A i \in 1..Len(f) : f[i] \in FileLine
<1>1. f \in Seq(FileLine)
  BY DEF R!Files, FileLine
<1> HIDE DEF FileLine
<1>2. QED
  BY <1>1

\* Reading is what its recursion says: there is such a function.
LEMMA ReadingUnfolds ==
    ASSUME NEW f \in R!Files
    PROVE  R!Reading(f) = [n \in 0..Len(f) |-> IF n = 0 THEN Unread ELSE R!ReadLine(R!Reading(f)[n - 1], f[n])]
<1> DEFINE Reads(m) == \E t : t = [n \in 0..m |-> IF n = 0 THEN Unread ELSE R!ReadLine(t[n - 1], f[n])]
           Good == {m \in Nat : Reads(m)}
<1>1. 0 \in Good
  <2> DEFINE t == [n \in 0..0 |-> Unread]
  <2>1. t = [n \in 0..0 |-> IF n = 0 THEN Unread ELSE R!ReadLine(t[n - 1], f[n])]
    OBVIOUS
  <2>2. Reads(0)
    BY <2>1
  <2>3. QED
    BY <2>2
<1>2. ASSUME NEW m \in Nat, m \in Good PROVE m + 1 \in Good
  <2>1. PICK g : g = [n \in 0..m |-> IF n = 0 THEN Unread ELSE R!ReadLine(g[n - 1], f[n])]
    BY <1>2
  <2> DEFINE t == [n \in 0..m + 1 |-> IF n = m + 1 THEN R!ReadLine(g[m], f[m + 1]) ELSE g[n]]
  <2>2. ASSUME NEW n \in 0..m + 1 PROVE t[n] = IF n = 0 THEN Unread ELSE R!ReadLine(t[n - 1], f[n])
    <3>1. CASE n = m + 1
      <4>1. n # 0 /\ n - 1 = m /\ m \in 0..m + 1 /\ m # m + 1
        BY <3>1
      <4>2. t[n] = R!ReadLine(g[m], f[m + 1]) /\ t[m] = g[m]
        BY <3>1, <4>1
      <4>3. QED
        BY <3>1, <4>1, <4>2
    <3>2. CASE n # m + 1
      <4>1. n \in 0..m /\ (n # 0 => n - 1 \in 0..m + 1 /\ n - 1 # m + 1)
        BY <3>2
      <4>2. t[n] = g[n] /\ (n # 0 => t[n - 1] = g[n - 1])
        BY <3>2, <4>1
      <4>3. g[n] = IF n = 0 THEN Unread ELSE R!ReadLine(g[n - 1], f[n])
        BY <2>1, <4>1
      <4>4. QED
        BY <4>2, <4>3
    <3>3. QED
      BY <3>1, <3>2
  <2>3. t = [n \in 0..m + 1 |-> IF n = 0 THEN Unread ELSE R!ReadLine(t[n - 1], f[n])]
    BY <2>2
  <2> HIDE DEF t
  <2>4. Reads(m + 1)
    BY <2>3
  <2>5. QED
    BY <2>4
<1>3. Len(f) \in Good
  <2>1. Len(f) \in Nat
    BY LinesTyped
  <2> HIDE DEF Good
  <2>2. QED
    BY <1>1, <1>2, <2>1, Upward
<1>4. R!Reading(f) = CHOOSE t : t = [n \in 0..Len(f) |-> IF n = 0 THEN Unread ELSE R!ReadLine(t[n - 1], f[n])]
  BY DEF R!Reading, Unread
<1>5. Reads(Len(f))
  BY <1>3
<1>6. QED
  BY <1>4, <1>5

\* The group line i is of, where there is one; the groups are those of the lines before n.
Stands(f, i) == Len(R!Reading(f)[i].groups)
Saw(f, n) == \E i \in 1..n : SaysRule(f[i]) /\ Stands(f, i) = Stands(f, n) /\ Stands(f, n) # 0
Holds(f, n) == \A g \in 1..Stands(f, n) :
    /\ \A x : x \in R!Reading(f)[n].groups[g].agents <=> \E i \in 1..n : Stands(f, i) = g /\ Names(f[i], x)
    /\ \A x : x \in R!Reading(f)[n].groups[g].allow <=> \E i \in 1..n : Stands(f, i) = g /\ Allows(f[i], x)
    /\ \A x : x \in R!Reading(f)[n].groups[g].disallow <=> \E i \in 1..n : Stands(f, i) = g /\ Forbids(f[i], x)
InOrder(f, n) ==
    /\ \A i \in 0..n : Stands(f, i) \in Nat
    /\ \A i, j \in 0..n : i <= j => Stands(f, i) <= Stands(f, j)
    /\ \A k \in 1..n : SaysAgent(f[k]) => Stands(f, k) # 0
\* An agent that follows a rule is of a later group, and only such an agent opens one.
Parted(f, n) == \A r, k \in 1..n : r < k /\ SaysRule(f[r]) /\ SaysAgent(f[k]) => Stands(f, r) < Stands(f, k)
Joined(f, n) == \A j, i \in 1..n : j <= i /\ SaysAgent(f[j]) /\ Stands(f, j) < Stands(f, i) =>
    \E r, k \in j..i : r < k /\ SaysRule(f[r]) /\ SaysAgent(f[k])
ReadSoFar(f, n) ==
    /\ R!Reading(f)[n] \in Account /\ (R!Reading(f)[n].sawRule <=> Saw(f, n))
    /\ Holds(f, n) /\ InOrder(f, n) /\ Parted(f, n) /\ Joined(f, n)

LEMMA NothingRead == ASSUME NEW f \in R!Files PROVE ReadSoFar(f, 0)
<1>1. R!Reading(f)[0] = Unread
  BY LinesTyped, ReadingUnfolds
<1>2. Unread \in Account /\ Stands(f, 0) = 0 /\ ~Unread.sawRule
  BY <1>1 DEF Unread, Account, Stands
<1>3. ~Saw(f, 0) /\ Holds(f, 0) /\ InOrder(f, 0) /\ Parted(f, 0) /\ Joined(f, 0)
  BY <1>2 DEF Saw, Holds, InOrder, Parted, Joined
<1>4. QED
  BY <1>1, <1>2, <1>3 DEF ReadSoFar

\* A line of a file, read after those before it.
LEMMA NextLine ==
    ASSUME NEW f \in R!Files, NEW n \in Nat, n + 1 <= Len(f), ReadSoFar(f, n)
    PROVE  /\ LineRead(R!Reading(f)[n], R!Reading(f)[n + 1], f[n + 1])
           /\ f[n + 1] \in FileLine /\ Stands(f, n) \in Nat
           /\ Stands(f, n + 1) = Stands(f, n) + 1 \/ Stands(f, n + 1) = Stands(f, n)
           /\ OpensGroup(R!Reading(f)[n], f[n + 1]) => Stands(f, n + 1) = Stands(f, n) + 1
           /\ ~OpensGroup(R!Reading(f)[n], f[n + 1]) => Stands(f, n + 1) = Stands(f, n)
           /\ SaysRule(f[n + 1]) => ~SaysAgent(f[n + 1])
           /\ OpensGroup(R!Reading(f)[n], f[n + 1]) <=> SaysAgent(f[n + 1]) /\ (Stands(f, n) = 0 \/ Saw(f, n))
<1>1. n + 1 \in 0..Len(f) /\ n + 1 # 0 /\ (n + 1) - 1 = n /\ n + 1 \in 1..Len(f)
  BY LinesTyped
<1>2. R!Reading(f)[n + 1] = R!ReadLine(R!Reading(f)[n], f[n + 1])
  BY <1>1, ReadingUnfolds
<1>3. f[n + 1] \in FileLine /\ R!Reading(f)[n] \in Account
  BY <1>1, LinesTyped DEF ReadSoFar
<1>4. LineRead(R!Reading(f)[n], R!Reading(f)[n + 1], f[n + 1])
  BY <1>2, <1>3, LineIsRead
<1>5. Stands(f, n) \in Nat
  BY <1>3 DEF Stands, Account
<1>6. /\ OpensGroup(R!Reading(f)[n], f[n + 1]) => Stands(f, n + 1) = Stands(f, n) + 1
      /\ ~OpensGroup(R!Reading(f)[n], f[n + 1]) => Stands(f, n + 1) = Stands(f, n)
  BY <1>4 DEF LineRead, Stands
<1>7. SaysRule(f[n + 1]) => ~SaysAgent(f[n + 1])
  BY DEF SaysRule, SaysAgent
<1>8. OpensGroup(R!Reading(f)[n], f[n + 1]) <=> SaysAgent(f[n + 1]) /\ (Stands(f, n) = 0 \/ Saw(f, n))
  BY DEF OpensGroup, Stands, ReadSoFar
<1>9. QED
  BY <1>3, <1>4, <1>5, <1>6, <1>7, <1>8

LEMMA LineKeeps ==
    ASSUME NEW f \in R!Files, NEW n \in Nat, n + 1 <= Len(f), ReadSoFar(f, n)
    PROVE  ReadSoFar(f, n + 1)
<1> DEFINE line == f[n + 1]
           a == R!Reading(f)[n]
           b == R!Reading(f)[n + 1]
           p == Stands(f, n)
           q == Stands(f, n + 1)
<1>1. /\ LineRead(a, b, line) /\ p \in Nat /\ (q = p + 1 \/ q = p)
      /\ OpensGroup(a, line) => q = p + 1
      /\ ~OpensGroup(a, line) => q = p
      /\ SaysRule(line) => ~SaysAgent(line)
      /\ OpensGroup(a, line) <=> SaysAgent(line) /\ (p = 0 \/ Saw(f, n))
  BY NextLine
<1>2. Holds(f, n) /\ InOrder(f, n) /\ Parted(f, n) /\ Joined(f, n) /\ (a.sawRule <=> Saw(f, n))
  BY DEF ReadSoFar
<1>3. p = Len(a.groups) /\ q = Len(b.groups)
  BY DEF Stands
<1>4. \A i \in 0..n : Stands(f, i) <= p
  BY <1>2 DEF InOrder
<1>5. /\ \A i \in 1..n + 1 : i \in 1..n \/ i = n + 1
      /\ \A i \in 0..n + 1 : i \in 0..n \/ i = n + 1
      /\ \A i \in 1..n : i \in 1..n + 1 /\ i < n + 1 /\ i \in 0..n
      /\ n + 1 \in 1..n + 1
  OBVIOUS
<1>6. \A i \in 0..n + 1 : Stands(f, i) \in Nat
  BY <1>1, <1>2, <1>5 DEF InOrder
<1>7. b \in Account
  BY <1>1 DEF LineRead
<1>8. b.sawRule <=> (SaysRule(line) /\ p # 0) \/ (a.sawRule /\ q = p)
  BY <1>1, <1>3 DEF LineRead
<1>9. \A g \in 1..q :
         /\ \A x : x \in b.groups[g].agents <=> (g <= p /\ x \in a.groups[g].agents) \/ (g = q /\ Names(line, x))
         /\ \A x : x \in b.groups[g].allow <=> (g <= p /\ x \in a.groups[g].allow) \/ (g = q /\ Allows(line, x))
         /\ \A x : x \in b.groups[g].disallow <=> (g <= p /\ x \in a.groups[g].disallow) \/ (g = q /\ Forbids(line, x))
  BY <1>1, <1>3 DEF LineRead
<1>10. \A g \in 1..p :
         /\ \A x : x \in a.groups[g].agents <=> \E i \in 1..n : Stands(f, i) = g /\ Names(f[i], x)
         /\ \A x : x \in a.groups[g].allow <=> \E i \in 1..n : Stands(f, i) = g /\ Allows(f[i], x)
         /\ \A x : x \in a.groups[g].disallow <=> \E i \in 1..n : Stands(f, i) = g /\ Forbids(f[i], x)
  BY <1>2 DEF Holds
<1>11. Saw(f, n + 1) <=> \E i \in 1..n + 1 : SaysRule(f[i]) /\ Stands(f, i) = q /\ q # 0
  BY DEF Saw
<1>12. Saw(f, n) <=> \E i \in 1..n : SaysRule(f[i]) /\ Stands(f, i) = p /\ p # 0
  BY DEF Saw
<1> HIDE DEF a, b
<1>13. b.sawRule <=> Saw(f, n + 1)
  <2>1. ASSUME SaysRule(line), p # 0 PROVE Saw(f, n + 1)
    BY <1>1, <1>5, <1>11, <2>1
  <2>2. ASSUME a.sawRule, q = p PROVE Saw(f, n + 1)
    BY <1>2, <1>5, <1>11, <1>12, <2>2
  <2>3. ASSUME NEW i \in 1..n + 1, SaysRule(f[i]), Stands(f, i) = q, q # 0 PROVE b.sawRule
    <3>1. CASE i = n + 1
      BY <1>1, <1>8, <2>3, <3>1
    <3>2. CASE i \in 1..n
      <4>1. q = p
        BY <1>1, <1>4, <1>5, <1>6, <2>3, <3>2
      <4>2. a.sawRule
        BY <1>2, <1>12, <2>3, <3>2, <4>1
      <4>3. QED
        BY <1>8, <4>1, <4>2
    <3>3. QED
      BY <1>5, <3>1, <3>2
  <2>4. QED
    BY <1>8, <1>11, <2>1, <2>2, <2>3
<1>14. \A i \in 1..n : Stands(f, i) <= p
  BY <1>4
<1>15. ASSUME NEW g \in 1..q
       PROVE  /\ \A x : x \in b.groups[g].agents <=> \E i \in 1..n + 1 : Stands(f, i) = g /\ Names(f[i], x)
              /\ \A x : x \in b.groups[g].allow <=> \E i \in 1..n + 1 : Stands(f, i) = g /\ Allows(f[i], x)
              /\ \A x : x \in b.groups[g].disallow <=> \E i \in 1..n + 1 : Stands(f, i) = g /\ Forbids(f[i], x)
  <2>1. g <= p => g \in 1..p
    BY <1>1
  <2>2. \A i \in 1..n : Stands(f, i) = g => g <= p
    BY <1>14
  <2>3. ASSUME NEW x PROVE x \in b.groups[g].agents <=> \E i \in 1..n + 1 : Stands(f, i) = g /\ Names(f[i], x)
    BY <1>5, <1>9, <1>10, <2>1, <2>2
  <2>4. ASSUME NEW x PROVE x \in b.groups[g].allow <=> \E i \in 1..n + 1 : Stands(f, i) = g /\ Allows(f[i], x)
    BY <1>5, <1>9, <1>10, <2>1, <2>2
  <2>5. ASSUME NEW x PROVE x \in b.groups[g].disallow <=> \E i \in 1..n + 1 : Stands(f, i) = g /\ Forbids(f[i], x)
    BY <1>5, <1>9, <1>10, <2>1, <2>2
  <2>6. QED
    BY <2>3, <2>4, <2>5
<1>16. Holds(f, n + 1)
  BY <1>15 DEF Holds, b
<1>17. InOrder(f, n + 1)
  <2>1. ASSUME NEW i \in 0..n + 1, NEW j \in 0..n + 1, i <= j PROVE Stands(f, i) <= Stands(f, j)
    <3>1. CASE j \in 0..n
      <4>1. i \in 0..n
        BY <2>1, <3>1
      <4>2. QED
        BY <1>2, <2>1, <3>1, <4>1 DEF InOrder
    <3>2. CASE j = n + 1
      <4>1. i = n + 1 \/ Stands(f, i) <= p
        BY <1>4, <1>5
      <4>2. QED
        BY <1>1, <1>6, <3>2, <4>1
    <3>3. QED
      BY <1>5, <3>1, <3>2
  <2>2. ASSUME NEW k \in 1..n + 1, SaysAgent(f[k]) PROVE Stands(f, k) # 0
    <3>1. CASE k \in 1..n
      BY <1>2, <2>2, <3>1 DEF InOrder
    <3>2. CASE k = n + 1
      BY <1>1, <2>2, <3>2
    <3>3. QED
      BY <1>5, <3>1, <3>2
  <2>3. QED
    BY <1>6, <2>1, <2>2 DEF InOrder
<1>18. Parted(f, n + 1)
  <2> SUFFICES ASSUME NEW r \in 1..n + 1, NEW k \in 1..n + 1, r < k, SaysRule(f[r]), SaysAgent(f[k])
               PROVE  Stands(f, r) < Stands(f, k)
    BY DEF Parted
  <2>1. r \in 1..n
    OBVIOUS
  <2>2. CASE k \in 1..n
    BY <1>2, <2>1, <2>2 DEF Parted
  <2>3. CASE k = n + 1
    <3>1. CASE OpensGroup(a, line)
      BY <1>1, <1>6, <1>14, <2>1, <2>3, <3>1 DEF a
    <3>2. CASE ~OpensGroup(a, line)
      <4>1. q = p /\ p # 0 /\ ~Saw(f, n)
        BY <1>1, <2>3, <3>2 DEF a
      <4>2. Stands(f, r) # p
        BY <1>12, <2>1, <4>1
      <4>3. Stands(f, r) <= p /\ Stands(f, r) \in Nat /\ p \in Nat
        BY <1>1, <1>6, <1>14, <2>1
      <4>4. QED
        BY <2>3, <4>1, <4>2, <4>3
    <3>3. QED
      BY <3>1, <3>2
  <2>4. QED
    BY <1>5, <2>2, <2>3
<1>19. Joined(f, n + 1)
  <2> SUFFICES ASSUME NEW j \in 1..n + 1, NEW i \in 1..n + 1, j <= i, SaysAgent(f[j]), Stands(f, j) < Stands(f, i)
               PROVE  \E r, k \in j..i : r < k /\ SaysRule(f[r]) /\ SaysAgent(f[k])
    BY DEF Joined
  <2>1. CASE i \in 1..n
    <3>1. j \in 1..n
      BY <2>1
    <3>2. QED
      BY <1>2, <2>1, <3>1 DEF Joined
  <2>2. CASE i = n + 1
    <3>1. j # n + 1
      BY <1>6, <2>2
    <3>2. j \in 1..n /\ n \in 1..n /\ j <= n
      BY <3>1
    <3>3. CASE Stands(f, j) < p
      <4>1. PICK r, k \in j..n : r < k /\ SaysRule(f[r]) /\ SaysAgent(f[k])
        BY <1>2, <3>2, <3>3 DEF Joined
      <4>2. r \in j..i /\ k \in j..i
        BY <2>2
      <4>3. QED
        BY <4>1, <4>2
    <3>4. CASE ~(Stands(f, j) < p)
      <4>1. Stands(f, j) \in Nat /\ Stands(f, j) <= p
        BY <1>6, <1>14, <3>2
      <4>2. Stands(f, j) = p /\ q # p
        BY <1>1, <2>2, <3>4, <4>1
      <4>3. p # 0
        BY <1>2, <3>2, <4>2 DEF InOrder
      <4>4. OpensGroup(a, line)
        BY <1>1, <4>2 DEF a
      <4>5. Saw(f, n) /\ SaysAgent(f[n + 1])
        BY <1>1, <4>3, <4>4 DEF a
      <4>6. PICK r \in 1..n : SaysRule(f[r]) /\ Stands(f, r) = p
        BY <1>12, <4>5
      <4>7. ~SaysAgent(f[r])
        BY <4>6 DEF SaysRule, SaysAgent
      <4>8. r # j
        BY <4>7
      <4>9. ~(r < j)
        <5>1. SUFFICES ASSUME r < j PROVE FALSE
          OBVIOUS
        <5>2. Stands(f, r) < Stands(f, j)
          BY <1>2, <3>2, <4>6, <5>1 DEF Parted
        <5>3. QED
          BY <1>1, <4>2, <4>6, <5>2
      <4>10. r \in j..i /\ n + 1 \in j..i /\ r < n + 1
        BY <2>2, <4>8, <4>9
      <4>11. QED
        BY <4>5, <4>6, <4>10
    <3>5. QED
      BY <3>3, <3>4
  <2>3. QED
    BY <1>5, <2>1, <2>2
<1>20. QED
  BY <1>7, <1>13, <1>16, <1>17, <1>18, <1>19 DEF ReadSoFar, b

\* The account of a whole file.
LEMMA FileIsRead == ASSUME NEW f \in R!Files PROVE ReadSoFar(f, Len(f))
<1> DEFINE Good == {n \in Nat : n <= Len(f) => ReadSoFar(f, n)}
<1>1. Len(f) \in Nat
  BY LinesTyped
<1>2. 0 \in Good
  BY NothingRead
<1>3. ASSUME NEW n \in Nat, n \in Good PROVE n + 1 \in Good
  <2>1. ASSUME n + 1 <= Len(f) PROVE ReadSoFar(f, n + 1)
    <3>1. n <= Len(f)
      BY <1>1, <2>1
    <3>2. ReadSoFar(f, n)
      BY <1>3, <3>1
    <3>3. QED
      BY <2>1, <3>2, LineKeeps
  <2>2. QED
    BY <2>1
<1> HIDE DEF Good
<1>4. Len(f) \in Good
  BY <1>1, <1>2, <1>3, Upward
<1>5. QED
  BY <1>1, <1>4 DEF Good

LEMMA Greatest ==
    ASSUME NEW X, X \subseteq Nat, X # {}, NEW b \in Nat, \A x \in X : x <= b
    PROVE  \E m \in X : \A l \in X : l <= m
<1> DEFINE Gaps == {b - x : x \in X}
<1>1. \A x \in X : x \in Nat /\ b - x \in Nat
  OBVIOUS
<1>2. Gaps \subseteq Nat /\ Gaps # {}
  BY <1>1
<1>3. PICK d \in Gaps : \A l \in Gaps : d <= l
  <2> HIDE DEF Gaps
  <2>1. QED
    BY <1>2, Least
<1>4. PICK m \in X : d = b - m
  BY <1>3
<1>5. ASSUME NEW l \in X PROVE l <= m
  <2>1. b - l \in Gaps
    OBVIOUS
  <2>2. b - m <= b - l /\ l \in Nat /\ m \in Nat
    BY <1>3, <1>4, <2>1
  <2>3. QED
    BY <2>2
<1>6. QED
  BY <1>5

\* A rule is of the group of an agent's line when that line heads it.
LEMMA HeadsItsGroup ==
    ASSUME NEW f \in R!Files, NEW j \in 1..Len(f), NEW i \in 1..Len(f), SaysAgent(f[j]), SaysRule(f[i])
    PROVE  R!Heads(f, j, i) <=> Stands(f, j) = Stands(f, i)
<1>1. Len(f) \in Nat /\ ReadSoFar(f, Len(f))
  BY FileIsRead, LinesTyped
<1>2. InOrder(f, Len(f)) /\ Parted(f, Len(f)) /\ Joined(f, Len(f))
  BY <1>1 DEF ReadSoFar
<1>3. \A k \in 1..Len(f) : k \in 0..Len(f) /\ Stands(f, k) \in Nat
  BY <1>1, <1>2 DEF InOrder
<1>4. \A k : (R!IsRule(f, k) <=> SaysRule(f[k])) /\ (R!IsAgent(f, k) <=> SaysAgent(f[k])) /\ ~(SaysRule(f[k]) /\ SaysAgent(f[k]))
  BY DEF R!IsRule, R!IsAgent, R!RuleFields, SaysRule, SaysAgent
<1>5. ASSUME Stands(f, j) = Stands(f, i) PROVE R!Heads(f, j, i)
  <2>1. ~(i < j)
    BY <1>2, <1>3, <1>5 DEF Parted
  <2>2. i # j
    BY <1>4
  <2>3. ASSUME NEW r \in j..i, NEW k \in j..i, r < k, SaysRule(f[r]), SaysAgent(f[k]) PROVE FALSE
    <3>1. r \in 1..Len(f) /\ k \in 1..Len(f) /\ j <= r /\ k <= i
      BY <1>1
    <3>2. Stands(f, j) <= Stands(f, r) /\ Stands(f, k) <= Stands(f, i)
      BY <1>2, <1>3, <3>1 DEF InOrder
    <3>3. Stands(f, r) < Stands(f, k)
      BY <1>2, <2>3, <3>1 DEF Parted
    <3>4. QED
      BY <1>3, <1>5, <3>1, <3>2, <3>3
  <2>4. QED
    BY <1>4, <2>1, <2>2, <2>3 DEF R!Heads
<1>6. ASSUME R!Heads(f, j, i) PROVE Stands(f, j) = Stands(f, i)
  <2>1. j < i
    BY <1>6 DEF R!Heads
  <2>2. Stands(f, j) <= Stands(f, i)
    BY <1>2, <1>3, <2>1 DEF InOrder
  <2>3. ~(Stands(f, j) < Stands(f, i))
    <3>1. SUFFICES ASSUME Stands(f, j) < Stands(f, i) PROVE FALSE
      OBVIOUS
    <3>2. PICK r, k \in j..i : r < k /\ SaysRule(f[r]) /\ SaysAgent(f[k])
      BY <1>2, <2>1, <3>1 DEF Joined
    <3>3. k # i
      BY <1>4, <3>2
    <3>4. k < i
      BY <3>2, <3>3
    <3>5. QED
      BY <1>4, <1>6, <3>2, <3>4 DEF R!Heads
  <2>4. QED
    BY <1>3, <2>2, <2>3
<1>7. QED
  BY <1>5, <1>6

\* The line that stands for an agent: its first, or the last for all.
Speaking(f) ==
  LET own == R!LinesOf(f, Agent) wild == R!LinesOf(f, "*")
  IN IF own # {} THEN {i \in own : \A j \in own : i <= j} ELSE {i \in wild : \A j \in wild : j <= i}

\* The groups that name an agent are those of the lines that do.
LEMMA NamedByLines ==
    ASSUME NEW f \in R!Files, NEW x
    PROVE  /\ R!LinesOf(f, x) \subseteq 1..Len(f)
           /\ \A j \in R!LinesOf(f, x) : SaysAgent(f[j]) /\ Stands(f, j) \in R!Naming(R!Parse(f), x)
           /\ \A g \in R!Naming(R!Parse(f), x) : \E j \in R!LinesOf(f, x) : Stands(f, j) = g
           /\ R!Naming(R!Parse(f), x) \subseteq 1..Stands(f, Len(f))
           /\ R!Parse(f) \in Seq(Group) /\ Len(R!Parse(f)) = Stands(f, Len(f))
<1> DEFINE n == Len(f)
           gs == R!Parse(f)
<1>1. n \in Nat /\ ReadSoFar(f, n) /\ DOMAIN f = 1..n
  BY FileIsRead, LinesTyped
<1>2. InOrder(f, n) /\ Holds(f, n) /\ R!Reading(f)[n] \in Account
  BY <1>1 DEF ReadSoFar
<1>3. gs = R!Reading(f)[n].groups /\ gs \in Seq(Group) /\ Len(gs) = Stands(f, n) /\ DOMAIN gs = 1..Stands(f, n)
  <2>1. gs = R!Reading(f)[n].groups
    BY DEF R!Parse
  <2>2. R!Reading(f)[n].groups \in Seq(Group)
    BY <1>2 DEF Account
  <2>3. QED
    BY <2>1, <2>2 DEF Stands
<1>4. \A j : j \in R!LinesOf(f, x) <=> j \in 1..n /\ Names(f[j], x)
  BY <1>1 DEF R!LinesOf, R!IsAgent, Names
<1>5. \A g \in 1..Stands(f, n) : x \in gs[g].agents <=> \E i \in 1..n : Stands(f, i) = g /\ Names(f[i], x)
  BY <1>2, <1>3 DEF Holds
<1>6. \A g : g \in R!Naming(gs, x) <=> g \in 1..Stands(f, n) /\ x \in gs[g].agents
  BY <1>3 DEF R!Naming
<1>7. \A j \in 1..n : SaysAgent(f[j]) => Stands(f, j) \in 1..Stands(f, n)
  <2> SUFFICES ASSUME NEW j \in 1..n, SaysAgent(f[j]) PROVE Stands(f, j) \in 1..Stands(f, n)
    OBVIOUS
  <2>1. j \in 0..n /\ n \in 0..n /\ j <= n
    BY <1>1
  <2>2. Stands(f, j) \in Nat /\ Stands(f, n) \in Nat /\ Stands(f, j) # 0 /\ Stands(f, j) <= Stands(f, n)
    BY <1>2, <2>1 DEF InOrder
  <2>3. QED
    BY <2>2
<1>8. \A j : Names(f[j], x) => SaysAgent(f[j])
  BY DEF Names, SaysAgent
<1> HIDE DEF n, gs
<1>9. ASSUME NEW j \in R!LinesOf(f, x) PROVE SaysAgent(f[j]) /\ Stands(f, j) \in R!Naming(gs, x)
  BY <1>4, <1>5, <1>6, <1>7, <1>8
<1>10. ASSUME NEW g \in R!Naming(gs, x) PROVE \E j \in R!LinesOf(f, x) : Stands(f, j) = g
  BY <1>4, <1>5, <1>6
<1>11. QED
  BY <1>3, <1>4, <1>6, <1>9, <1>10 DEF n, gs

\* The group that counts is that of the line that stands for the agent.
LEMMA GroupOfSpeaking ==
    ASSUME NEW f \in R!Files
    PROVE  \/ Speaking(f) = {} /\ R!GroupFor(R!Parse(f), Agent) = {}
           \/ \E j \in 1..Len(f) : /\ Speaking(f) = {j} /\ SaysAgent(f[j]) /\ Stands(f, j) \in 1..Stands(f, Len(f))
                                   /\ R!GroupFor(R!Parse(f), Agent) = {R!Parse(f)[Stands(f, j)]}
<1> DEFINE n == Len(f)
           gs == R!Parse(f)
           own == R!LinesOf(f, Agent)
           wild == R!LinesOf(f, "*")
           mine == R!Naming(gs, Agent)
           all == R!Naming(gs, "*")
<1>1. n \in Nat /\ InOrder(f, n)
  BY FileIsRead, LinesTyped DEF ReadSoFar
<1>2. \A i, j \in 1..n : Stands(f, i) \in Nat /\ (i <= j => Stands(f, i) <= Stands(f, j))
  <2>1. \A i \in 1..n : i \in 0..n
    OBVIOUS
  <2>2. QED
    BY <1>1, <2>1 DEF InOrder
<1>3. /\ own \subseteq 1..n /\ wild \subseteq 1..n
      /\ \A j \in own : SaysAgent(f[j]) /\ Stands(f, j) \in mine
      /\ \A j \in wild : SaysAgent(f[j]) /\ Stands(f, j) \in all
      /\ \A g \in mine : \E j \in own : Stands(f, j) = g
      /\ \A g \in all : \E j \in wild : Stands(f, j) = g
      /\ mine \subseteq 1..Stands(f, n) /\ all \subseteq 1..Stands(f, n)
  BY NamedByLines
<1>4. Speaking(f) = IF own # {} THEN {i \in own : \A j \in own : i <= j} ELSE {i \in wild : \A j \in wild : j <= i}
  BY DEF Speaking
<1>5. R!GroupFor(gs, Agent) = IF mine # {} THEN {gs[CHOOSE i \in mine : \A j \in mine : i <= j]}
                              ELSE {gs[i] : i \in {i \in all : \A j \in all : j <= i}}
  BY DEF R!GroupFor
<1> HIDE DEF n, gs, own, wild, mine, all
<1>6. \A g \in mine \cup all : g \in Nat
  BY <1>3
<1>7. CASE own # {}
  <2>1. PICK j \in own : \A l \in own : j <= l
    <3>1. own \subseteq Nat
      BY <1>1, <1>3
    <3>2. QED
      BY <1>7, <3>1, Least
  <2>2. Speaking(f) = {j}
    <3>1. \A i \in own : (\A l \in own : i <= l) => i = j
      BY <1>1, <1>3, <2>1
    <3>2. QED
      BY <1>4, <1>7, <2>1, <3>1
  <2>3. Stands(f, j) \in mine /\ \A g \in mine : Stands(f, j) <= g
    BY <1>2, <1>3, <2>1
  <2>4. \A i \in mine : (\A g \in mine : i <= g) => i = Stands(f, j)
    BY <1>6, <2>3
  <2>5. (CHOOSE i \in mine : \A g \in mine : i <= g) = Stands(f, j)
    BY <2>3, <2>4
  <2>6. R!GroupFor(gs, Agent) = {gs[Stands(f, j)]}
    BY <1>5, <2>3, <2>5
  <2>7. QED
    BY <1>3, <2>2, <2>3, <2>6 DEF n, gs
<1>8. CASE own = {} /\ wild # {}
  <2>1. PICK j \in wild : \A l \in wild : l <= j
    <3>1. wild \subseteq Nat /\ \A l \in wild : l <= n
      BY <1>1, <1>3
    <3>2. QED
      BY <1>1, <1>8, <3>1, Greatest
  <2>2. Speaking(f) = {j}
    <3>1. \A i \in wild : (\A l \in wild : l <= i) => i = j
      BY <1>1, <1>3, <2>1
    <3>2. QED
      BY <1>4, <1>8, <2>1, <3>1
  <2>3. Stands(f, j) \in all /\ \A g \in all : g <= Stands(f, j)
    BY <1>2, <1>3, <2>1
  <2>4. \A i \in all : (\A g \in all : g <= i) => i = Stands(f, j)
    BY <1>6, <2>3
  <2>5. {i \in all : \A g \in all : g <= i} = {Stands(f, j)}
    BY <2>3, <2>4
  <2>6. mine = {}
    BY <1>3, <1>8
  <2>7. R!GroupFor(gs, Agent) = {gs[Stands(f, j)]}
    BY <1>5, <2>5, <2>6
  <2>8. QED
    BY <1>3, <2>2, <2>3, <2>7 DEF n, gs
<1>9. CASE own = {} /\ wild = {}
  <2>1. mine = {} /\ all = {}
    BY <1>3, <1>9
  <2>2. QED
    BY <1>4, <1>5, <1>9, <2>1 DEF gs
<1>10. QED
  BY <1>7, <1>8, <1>9

\* What a field of the governing lines says.
Speaks(f, field) == {f[i].rule : i \in {i \in R!Governing(f) : f[i].field = field}}

\* Lines with no rule between them head the same rules.
LEMMA SameRun ==
    ASSUME NEW f \in R!Files, NEW j \in 1..Len(f), NEW k \in 1..Len(f), NEW i \in 1..Len(f),
           R!IsAgent(f, j), R!IsAgent(f, k), R!IsRule(f, i), R!Heads(f, j, i),
           ~\E r \in 1..Len(f) : R!IsRule(f, r) /\ ((j < r /\ r < k) \/ (k < r /\ r < j))
    PROVE  R!Heads(f, k, i)
<1>1. Len(f) \in Nat
  BY LinesTyped
<1>2. \A r : ~(R!IsRule(f, r) /\ R!IsAgent(f, r))
  BY DEF R!IsRule, R!IsAgent, R!RuleFields
<1>3. j < i /\ ~\E r, l \in j..i : r < l /\ l < i /\ R!IsRule(f, r) /\ R!IsAgent(f, l)
  BY DEF R!Heads
<1>4. i # k
  BY <1>2
<1>5. k < i
  BY <1>1, <1>3, <1>4
<1>6. ASSUME NEW r \in k..i, NEW l \in k..i, r < l, l < i, R!IsRule(f, r), R!IsAgent(f, l) PROVE FALSE
  <2>1. r # j /\ r \in 1..Len(f)
    BY <1>1, <1>2, <1>6
  <2>2. CASE r < j
    <3>1. r # k
      BY <1>2, <1>6
    <3>2. QED
      BY <1>1, <1>6, <2>1, <2>2, <3>1
  <2>3. CASE j < r
    BY <1>1, <1>3, <1>6, <2>1, <2>3
  <2>4. QED
    BY <1>1, <2>1, <2>2, <2>3
<1>7. QED
  BY <1>5, <1>6 DEF R!Heads

LEMMA GroupIsGoverning ==
    ASSUME NEW f \in R!Files, ~R!Split(f)
    PROVE  \/ R!Governing(f) = {} /\ R!GroupFor(R!Parse(f), Agent) = {}
           \/ \E g \in Group : /\ R!GroupFor(R!Parse(f), Agent) = {g}
                               /\ g.allow = Speaks(f, "allow") /\ g.disallow = Speaks(f, "disallow")
<1>1. R!Governing(f) = {i \in DOMAIN f : R!IsRule(f, i) /\ \E j \in Speaking(f) : R!Heads(f, j, i)}
  <2>1. DOMAIN f = 1..Len(f) /\ Len(f) \in Nat
    BY LinesTyped
  <2>2. R!Addressed(f) \subseteq 1..Len(f) /\ \A j \in R!Addressed(f) : R!IsAgent(f, j)
    BY <2>1 DEF R!Addressed, R!LinesOf
  <2>3. Speaking(f) \subseteq R!Addressed(f)
    BY DEF Speaking, R!Addressed
  <2>4. ASSUME NEW j \in R!Addressed(f) PROVE \E k \in Speaking(f) : TRUE
    <3>1. CASE R!LinesOf(f, Agent) # {}
      <4>1. R!LinesOf(f, Agent) \subseteq Nat
        BY <2>1 DEF R!LinesOf
      <4>2. PICK k \in R!LinesOf(f, Agent) : \A l \in R!LinesOf(f, Agent) : k <= l
        BY <3>1, <4>1, Least
      <4>3. QED
        BY <3>1, <4>2 DEF Speaking
    <3>2. CASE R!LinesOf(f, Agent) = {}
      <4>1. R!LinesOf(f, "*") \subseteq Nat /\ \A l \in R!LinesOf(f, "*") : l <= Len(f)
        BY <2>1 DEF R!LinesOf
      <4>2. R!LinesOf(f, "*") # {}
        BY <2>4, <3>2 DEF R!Addressed
      <4>3. PICK k \in R!LinesOf(f, "*") : \A l \in R!LinesOf(f, "*") : l <= k
        BY <2>1, <4>1, <4>2, Greatest
      <4>4. QED
        BY <3>2, <4>3 DEF Speaking
    <3>3. QED
      BY <3>1, <3>2
  <2>5. ASSUME NEW i \in 1..Len(f), R!IsRule(f, i)
        PROVE  (\E j \in R!Addressed(f) : R!Heads(f, j, i)) <=> (\E j \in Speaking(f) : R!Heads(f, j, i))
    <3>1. ASSUME NEW j \in R!Addressed(f), R!Heads(f, j, i) PROVE \E k \in Speaking(f) : R!Heads(f, k, i)
      <4>1. PICK k \in Speaking(f) : TRUE
        BY <2>4
      <4>2. k \in R!Addressed(f) /\ k \in 1..Len(f) /\ j \in 1..Len(f) /\ R!IsAgent(f, j) /\ R!IsAgent(f, k)
        BY <2>2, <2>3
      <4>3. ~\E r \in 1..Len(f) : R!IsRule(f, r) /\ ((j < r /\ r < k) \/ (k < r /\ r < j))
        BY <2>1, <4>2 DEF R!Split
      <4>4. R!Heads(f, k, i)
        BY <2>5, <3>1, <4>2, <4>3, SameRun
      <4>5. QED
        BY <4>4
    <3>2. QED
      BY <2>3, <3>1
  <2>6. QED
    BY <2>1, <2>5 DEF R!Governing
<1>2. CASE Speaking(f) = {} /\ R!GroupFor(R!Parse(f), Agent) = {}
  BY <1>1, <1>2
<1>3. ASSUME NEW j \in 1..Len(f), Speaking(f) = {j}, SaysAgent(f[j]), Stands(f, j) \in 1..Stands(f, Len(f)),
             R!GroupFor(R!Parse(f), Agent) = {R!Parse(f)[Stands(f, j)]}
      PROVE  \E g \in Group : /\ R!GroupFor(R!Parse(f), Agent) = {g}
                              /\ g.allow = Speaks(f, "allow") /\ g.disallow = Speaks(f, "disallow")
  <2> DEFINE g == R!Parse(f)[Stands(f, j)]
  <2>1. g \in Group
    BY <1>3, NamedByLines
  <2>2. /\ \A x : x \in g.allow <=> \E i \in 1..Len(f) : Stands(f, i) = Stands(f, j) /\ Allows(f[i], x)
        /\ \A x : x \in g.disallow <=> \E i \in 1..Len(f) : Stands(f, i) = Stands(f, j) /\ Forbids(f[i], x)
    <3>1. Holds(f, Len(f)) /\ R!Parse(f) = R!Reading(f)[Len(f)].groups
      BY FileIsRead DEF ReadSoFar, R!Parse
    <3>2. QED
      BY <1>3, <3>1 DEF Holds
  <2>3. \A i : i \in R!Governing(f) <=> i \in 1..Len(f) /\ SaysRule(f[i]) /\ Stands(f, i) = Stands(f, j)
    <3>1. DOMAIN f = 1..Len(f)
      BY LinesTyped
    <3>2. \A i : R!IsRule(f, i) <=> SaysRule(f[i])
      BY DEF R!IsRule, R!RuleFields, SaysRule
    <3>3. \A i \in 1..Len(f) : SaysRule(f[i]) => (R!Heads(f, j, i) <=> Stands(f, j) = Stands(f, i))
      BY <1>3, HeadsItsGroup
    <3>4. QED
      BY <1>1, <1>3, <3>1, <3>2, <3>3
  <2>4. \A x : x \in g.allow <=> x \in Speaks(f, "allow")
    <3>1. \A x : x \in Speaks(f, "allow") <=> \E i \in R!Governing(f) : f[i].field = "allow" /\ f[i].rule = x
      BY DEF Speaks
    <3>2. \A i, x : Allows(f[i], x) <=> f[i].field = "allow" /\ f[i].rule = x
      BY DEF Allows
    <3>3. \A i : f[i].field = "allow" => SaysRule(f[i])
      BY DEF SaysRule
    <3> HIDE DEF g
    <3>4. \A x : x \in g.allow <=> \E i \in 1..Len(f) : Stands(f, i) = Stands(f, j) /\ Allows(f[i], x)
      BY <2>2
    <3>5. ASSUME NEW x PROVE (\E i \in 1..Len(f) : Stands(f, i) = Stands(f, j) /\ Allows(f[i], x))
                             <=> (\E i \in R!Governing(f) : f[i].field = "allow" /\ f[i].rule = x)
      BY <2>3, <3>2, <3>3
    <3>6. QED
      BY <3>1, <3>4, <3>5
  <2>5. \A x : x \in g.disallow <=> x \in Speaks(f, "disallow")
    <3>1. \A x : x \in Speaks(f, "disallow") <=> \E i \in R!Governing(f) : f[i].field = "disallow" /\ f[i].rule = x
      BY DEF Speaks
    <3>2. \A i, x : Forbids(f[i], x) <=> f[i].field = "disallow" /\ f[i].rule = x
      BY DEF Forbids
    <3>3. \A i : f[i].field = "disallow" => SaysRule(f[i])
      BY DEF SaysRule
    <3> HIDE DEF g
    <3>4. \A x : x \in g.disallow <=> \E i \in 1..Len(f) : Stands(f, i) = Stands(f, j) /\ Forbids(f[i], x)
      BY <2>2
    <3>5. ASSUME NEW x PROVE (\E i \in 1..Len(f) : Stands(f, i) = Stands(f, j) /\ Forbids(f[i], x))
                             <=> (\E i \in R!Governing(f) : f[i].field = "disallow" /\ f[i].rule = x)
      BY <2>3, <3>2, <3>3
    <3>6. QED
      BY <3>1, <3>4, <3>5
  <2>6. g.allow = Speaks(f, "allow") /\ g.disallow = Speaks(f, "disallow")
    <3> HIDE DEF g
    <3>1. QED
      BY <2>4, <2>5
  <2>7. QED
    BY <1>3, <2>1, <2>6
<1>4. QED
  BY <1>2, <1>3, GroupOfSpeaking

(* Robots: how a pattern matches.                                             *)

\* The length of a pattern: its parts put together are letters.
LEMMA FlatParts ==
    ASSUME NEW s \in Seq(Seq(Letters)), s # <<>>
    PROVE  R!FlattenSeq(s) \in Seq(Letters) /\ (Len(s) = 1 => R!FlattenSeq(s) = s[1])
<1> DEFINE Flat(m) == \E t : t = [i \in 1..m |-> IF i = 1 THEN s[i] ELSE t[i - 1] \o s[i]]
           Good == {m \in Nat : Flat(m)}
<1>1. Len(s) \in Nat /\ Len(s) # 0 /\ \A i \in 1..Len(s) : s[i] \in Seq(Letters)
  OBVIOUS
<1>2. 0 \in Good
  <2> DEFINE t == [i \in 1..0 |-> s[1]]
  <2>1. t = [i \in 1..0 |-> IF i = 1 THEN s[i] ELSE t[i - 1] \o s[i]]
    OBVIOUS
  <2>2. Flat(0)
    BY <2>1
  <2>3. QED
    BY <2>2
<1>3. ASSUME NEW m \in Nat, m \in Good PROVE m + 1 \in Good
  <2>1. PICK g : g = [i \in 1..m |-> IF i = 1 THEN s[i] ELSE g[i - 1] \o s[i]]
    BY <1>3
  <2> DEFINE t == [i \in 1..m + 1 |-> IF i = m + 1 THEN (IF i = 1 THEN s[i] ELSE g[m] \o s[i]) ELSE g[i]]
  <2>2. ASSUME NEW i \in 1..m + 1 PROVE t[i] = IF i = 1 THEN s[i] ELSE t[i - 1] \o s[i]
    <3>1. CASE i = m + 1
      <4>1. i # 1 => i - 1 = m /\ m \in 1..m + 1 /\ m # m + 1
        BY <3>1
      <4>2. i # 1 => t[i - 1] = g[m]
        BY <4>1
      <4>3. QED
        BY <3>1, <4>2
    <3>2. CASE i # m + 1
      <4>1. i \in 1..m /\ (i # 1 => i - 1 \in 1..m + 1 /\ i - 1 # m + 1)
        BY <3>2
      <4>2. t[i] = g[i] /\ (i # 1 => t[i - 1] = g[i - 1])
        BY <3>2, <4>1
      <4>3. g[i] = IF i = 1 THEN s[i] ELSE g[i - 1] \o s[i]
        BY <2>1, <4>1
      <4>4. QED
        BY <4>2, <4>3
    <3>3. QED
      BY <3>1, <3>2
  <2>3. t = [i \in 1..m + 1 |-> IF i = 1 THEN s[i] ELSE t[i - 1] \o s[i]]
    BY <2>2
  <2> HIDE DEF t
  <2>4. Flat(m + 1)
    BY <2>3
  <2> HIDE DEF Flat
  <2>5. QED
    BY <2>4
<1>4. Flat(Len(s))
  <2> HIDE DEF Good
  <2>1. Len(s) \in Good
    BY <1>1, <1>2, <1>3, Upward
  <2>2. QED
    BY <2>1 DEF Good
<1> DEFINE flat == CHOOSE t : t = [i \in 1..Len(s) |-> IF i = 1 THEN s[i] ELSE t[i - 1] \o s[i]]
<1>5. R!FlattenSeq(s) = flat[Len(s)]
  BY <1>1 DEF R!FlattenSeq
<1>6. flat = [i \in 1..Len(s) |-> IF i = 1 THEN s[i] ELSE flat[i - 1] \o s[i]]
  BY <1>4
<1> HIDE DEF flat
<1>7. \A i \in 1..Len(s) : flat[i] = IF i = 1 THEN s[i] ELSE flat[i - 1] \o s[i]
  BY <1>6
<1> DEFINE Typed == {m \in Nat : m \in 1..Len(s) => flat[m] \in Seq(Letters)}
<1>8. 0 \in Typed
  OBVIOUS
<1>9. ASSUME NEW m \in Nat, m \in Typed PROVE m + 1 \in Typed
  <2>1. ASSUME m + 1 \in 1..Len(s) PROVE flat[m + 1] \in Seq(Letters)
    <3>1. CASE m = 0
      BY <1>1, <1>7, <2>1, <3>1
    <3>2. CASE m # 0
      <4>1. m + 1 # 1 /\ (m + 1) - 1 = m /\ m \in 1..Len(s)
        BY <1>1, <2>1, <3>2
      <4>2. flat[m + 1] = flat[m] \o s[m + 1]
        BY <1>7, <2>1, <4>1
      <4>3. flat[m] \in Seq(Letters) /\ s[m + 1] \in Seq(Letters)
        BY <1>1, <1>9, <2>1, <4>1
      <4>4. QED
        BY <4>2, <4>3
    <3>3. QED
      BY <3>1, <3>2
  <2>2. QED
    BY <2>1
<1> HIDE DEF Typed
<1>10. Len(s) \in Typed
  BY <1>1, <1>8, <1>9, Upward
<1>11. flat[Len(s)] \in Seq(Letters)
  BY <1>1, <1>10 DEF Typed
<1>12. Len(s) = 1 => flat[Len(s)] = s[1]
  BY <1>1, <1>7
<1>13. QED
  BY <1>5, <1>11, <1>12

LEMMA OneLess == ASSUME NEW a \in Nat, NEW b \in Nat, b >= 1, ~(b = 1 /\ a = 0) PROVE a + b - 1 >= 1
OBVIOUS

\* Every pattern has a length, and only the empty one has none.
LEMMA RuleLength ==
    ASSUME NEW r \in R!Pattern
    PROVE  /\ R!RuleLen(r) \in Nat /\ (~R!Empty(r) => R!RuleLen(r) >= 1)
<1> DEFINE parts == r.parts
           flat == R!FlattenSeq(parts)
<1>1. parts \in Seq(Seq(Letters)) /\ parts # <<>> /\ r.anchored \in BOOLEAN
  BY DEF R!Pattern
<1> HIDE DEF parts
<1>2. flat \in Seq(Letters) /\ (Len(parts) = 1 => flat = parts[1])
  BY <1>1, FlatParts
<1> HIDE DEF flat
<1>3. Len(parts) \in Nat /\ Len(parts) >= 1 /\ Len(flat) \in Nat
  BY <1>1, <1>2
<1>4. R!RuleLen(r) = Len(flat) + Len(parts) - 1 + IF r.anchored THEN 1 ELSE 0
  BY DEF R!RuleLen, flat, parts
<1>5. (r.anchored => R!RuleLen(r) = Len(flat) + Len(parts)) /\ (~r.anchored => R!RuleLen(r) = Len(flat) + Len(parts) - 1)
  BY <1>3, <1>4
<1>6. ASSUME ~r.anchored, Len(parts) = 1, Len(flat) = 0 PROVE R!Empty(r)
  <2>1. parts[1] = <<>>
    BY <1>1, <1>2, <1>6
  <2>2. parts = <<<<>>>>
    BY <1>1, <1>6, <2>1
  <2>3. QED
    BY <1>6, <2>2 DEF R!Empty, parts
<1>7. R!RuleLen(r) \in Nat
  BY <1>3, <1>5
<1>8. ASSUME ~R!Empty(r) PROVE R!RuleLen(r) >= 1
  <2>1. CASE r.anchored
    BY <1>3, <1>5, <2>1
  <2>2. CASE ~r.anchored
    <3>1. ~(Len(parts) = 1 /\ Len(flat) = 0)
      BY <1>6, <1>8, <2>2
    <3>2. Len(flat) + Len(parts) - 1 >= 1
      BY <1>3, <3>1, OneLess
    <3>3. QED
      BY <1>5, <2>2, <3>2
  <2>3. QED
    BY <2>1, <2>2
<1>9. QED
  BY <1>7, <1>8

\* Past is what its recursion says.
LEMMA PastUnfolds ==
    ASSUME NEW parts \in Seq(Seq(Letters)), NEW path
    PROVE  R!Past(parts, path) =
             [i \in 0..Len(parts) |-> IF i = 0 THEN 0 ELSE IF R!Past(parts, path)[i - 1] = R!Never THEN R!Never
                                      ELSE R!TakePart(parts, path, i, R!Past(parts, path)[i - 1])]
<1> DEFINE Takes(i, from) == IF from = R!Never THEN R!Never ELSE R!TakePart(parts, path, i, from)
           Goes(m) == \E t : t = [i \in 0..m |-> IF i = 0 THEN 0 ELSE Takes(i, t[i - 1])]
           Good == {m \in Nat : Goes(m)}
<1>1. R!Past(parts, path) = CHOOSE t : t = [i \in 0..Len(parts) |-> IF i = 0 THEN 0 ELSE Takes(i, t[i - 1])]
  BY DEF R!Past
<1> HIDE DEF Takes
<1>2. 0 \in Good
  <2> DEFINE t == [i \in 0..0 |-> 0]
  <2>1. t = [i \in 0..0 |-> IF i = 0 THEN 0 ELSE Takes(i, t[i - 1])]
    OBVIOUS
  <2>2. Goes(0)
    BY <2>1
  <2>3. QED
    BY <2>2
<1>3. ASSUME NEW m \in Nat, m \in Good PROVE m + 1 \in Good
  <2>1. PICK g : g = [i \in 0..m |-> IF i = 0 THEN 0 ELSE Takes(i, g[i - 1])]
    BY <1>3
  <2> DEFINE t == [i \in 0..m + 1 |-> IF i = m + 1 THEN Takes(m + 1, g[m]) ELSE g[i]]
  <2>2. ASSUME NEW i \in 0..m + 1 PROVE t[i] = IF i = 0 THEN 0 ELSE Takes(i, t[i - 1])
    <3>1. CASE i = m + 1
      <4>1. i # 0 /\ i - 1 = m /\ m \in 0..m + 1 /\ m # m + 1
        BY <3>1
      <4>2. t[i] = Takes(m + 1, g[m]) /\ t[m] = g[m]
        BY <3>1, <4>1
      <4>3. QED
        BY <3>1, <4>1, <4>2
    <3>2. CASE i # m + 1
      <4>1. i \in 0..m /\ (i # 0 => i - 1 \in 0..m + 1 /\ i - 1 # m + 1)
        BY <3>2
      <4>2. t[i] = g[i] /\ (i # 0 => t[i - 1] = g[i - 1])
        BY <3>2, <4>1
      <4>3. g[i] = IF i = 0 THEN 0 ELSE Takes(i, g[i - 1])
        BY <2>1, <4>1
      <4>4. QED
        BY <4>2, <4>3
    <3>3. QED
      BY <3>1, <3>2
  <2>3. t = [i \in 0..m + 1 |-> IF i = 0 THEN 0 ELSE Takes(i, t[i - 1])]
    BY <2>2
  <2> HIDE DEF t
  <2>4. Goes(m + 1)
    BY <2>3
  <2>5. QED
    BY <2>4
<1>4. Goes(Len(parts))
  <2>1. Len(parts) \in Nat
    OBVIOUS
  <2> HIDE DEF Good
  <2>2. Len(parts) \in Good
    BY <1>2, <1>3, <2>1, Upward
  <2>3. QED
    BY <2>2 DEF Good
<1>5. R!Past(parts, path) = [i \in 0..Len(parts) |-> IF i = 0 THEN 0 ELSE Takes(i, R!Past(parts, path)[i - 1])]
  BY <1>1, <1>4
<1>6. QED
  BY <1>5 DEF Takes

\* The first m parts lie over a path in order.
Laid(parts, path, laid, m) ==
    /\ laid \in [1..m -> 0..Len(path)] /\ laid[1] = 0
    /\ \A i \in 1..m : R!OccursAt(parts[i], path, laid[i])
    /\ \A i \in 1..m : i # 1 => laid[i - 1] + Len(parts[i - 1]) <= laid[i]

\* Each part is taken where it occurs first: no laying of the parts ends before.
FirstEnd(parts, path, m) ==
    LET past == R!Past(parts, path)[m]
    IN /\ past # R!Never => /\ past \in 0..Len(path)
                            /\ \E laid : Laid(parts, path, laid, m) /\ laid[m] + Len(parts[m]) = past
       /\ \A laid : Laid(parts, path, laid, m) => past # R!Never /\ past <= laid[m] + Len(parts[m])

LEMMA FirstPart ==
    ASSUME NEW parts \in Seq(Seq(Letters)), parts # <<>>, NEW path \in Seq(Letters)
    PROVE  FirstEnd(parts, path, 1)
<1> DEFINE past == R!Past(parts, path)
<1>1. Len(parts) \in Nat /\ 1 \in 0..Len(parts) /\ 0 \in 0..Len(parts) /\ parts[1] \in Seq(Letters) /\ Len(parts[1]) \in Nat
      /\ Len(path) \in Nat
  OBVIOUS
<1>2. past[0] = 0 /\ past[1] = IF past[0] = R!Never THEN R!Never ELSE R!TakePart(parts, path, 1, past[0])
  BY <1>1, PastUnfolds
<1> HIDE DEF past
<1>3. past[1] = IF R!OccursAt(parts[1], path, 0) THEN Len(parts[1]) ELSE R!Never
  BY <1>2 DEF R!Never, R!TakePart
<1>4. Len(parts[1]) # R!Never
  BY <1>1 DEF R!Never
<1>5. ASSUME past[1] # R!Never
      PROVE  past[1] \in 0..Len(path) /\ \E laid : Laid(parts, path, laid, 1) /\ laid[1] + Len(parts[1]) = past[1]
  <2>1. R!OccursAt(parts[1], path, 0) /\ past[1] = Len(parts[1])
    BY <1>3, <1>5
  <2>2. past[1] <= Len(path)
    BY <1>1, <2>1 DEF R!OccursAt
  <2> DEFINE laid == [i \in 1..1 |-> 0]
  <2>3. laid \in [1..1 -> 0..Len(path)] /\ laid[1] = 0
    BY <1>1
  <2>4. \A i \in 1..1 : i = 1
    OBVIOUS
  <2> HIDE DEF laid
  <2>5. Laid(parts, path, laid, 1)
    BY <2>1, <2>3, <2>4 DEF Laid
  <2>6. QED
    BY <1>1, <2>1, <2>2, <2>3, <2>5
<1>6. ASSUME NEW laid, Laid(parts, path, laid, 1) PROVE past[1] # R!Never /\ past[1] <= laid[1] + Len(parts[1])
  <2>1. laid[1] = 0 /\ R!OccursAt(parts[1], path, 0)
    <3>1. 1 \in 1..1
      OBVIOUS
    <3>2. QED
      BY <1>6, <3>1 DEF Laid
  <2>2. QED
    BY <1>1, <1>3, <1>4, <2>1
<1>7. QED
  BY <1>5, <1>6 DEF FirstEnd, past

LEMMA NextPart ==
    ASSUME NEW parts \in Seq(Seq(Letters)), NEW path \in Seq(Letters), NEW m \in Nat, m # 0, m + 1 <= Len(parts),
           FirstEnd(parts, path, m)
    PROVE  FirstEnd(parts, path, m + 1)
<1> DEFINE past == R!Past(parts, path)
           piece == parts[m + 1]
           from == past[m]
           places == {k \in from..Len(path) : R!OccursAt(piece, path, k)}
<1>1. /\ Len(parts) \in Nat /\ m + 1 \in 0..Len(parts) /\ m + 1 # 0 /\ (m + 1) - 1 = m /\ m + 1 # 1
      /\ piece \in Seq(Letters) /\ Len(piece) \in Nat /\ Len(path) \in Nat /\ parts[m] \in Seq(Letters) /\ Len(parts[m]) \in Nat
  OBVIOUS
<1>2. past[m + 1] = IF from = R!Never THEN R!Never ELSE R!TakePart(parts, path, m + 1, from)
  BY <1>1, PastUnfolds
<1>3. R!TakePart(parts, path, m + 1, from) = R!FirstAfter(piece, path, from)
  BY <1>1 DEF R!TakePart
<1>4. R!FirstAfter(piece, path, from) =
        IF places = {} THEN R!Never ELSE Len(piece) + CHOOSE k \in places : \A j \in places : k <= j
  BY DEF R!FirstAfter
<1>5. /\ from # R!Never => /\ from \in 0..Len(path)
                           /\ \E laid : Laid(parts, path, laid, m) /\ laid[m] + Len(parts[m]) = from
      /\ \A laid : Laid(parts, path, laid, m) => from # R!Never /\ from <= laid[m] + Len(parts[m])
  BY DEF FirstEnd
<1> HIDE DEF past, piece, from, places
<1>6. ASSUME from # R!Never, places # {}
      PROVE  \E k \in places : past[m + 1] = Len(piece) + k /\ \A j \in places : k <= j
  <2>1. places \subseteq Nat
    BY <1>5, <1>6 DEF places
  <2>2. \E k \in places : \A j \in places : k <= j
    BY <1>6, <2>1, Least
  <2>3. QED
    BY <1>2, <1>3, <1>4, <1>6, <2>2
<1>7. \A k \in places : k \in from..Len(path) /\ R!OccursAt(piece, path, k)
  BY DEF places
<1>8. ASSUME past[m + 1] # R!Never
      PROVE  past[m + 1] \in 0..Len(path) /\ \E laid : Laid(parts, path, laid, m + 1) /\ laid[m + 1] + Len(piece) = past[m + 1]
  <2>1. from # R!Never /\ places # {}
    BY <1>2, <1>3, <1>4, <1>8
  <2>2. PICK k \in places : past[m + 1] = Len(piece) + k
    BY <1>6, <2>1
  <2>3. from \in Nat /\ k \in Nat /\ from <= k /\ k <= Len(path) /\ R!OccursAt(piece, path, k)
    BY <1>1, <1>5, <1>7, <2>1
  <2>4. k + Len(piece) <= Len(path)
    BY <2>3 DEF R!OccursAt
  <2>5. PICK laid : Laid(parts, path, laid, m) /\ laid[m] + Len(parts[m]) = from
    BY <1>5, <2>1
  <2> DEFINE on == [i \in 1..m + 1 |-> IF i = m + 1 THEN k ELSE laid[i]]
  <2>6. laid \in [1..m -> 0..Len(path)] /\ laid[1] = 0 /\ (\A i \in 1..m : R!OccursAt(parts[i], path, laid[i]))
        /\ \A i \in 1..m : i # 1 => laid[i - 1] + Len(parts[i - 1]) <= laid[i]
    BY <2>5 DEF Laid
  <2>7. \A i \in 1..m + 1 : (i = m + 1 \/ i \in 1..m) /\ (i # 1 => i - 1 \in 1..m)
    OBVIOUS
  <2>8. \A i \in 1..m : i \in 1..m + 1 /\ i # m + 1
    OBVIOUS
  <2>9. (\A i \in 1..m : on[i] = laid[i]) /\ on[m + 1] = k
    BY <2>8
  <2>10. on \in [1..m + 1 -> 0..Len(path)]
    BY <2>3, <2>6, <2>7
  <2> HIDE DEF on
  <2>11. on[1] = 0 /\ 1 \in 1..m /\ m \in 1..m
    BY <2>6, <2>9
  <2>12. \A i \in 1..m + 1 : R!OccursAt(parts[i], path, on[i])
    BY <2>3, <2>6, <2>7, <2>9 DEF piece
  <2>13. ASSUME NEW i \in 1..m + 1, i # 1 PROVE on[i - 1] + Len(parts[i - 1]) <= on[i]
    <3>1. i - 1 \in 1..m /\ on[i - 1] = laid[i - 1]
      BY <2>7, <2>9, <2>13
    <3>2. CASE i = m + 1
      <4>1. i - 1 = m
        BY <3>2
      <4>2. on[i - 1] + Len(parts[i - 1]) = from
        BY <2>5, <3>1, <4>1
      <4>3. QED
        BY <2>3, <2>9, <3>2, <4>2
    <3>3. CASE i \in 1..m
      BY <2>6, <2>9, <2>13, <3>1, <3>3
    <3>4. QED
      BY <2>7, <3>2, <3>3
  <2>14. Laid(parts, path, on, m + 1)
    BY <2>10, <2>11, <2>12, <2>13 DEF Laid
  <2>15. on[m + 1] + Len(piece) = past[m + 1] /\ past[m + 1] \in 0..Len(path)
    BY <1>1, <2>2, <2>3, <2>4, <2>9
  <2>16. QED
    BY <2>14, <2>15
<1>9. ASSUME NEW on, Laid(parts, path, on, m + 1)
      PROVE  past[m + 1] # R!Never /\ past[m + 1] <= on[m + 1] + Len(piece)
  <2> DEFINE laid == [i \in 1..m |-> on[i]]
  <2>1. /\ on \in [1..m + 1 -> 0..Len(path)] /\ on[1] = 0
        /\ \A i \in 1..m + 1 : R!OccursAt(parts[i], path, on[i])
        /\ \A i \in 1..m + 1 : i # 1 => on[i - 1] + Len(parts[i - 1]) <= on[i]
    BY <1>9 DEF Laid
  <2>2. /\ \A i \in 1..m : i \in 1..m + 1 /\ (i # 1 => i - 1 \in 1..m)
        /\ 1 \in 1..m /\ m \in 1..m /\ m + 1 \in 1..m + 1
    OBVIOUS
  <2>3. \A i \in 1..m : laid[i] = on[i]
    OBVIOUS
  <2>4. laid \in [1..m -> 0..Len(path)]
    BY <2>1, <2>2
  <2> HIDE DEF laid
  <2>5. Laid(parts, path, laid, m)
    BY <2>1, <2>2, <2>3, <2>4 DEF Laid
  <2>6. from # R!Never /\ from <= on[m] + Len(parts[m])
    BY <1>5, <2>2, <2>3, <2>5
  <2>7. on[m] + Len(parts[m]) <= on[m + 1] /\ R!OccursAt(piece, path, on[m + 1])
    BY <1>1, <2>1, <2>2 DEF piece
  <2>8. from \in Nat /\ on[m] \in Nat /\ on[m + 1] \in 0..Len(path)
    BY <1>5, <2>1, <2>2, <2>6
  <2>9. on[m + 1] \in from..Len(path)
    BY <1>1, <2>6, <2>7, <2>8
  <2>10. on[m + 1] \in places
    BY <2>7, <2>9 DEF places
  <2>11. PICK k \in places : past[m + 1] = Len(piece) + k /\ \A j \in places : k <= j
    BY <1>6, <2>6, <2>10
  <2>12. k \in Nat /\ k <= on[m + 1]
    BY <1>7, <2>8, <2>10, <2>11
  <2>13. QED
    BY <1>1, <2>8, <2>11, <2>12 DEF R!Never
<1>10. QED
  BY <1>8, <1>9 DEF FirstEnd, past, piece

LEMMA EveryPart ==
    ASSUME NEW parts \in Seq(Seq(Letters)), parts # <<>>, NEW path \in Seq(Letters), NEW m \in 1..Len(parts)
    PROVE  FirstEnd(parts, path, m)
<1> DEFINE Good == {i \in Nat : i \in 1..Len(parts) => FirstEnd(parts, path, i)}
<1>1. 0 \in Good
  OBVIOUS
<1>2. ASSUME NEW i \in Nat, i \in Good PROVE i + 1 \in Good
  <2>1. ASSUME i + 1 \in 1..Len(parts) PROVE FirstEnd(parts, path, i + 1)
    <3>1. CASE i = 0
      BY <3>1, FirstPart
    <3>2. CASE i # 0
      <4>1. i \in 1..Len(parts) /\ i + 1 <= Len(parts)
        BY <2>1, <3>2
      <4>2. QED
        BY <1>2, <3>2, <4>1, NextPart
    <3>3. QED
      BY <3>1, <3>2
  <2>2. QED
    BY <2>1
<1> HIDE DEF Good
<1>3. m \in Nat
  OBVIOUS
<1>4. m \in Good
  BY <1>1, <1>2, <1>3, Upward
<1>5. QED
  BY <1>4 DEF Good

\* A pattern matches where its parts can be laid, unless a $ stands behind a star.
LEMMA MatchIsLaid ==
    ASSUME NEW r \in R!Pattern, NEW path \in Seq(Letters), ~(r.anchored /\ Len(r.parts) > 1)
    PROVE  R!MatchPattern(r, path) <=> R!Matches(r, path)
<1> DEFINE parts == r.parts
           n == Len(parts)
           end == R!Past(parts, path)[n]
           AtEnd(laid) == r.anchored => laid[n] + Len(parts[n]) = Len(path)
<1>1. /\ parts \in Seq(Seq(Letters)) /\ parts # <<>> /\ n \in Nat /\ n # 0 /\ n \in 1..n /\ DOMAIN parts = 1..n
      /\ parts[n] \in Seq(Letters) /\ Len(parts[n]) \in Nat /\ Len(path) \in Nat
  BY DEF R!Pattern
<1>2. R!MatchPattern(r, path) <=> end # R!Never /\ (r.anchored => end = Len(path) \/ (n > 1 /\ R!Last(parts) = <<>>))
  BY DEF R!MatchPattern, R!Reach
<1>3. R!Matches(r, path) <=> \E laid : Laid(parts, path, laid, n) /\ AtEnd(laid)
  <2>1. R!Matches(r, path) <=> \E laid \in [1..n -> 0..Len(path)] :
          /\ laid[1] = 0 /\ \A i \in DOMAIN laid : R!OccursAt(parts[i], path, laid[i])
          /\ \A i \in DOMAIN laid \ {1} : laid[i - 1] + Len(parts[i - 1]) <= laid[i]
          /\ r.anchored => laid[n] + Len(parts[n]) = Len(path)
    BY <1>1 DEF R!Matches, R!Last
  <2> HIDE DEF parts, n
  <2>2. ASSUME NEW laid \in [1..n -> 0..Len(path)]
        PROVE  Laid(parts, path, laid, n) <=> /\ laid[1] = 0 /\ \A i \in DOMAIN laid : R!OccursAt(parts[i], path, laid[i])
                                            /\ \A i \in DOMAIN laid \ {1} : laid[i - 1] + Len(parts[i - 1]) <= laid[i]
    BY DEF Laid
  <2>3. \A laid : Laid(parts, path, laid, n) => laid \in [1..n -> 0..Len(path)]
    BY DEF Laid
  <2>4. QED
    BY <2>1, <2>2, <2>3
<1>4. FirstEnd(parts, path, n)
  BY <1>1, EveryPart
<1>5. /\ end # R!Never => \E laid : Laid(parts, path, laid, n) /\ laid[n] + Len(parts[n]) = end
      /\ \A laid : Laid(parts, path, laid, n) => end # R!Never
  BY <1>4 DEF FirstEnd
<1>6. ASSUME r.anchored PROVE n = 1
  <2>1. ~(n > 1)
    BY <1>6
  <2>2. n \in Nat /\ n # 0
    BY <1>1
  <2> HIDE DEF n
  <2>3. QED
    BY <2>1, <2>2
<1>7. \A laid : Laid(parts, path, laid, n) /\ n = 1 => laid[n] = 0
  BY DEF Laid
<1> HIDE DEF parts, n, end
<1>8. ASSUME R!MatchPattern(r, path) PROVE R!Matches(r, path)
  <2>1. PICK laid : Laid(parts, path, laid, n) /\ laid[n] + Len(parts[n]) = end
    BY <1>2, <1>5, <1>8
  <2>2. r.anchored => end = Len(path)
    BY <1>2, <1>6, <1>8
  <2>3. QED
    BY <1>3, <2>1, <2>2
<1>9. ASSUME R!Matches(r, path) PROVE R!MatchPattern(r, path)
  <2>1. PICK laid : Laid(parts, path, laid, n) /\ AtEnd(laid)
    BY <1>3, <1>9
  <2>2. end # R!Never
    BY <1>5, <2>1
  <2>3. ASSUME r.anchored PROVE end = Len(path)
    <3>1. PICK on : Laid(parts, path, on, n) /\ on[n] + Len(parts[n]) = end
      BY <1>5, <2>2
    <3>2. laid[n] = 0 /\ on[n] = 0
      BY <1>6, <1>7, <2>1, <2>3, <3>1
    <3>3. QED
      BY <2>1, <2>3, <3>1, <3>2
  <2>4. QED
    BY <1>2, <2>2, <2>3
<1>10. QED
  BY <1>8, <1>9

(* Robots: what a file allows.                                                *)

\* The longest of some rules that match: none is longer, and it is one of them.
LEMMA Longest ==
    ASSUME NEW ruleSet \in SUBSET R!Pattern, NEW path, NEW b \in Nat, \A r \in ruleSet : R!RuleLen(r) <= b
    PROVE  LET hits == {s \in ruleSet : ~R!Empty(s) /\ R!MatchPattern(s, path)}
               longest == R!LongestMatch(ruleSet, path)
           IN /\ longest \in Nat \cup {R!Never}
              /\ \A s \in hits : R!RuleLen(s) <= longest
              /\ longest >= 1 => \E s \in hits : R!RuleLen(s) = longest
<1> DEFINE hits == {s \in ruleSet : ~R!Empty(s) /\ R!MatchPattern(s, path)}
           lengths == {R!RuleLen(r) : r \in hits} \cup {0 : r \in {s \in ruleSet : R!Empty(s)}}
           longest == R!LongestMatch(ruleSet, path)
<1>1. \A r \in ruleSet : R!RuleLen(r) \in Nat
  BY RuleLength
<1>2. longest = IF lengths = {} THEN R!Never ELSE CHOOSE n \in lengths : \A m \in lengths : m <= n
  BY DEF R!LongestMatch
<1>3. lengths \subseteq Nat /\ \A n \in lengths : n <= b
  <2> SUFFICES ASSUME NEW n \in lengths PROVE n \in Nat /\ n <= b
    OBVIOUS
  <2>1. CASE n = 0
    BY <2>1
  <2>2. CASE n # 0
    <3>1. PICK r \in hits : n = R!RuleLen(r)
      BY <2>2
    <3>2. QED
      BY <1>1, <3>1
  <2>3. QED
    BY <2>1, <2>2
<1>4. /\ \A s \in hits : R!RuleLen(s) \in lengths
      /\ \A n \in lengths : n = 0 \/ \E s \in hits : R!RuleLen(s) = n
  OBVIOUS
<1> HIDE DEF hits, lengths, longest
<1>5. CASE lengths = {}
  BY <1>2, <1>4, <1>5 DEF R!Never, hits, longest
<1>6. CASE lengths # {}
  <2>1. \E n \in lengths : \A m \in lengths : m <= n
    BY <1>3, <1>6, Greatest
  <2>2. longest \in lengths /\ \A m \in lengths : m <= longest
    BY <1>2, <1>6, <2>1
  <2>3. longest \in Nat
    BY <1>3, <2>2
  <2>4. \A s \in hits : R!RuleLen(s) <= longest
    BY <1>4, <2>2
  <2>5. longest >= 1 => \E s \in hits : R!RuleLen(s) = longest
    BY <1>4, <2>2, <2>3
  <2>6. QED
    BY <2>3, <2>4, <2>5 DEF hits, longest
<1>7. QED
  BY <1>5, <1>6

LEMMA RulesBounded ==
    ASSUME NEW f \in R!Files
    PROVE  \E b \in Nat : \A i \in 1..Len(f) : R!RuleLen(f[i].rule) <= b
<1> DEFINE Bound(n, b) == \A i \in 1..n : i <= Len(f) => R!RuleLen(f[i].rule) <= b
           Good == {n \in Nat : \E b \in Nat : Bound(n, b)}
<1>1. Len(f) \in Nat /\ \A i \in 1..Len(f) : R!RuleLen(f[i].rule) \in Nat
  BY LinesTyped, RuleLength DEF FileLine
<1>2. 0 \in Good
  <2>1. Bound(0, 0)
    OBVIOUS
  <2> HIDE DEF Bound
  <2>2. QED
    BY <2>1
<1>3. ASSUME NEW n \in Nat, n \in Good PROVE n + 1 \in Good
  <2>1. PICK b \in Nat : Bound(n, b)
    BY <1>3
  <2>2. \A i \in 1..n + 1 : i \in 1..n \/ i = n + 1
    OBVIOUS
  <2>3. CASE n + 1 <= Len(f)
    <3> DEFINE len == R!RuleLen(f[n + 1].rule)
    <3>1. len \in Nat /\ b + len \in Nat /\ b <= b + len /\ len <= b + len
      <4>1. len \in Nat
        BY <1>1, <2>3
      <4> HIDE DEF len
      <4>2. QED
        BY <4>1
    <3>2. ASSUME NEW i \in 1..n + 1, i <= Len(f) PROVE R!RuleLen(f[i].rule) <= b + len
      <4>1. CASE i = n + 1
        BY <3>1, <4>1
      <4>2. CASE i \in 1..n
        <5>1. R!RuleLen(f[i].rule) <= b /\ R!RuleLen(f[i].rule) \in Nat
          BY <1>1, <2>1, <3>2, <4>2
        <5> HIDE DEF len
        <5>2. QED
          BY <3>1, <5>1
      <4>3. QED
        BY <2>2, <4>1, <4>2
    <3>3. Bound(n + 1, b + len)
      BY <3>2
    <3> HIDE DEF Bound, len
    <3>4. QED
      BY <3>1, <3>3
  <2>4. CASE ~(n + 1 <= Len(f))
    <3>1. Bound(n + 1, b)
      BY <1>1, <2>1, <2>2, <2>4
    <3> HIDE DEF Bound
    <3>2. QED
      BY <3>1
  <2>5. QED
    BY <2>3, <2>4
<1> HIDE DEF Good
<1>4. Len(f) \in Good
  BY <1>1, <1>2, <1>3, Upward
<1>5. PICK b \in Nat : Bound(Len(f), b)
  BY <1>4 DEF Good
<1>6. \A i \in 1..Len(f) : R!RuleLen(f[i].rule) <= b
  BY <1>1, <1>5
<1>7. QED
  BY <1>6

LEMMA FileMeans ==
    ASSUME NEW f \in R!Files, NEW path \in Seq(Letters), ~R!Greedy(f), ~R!Split(f)
    PROVE  R!Allowed(f, path) <=> R!Means(f, path)
<1> DEFINE Hit(field) == {s \in Speaks(f, field) : ~R!Empty(s) /\ R!Matches(s, path)}
<1>1. R!Means(f, path) <=> \A d \in Hit("disallow") : \E a \in Hit("allow") : R!RuleLen(a) >= R!RuleLen(d)
  <2> DEFINE hit(field) == {f[i].rule : i \in {i \in R!Governing(f) : f[i].field = field /\ ~R!Empty(f[i].rule) /\ R!Matches(f[i].rule, path)}}
  <2>1. R!Means(f, path) <=> \A d \in hit("disallow") : \E a \in hit("allow") : R!RuleLen(a) >= R!RuleLen(d)
    BY DEF R!Means
  <2>2. ASSUME NEW field PROVE hit(field) = Hit(field)
    <3>1. \A s : s \in Speaks(f, field) <=> \E i \in R!Governing(f) : f[i].field = field /\ f[i].rule = s
      BY DEF Speaks
    <3>2. \A s : s \in hit(field) <=> s \in Hit(field)
      BY <3>1
    <3> HIDE DEF hit, Hit
    <3>3. QED
      BY <3>2
  <2>3. hit("disallow") = Hit("disallow") /\ hit("allow") = Hit("allow")
    BY <2>2
  <2> HIDE DEF hit, Hit
  <2>4. QED
    BY <2>1, <2>3
<1>2. CASE R!Governing(f) = {} /\ R!GroupFor(R!Parse(f), Agent) = {}
  <2>1. R!Allowed(f, path)
    BY <1>2 DEF R!Allowed
  <2>2. Hit("disallow") = {}
    BY <1>2 DEF Speaks
  <2>3. QED
    BY <1>1, <2>1, <2>2
<1>3. ASSUME NEW g \in Group, R!GroupFor(R!Parse(f), Agent) = {g}, g.allow = Speaks(f, "allow"), g.disallow = Speaks(f, "disallow")
      PROVE  R!Allowed(f, path) <=> R!Means(f, path)
  <2> DEFINE a == R!LongestMatch(g.allow, path)
             d == R!LongestMatch(g.disallow, path)
  <2>1. R!Allowed(f, path) <=> d <= 0 \/ a >= d
    BY <1>3 DEF R!Allowed, R!Outweighs
  <2>2. g.allow \in SUBSET R!Pattern /\ g.disallow \in SUBSET R!Pattern
    BY DEF Group
  <2>3. \A s \in g.allow \cup g.disallow : \E i \in 1..Len(f) : s = f[i].rule
    <3>1. R!Governing(f) \subseteq 1..Len(f)
      BY LinesTyped DEF R!Governing
    <3>2. QED
      BY <1>3, <3>1 DEF Speaks
  <2>4. PICK b \in Nat : \A i \in 1..Len(f) : R!RuleLen(f[i].rule) <= b
    BY RulesBounded
  <2>5. ASSUME NEW s \in g.allow \cup g.disallow
        PROVE  /\ R!RuleLen(s) <= b /\ R!RuleLen(s) \in Nat /\ (~R!Empty(s) => R!RuleLen(s) >= 1)
               /\ R!MatchPattern(s, path) <=> R!Matches(s, path)
    <3>1. PICK i \in 1..Len(f) : s = f[i].rule
      BY <2>3
    <3>2. s \in R!Pattern /\ i \in DOMAIN f
      BY <2>2, LinesTyped
    <3>3. ~(s.anchored /\ Len(s.parts) > 1)
      BY <3>1, <3>2 DEF R!Greedy
    <3>4. QED
      BY <2>4, <3>1, <3>2, <3>3, MatchIsLaid, RuleLength
  <2>6. /\ \A s : s \in Hit("allow") <=> s \in g.allow /\ ~R!Empty(s) /\ R!MatchPattern(s, path)
        /\ \A s : s \in Hit("disallow") <=> s \in g.disallow /\ ~R!Empty(s) /\ R!MatchPattern(s, path)
    BY <1>3, <2>5
  <2>7. /\ a \in Nat \cup {R!Never}
        /\ \A s \in Hit("allow") : R!RuleLen(s) <= a
        /\ a >= 1 => \E s \in Hit("allow") : R!RuleLen(s) = a
    <3>1. \A s \in g.allow : R!RuleLen(s) <= b
      BY <2>5
    <3> HIDE DEF Hit
    <3>2. {s \in g.allow : ~R!Empty(s) /\ R!MatchPattern(s, path)} = Hit("allow")
      BY <2>6
    <3>3. QED
      BY <2>2, <3>1, <3>2, Longest
  <2>8. /\ d \in Nat \cup {R!Never}
        /\ \A s \in Hit("disallow") : R!RuleLen(s) <= d
        /\ d >= 1 => \E s \in Hit("disallow") : R!RuleLen(s) = d
    <3>1. \A s \in g.disallow : R!RuleLen(s) <= b
      BY <2>5
    <3> HIDE DEF Hit
    <3>2. {s \in g.disallow : ~R!Empty(s) /\ R!MatchPattern(s, path)} = Hit("disallow")
      BY <2>6
    <3>3. QED
      BY <2>2, <3>1, <3>2, Longest
  <2>9. /\ \A s \in Hit("allow") \cup Hit("disallow") : R!RuleLen(s) \in Nat
        /\ \A s \in Hit("disallow") : R!RuleLen(s) >= 1
    BY <1>3, <2>5
  <2> HIDE DEF Hit, a, d
  <2>10. (d <= 0 \/ a >= d) <=> \A s \in Hit("disallow") : \E r \in Hit("allow") : R!RuleLen(r) >= R!RuleLen(s)
    BY <2>7, <2>8, <2>9 DEF R!Never
  <2>11. QED
    BY <1>1, <2>1, <2>10
<1>4. QED
  BY <1>2, <1>3, GroupIsGoverning

-----------------------------------------------------------------------------
(* The sum of the machines.                                                   *)

FileInv == now = 0 /\ \E f \in RobotsFiles : served = [t \in 0..0 |-> [ok |-> TRUE, file |-> f]]

SumInv == /\ part = "capture" => CaptureInv
          /\ part = "consent" => ConsentInv
          /\ part = "bodies" => LedgerInv
          /\ part = "robots" => CacheInv
          /\ part = "file" => FileInv

\* A file that was read says what it means.
LEMMA FilePromise == FileInv => R!FileIsFollowed
<1> SUFFICES ASSUME FileInv PROVE R!FileIsFollowed
  OBVIOUS
<1>1. PICK f \in RobotsFiles : served = [t \in 0..0 |-> [ok |-> TRUE, file |-> f]]
  BY DEF FileInv
<1>2. served[0].file = f
  BY <1>1
<1>3. f \in R!Files /\ Paths \subseteq Seq(Letters)
  BY SessionAssumption DEF R!RobotsAssumption
<1>4. \A p \in Paths : ~R!Greedy(f) /\ ~R!Split(f) => (R!Allowed(f, p) <=> R!Means(f, p))
  BY <1>3, FileMeans
<1>5. QED
  BY <1>2, <1>4 DEF R!FileIsFollowed

LEMMA SumStart == Init => SumInv
BY CaptureStart, ConsentStart, LedgerStart, CacheStart DEF Init, SumInv, ReadsFile, FileInv

\* A step is of the machine of its behaviour, which takes it or stutters; a file that was
\* read stays as it is.
LEMMA SumStep ==
    ASSUME [Next]_vars
    PROVE  /\ part' = part
           /\ part = "capture" => C!Next \/ UNCHANGED C!vars
           /\ part = "consent" => H!Next \/ UNCHANGED H!vars
           /\ part = "bodies" => [B!Next]_B!vars
           /\ part = "robots" => [R!Next]_R!vars
           /\ part = "file" => UNCHANGED <<now, served>>
<1>1. CASE Next
  BY <1>1 DEF Next
<1>2. CASE UNCHANGED vars
  <2>1. UNCHANGED <<part, now>> /\ UNCHANGED captureVars /\ UNCHANGED consentVars /\ UNCHANGED ledgerVars
        /\ UNCHANGED robotsVars
    BY <1>2 DEF vars
  <2>2. UNCHANGED C!vars
    BY <2>1 DEF captureVars, C!vars, C!recorder, C!session
  <2>3. UNCHANGED H!vars
    BY <2>1 DEF consentVars, H!vars, H!page, H!seen, H!handler
  <2>4. UNCHANGED B!vars
    BY <2>1 DEF ledgerVars, B!vars
  <2>5. UNCHANGED R!vars /\ UNCHANGED served
    BY <2>1 DEF robotsVars, R!vars
  <2>6. QED
    BY <2>1, <2>2, <2>3, <2>4, <2>5
<1>3. QED
  BY <1>1, <1>2

LEMMA SumKeeps == ASSUME SumInv, [Next]_vars PROVE SumInv'
<1>1. part' = part
  BY SumStep
<1>2. (part = "capture" => CaptureInv)'
  BY <1>1, SumStep, CaptureStep DEF SumInv
<1>3. (part = "consent" => ConsentInv)'
  BY <1>1, SumStep, ConsentStep DEF SumInv
<1>4. (part = "bodies" => LedgerInv)'
  BY <1>1, SumStep, LedgerStep DEF SumInv
<1>5. (part = "robots" => CacheInv)'
  BY <1>1, SumStep, CacheStep DEF SumInv
<1>6. (part = "file" => FileInv)'
  BY <1>1, SumStep DEF SumInv, FileInv
<1>7. QED
  BY <1>2, <1>3, <1>4, <1>5, <1>6 DEF SumInv

LEMMA SumHolds == Spec => []SumInv
BY SumStart, SumKeeps, PTL DEF Spec

\* Whatever the events of the browser, the reads of the pool and the end of the scan
\* interleave to, the count of requests in flight is that of the records, a scan called
\* idle left a quiet network, every body of the result is there or is said why not, and
\* nothing the interaction caused counts as traffic from before it (recorder, settle,
\* finishBodies, finish).
THEOREM ScansAreHonest == Spec => []CaptureIsHonest
<1>1. SumInv => CaptureIsHonest
  BY CapturePromise DEF SumInv, CaptureIsHonest
<1>2. QED
  BY <1>1, SumHolds, PTL

\* Whatever looks fail, whenever the page reacts and the budget ends: "applied" was earned,
\* "not needed" is said of no page that was touched, and the phase ended before the page
\* was (Apply, applyRules, runRule).
THEOREM OutcomesAreEarned == Spec => []ConsentIsHonest
<1>1. SumInv => ConsentIsHonest
  BY ConsentPromise DEF SumInv, ConsentIsHonest
<1>2. QED
  BY <1>1, SumHolds, PTL

\* However scans of a series, retries, the clock and a rebuild of the index interleave, one
\* success settles an observation, a retry keeps its place, and no two scans claim the
\* same (decideBodies, ClaimObservation, SettleObservation).
THEOREM SamplesAreKept == Spec => LedgerIsTrue
<1>1. ASSUME SumInv, SumInv', [Next]_vars
      PROVE  [part = "bodies" => (B!TypeOK /\ B!OutcomeIsTrue /\ B!RetryKeepsItsPlace)' /\ B!ClaimsUnderLock]_vars
  <2> SUFFICES ASSUME part = "bodies" PROVE (B!TypeOK /\ B!OutcomeIsTrue /\ B!RetryKeepsItsPlace)' /\ B!ClaimsUnderLock
    OBVIOUS
  <2>1. [B!Next]_B!vars /\ part' = part
    BY <1>1, SumStep
  <2>2. LedgerInv' /\ B!ClaimsUnderLock
    BY <1>1, <2>1, LedgerStep DEF SumInv
  <2>3. (B!TypeOK /\ B!OutcomeIsTrue /\ B!RetryKeepsItsPlace)'
    BY <2>2, LedgerPromise, PTL
  <2>4. QED
    BY <2>2, <2>3
<1>2. QED
  BY <1>1, SumHolds, PTL DEF Spec, LedgerIsTrue

\* A file is read as the convention has it, whatever its lines, its length and the path
\* asked for (Parse, groupFor, matchPattern, Allowed); and a decision stands on what the
\* site said no longer ago than the TTL and one fetch, however many scans ask at once and
\* whichever fetch breaks off (rulesFor).
THEOREM RobotsFollowed == Spec => []RobotsAreFollowed
<1>1. SumInv => RobotsAreFollowed
  BY FilePromise, CachePromise DEF SumInv, RobotsAreFollowed
<1>2. QED
  BY <1>1, SumHolds, PTL
================================================================================
