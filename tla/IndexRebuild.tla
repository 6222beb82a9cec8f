------------------------------ MODULE IndexRebuild ------------------------------
(***************************************************************************)
(* wsaw store rebuild-index (internal/store: rebuild.go, rebuildsql.go,    *)
(* rebuildmarker.go), beside what changes an index or a bucket: scans that *)
(* are stored, results that expire, and sweeps.  A rebuild merges what the *)
(* stored documents say into the index; a marker in the bucket keeps       *)
(* sweeps away from the evidence it has not reached.  A verification walks *)
(* the same way and writes nothing.  Each may be stopped or killed.        *)
(*                                                                         *)
(* An artifact stands for a scan's document and the evidence it names, and *)
(* is older than the grace of a sweep unless a running scan holds it.      *)
(***************************************************************************)
EXTENDS Naturals, FiniteSets

CONSTANTS Scans     \* numbered in the order the bucket lists their documents

VARIABLES
    object,     \* [Scans -> {"absent", "good", "damaged", "newer"}]: the stored document
    row,        \* [Scans -> {"none", "stale", "full", "other"}]: the index entry; "other"
                \* names a different document
    refs,       \* scans with a reference row
    held,       \* scans whose artifacts a running scan holds
    marker,     \* [own, left]: that of the run, "absent", "fresh", or "aged", which is older
                \* than rebuildMarkerTTL; and that of a run that could not clear it, while it counts
    rebuild,    \* [at, mode, todo, doc]
    report,     \* [drift, unjudged]: what the run has to say of which scans
    sweep,      \* [at, todo, forced]
    early,      \* history: the sweep was under way before the rebuild left its marker
    changed     \* history: scans stored, expired or collected since the run began

vars == <<object, row, refs, held, marker, rebuild, report, sweep, early, changed>>
indexVars == <<row, refs>>

Walking == {"list", "read", "judge", "prunedRow", "evidence", "merge", "write"}
TypeOK ==
    /\ object \in [Scans -> {"absent", "good", "damaged", "newer"}]
    /\ row \in [Scans -> {"none", "stale", "full", "other"}]
    /\ {refs, held, changed} \subseteq SUBSET Scans /\ early \in BOOLEAN
    /\ marker \in [own : {"absent", "fresh", "aged"}, left : {"absent", "fresh"}]
    /\ rebuild \in [at : Walking \cup {"off", "survey", "clear", "orphans"},
                    mode : {"apply", "verify"}, todo : SUBSET Scans, doc : SUBSET Scans]
    /\ report \in [drift : SUBSET Scans, unjudged : SUBSET Scans]
    /\ sweep \in [at : {"off", "walk"}, todo : SUBSET Scans, forced : BOOLEAN]
    /\ \A s \in Scans : row[s] # "none" => s \in refs
    /\ rebuild.at \in Walking \ {"list"} <=> rebuild.doc # {}

Present(s) == object[s] # "absent"
\* A document of a later schema than this build's.
IsNewer(s) == object[s] = "newer"
IndexIsEmpty == refs = {} /\ held = {}
Off == [at |-> "off", mode |-> "apply", todo |-> {}, doc |-> {}]
NoSweep == [at |-> "off", todo |-> {}, forced |-> FALSE]
NoReport == [drift |-> {}, unjudged |-> {}]

\* Any state a loss, an old backup or an old or newer build can leave behind.
Init ==
    /\ object \in [Scans -> {"absent", "good", "damaged", "newer"}]
    /\ row \in [Scans -> {"none", "stale", "full", "other"}]
    /\ refs \in SUBSET Scans /\ \A s \in Scans : row[s] # "none" => s \in refs
    /\ held = {} /\ marker = [own |-> "absent", left |-> "absent"] /\ rebuild = Off /\ report = NoReport
    /\ sweep = NoSweep
    /\ early = FALSE /\ changed = {}

-----------------------------------------------------------------------------
(* What else goes on in the store                                            *)

Changes(s) == changed' = IF rebuild.at = "off" THEN {} ELSE changed \cup {s}

\* A scan stores its artifacts under a claim, then its row.
StoreDocument(s) ==
    /\ ~Present(s) /\ row[s] = "none" /\ s \notin refs
    /\ object' = [object EXCEPT ![s] = "good"] /\ held' = held \cup {s}
    /\ Changes(s)
    /\ UNCHANGED <<indexVars, marker, rebuild, report, sweep, early>>

PutResult(s) ==
    /\ s \in held /\ held' = held \ {s}
    /\ row' = [row EXCEPT ![s] = "full"] /\ refs' = refs \cup {s}
    /\ Changes(s)
    /\ UNCHANGED <<object, marker, rebuild, report, sweep, early>>

\* The scan never stores its row; its claim and its artifacts grow old.
LoseScan(s) ==
    /\ s \in held /\ held' = held \ {s}
    /\ UNCHANGED <<object, indexVars, marker, rebuild, report, sweep, early, changed>>

\* Prune: the row goes, then, unless something else names them, what it referred to.
Expire(s) ==
    /\ row[s] # "none" /\ s \notin held /\ row' = [row EXCEPT ![s] = "none"]
    /\ Changes(s)
    /\ UNCHANGED <<object, refs, held, marker, rebuild, report, sweep, early>>

CollectDangling(s) ==
    /\ row[s] = "none" /\ s \in refs \ held
    /\ object' = [object EXCEPT ![s] = "absent"] /\ refs' = refs \ {s}
    /\ Changes(s)
    /\ UNCHANGED <<row, held, marker, rebuild, report, sweep, early>>

\* Whose evidence is not to be judged: an aged marker no longer counts.
Markers == {marker.own, marker.left}

\* sweep: markers are read once, before the walk.  Over an empty index only
\* --allow-empty-index starts one.
StartSweep ==
    /\ sweep.at = "off" /\ "fresh" \notin Markers
    /\ sweep' = [at |-> "walk", todo |-> Scans, forced |-> IndexIsEmpty]
    /\ early' = (rebuild.at = "off")
    /\ UNCHANGED <<object, indexVars, held, marker, rebuild, report, changed>>

\* collectUnreferenced: documents are no exception to what it collects.
SweepBucket(s) ==
    /\ sweep.at = "walk" /\ s \in sweep.todo /\ \A t \in sweep.todo : s <= t
    /\ sweep' = [sweep EXCEPT !.todo = @ \ {s}]
    /\ IF Present(s) /\ s \notin refs \cup held
       THEN object' = [object EXCEPT ![s] = "absent"] /\ Changes(s)
       ELSE UNCHANGED <<object, changed>>
    /\ UNCHANGED <<indexVars, held, marker, rebuild, report, early>>

EndSweep ==
    /\ sweep.at = "walk" /\ sweep' = NoSweep /\ early' = FALSE
    /\ UNCHANGED <<object, indexVars, held, marker, rebuild, report, changed>>

\* A day passes: markerIsStale.
AgeMarker ==
    /\ \/ marker.own = "fresh" /\ marker' = [marker EXCEPT !.own = "aged"]
       \/ marker.left = "fresh" /\ marker' = [marker EXCEPT !.left = "absent"]
    /\ UNCHANGED <<object, indexVars, held, rebuild, report, sweep, early, changed>>

-----------------------------------------------------------------------------
(* The run                                                                   *)

Goes(place) == rebuild' = [rebuild EXCEPT !.at = place]
Drops(s) == rebuild' = [rebuild EXCEPT !.at = "list", !.todo = @ \ {s}, !.doc = {}]
Drift(S) == report' = [report EXCEPT !.drift = @ \cup S]
Unjudged(s) == report' = [report EXCEPT !.unjudged = @ \cup {s}]
storeVars == <<object, held, sweep, early>>

\* A mode that writes nothing takes no marker.
Marks(mode) == marker' = IF mode = "apply" THEN [marker EXCEPT !.own = "fresh"] ELSE marker

\* beginRebuild
StartRebuild(mode) ==
    /\ rebuild.at = "off"
    /\ rebuild' = [at |-> "survey", mode |-> mode, todo |-> Scans, doc |-> {}]
    /\ Marks(mode)
    /\ early' = (sweep.at = "walk") /\ changed' = {} /\ report' = NoReport
    /\ UNCHANGED <<object, indexVars, held, sweep>>

\* checkIndexed: entries whose document is gone are reported and left where they are.
DocumentGone == {s \in Scans : row[s] # "none" /\ ~Present(s)}
SurveyIndex ==
    /\ rebuild.at = "survey" /\ Goes("list") /\ Drift(DocumentGone)
    /\ UNCHANGED <<storeVars, indexVars, marker, changed>>

\* walkDocuments
ListDocument(s) ==
    /\ rebuild.at = "list" /\ s \in rebuild.todo /\ \A t \in rebuild.todo : s <= t
    /\ IF Present(s) THEN rebuild' = [rebuild EXCEPT !.at = "read", !.doc = {s}] ELSE Drops(s)
    /\ UNCHANGED <<storeVars, indexVars, marker, report, changed>>

EndOfList ==
    /\ rebuild.at = "list" /\ rebuild.todo = {} /\ Goes("clear")
    /\ UNCHANGED <<storeVars, indexVars, marker, report, changed>>

\* readDocument: a damaged object, or one gone since it was listed, is named and skipped.
ReadDocument(s) ==
    /\ rebuild.at = "read" /\ s \in rebuild.doc
    /\ IF object[s] \in {"good", "newer"} THEN Goes("judge") /\ UNCHANGED report
       ELSE Drops(s) /\ Unjudged(s)
    /\ UNCHANGED <<storeVars, indexVars, marker, changed>>

\* prunedScan, its first question: a scan without references was not pruned.
AskReferences(s) ==
    /\ rebuild.at = "judge" /\ s \in rebuild.doc
    /\ Goes(IF s \in refs THEN "prunedRow" ELSE "evidence")
    /\ UNCHANGED <<storeVars, indexVars, marker, report, changed>>

\* and its second: references without an entry are what a prune leaves.
AskRow(s) ==
    /\ rebuild.at = "prunedRow" /\ s \in rebuild.doc
    /\ IF row[s] = "none" THEN Drops(s) ELSE Goes("evidence")
    /\ UNCHANGED <<storeVars, indexVars, marker, report, changed>>

\* A newer build's document is refused; missing evidence is counted, and no drift.
CheckEvidence(s) ==
    /\ rebuild.at = "evidence" /\ s \in rebuild.doc
    /\ IF IsNewer(s) THEN Drops(s) /\ Unjudged(s) ELSE Goes("merge") /\ UNCHANGED report
    /\ UNCHANGED <<storeVars, indexVars, marker, changed>>

\* sqlMergeOutcome: "rederived" is an entry that was refreshed or repaired.
Outcome(s) == CASE row[s] = "none" -> "added" [] row[s] = "other" -> "conflict"
                [] row[s] = "full" -> "unchanged" [] OTHER -> "rederived"
\* What a rebuild puts right is work done; to a verification it is drift, as two
\* documents of one scan are to both.
Account(s) ==
    IF Outcome(s) = "conflict" \/ (rebuild.mode = "verify" /\ Outcome(s) # "unchanged")
    THEN Drift({s}) ELSE UNCHANGED report

\* Mutant: an entry that is there is taken to agree with its document.
MergeFound(s) ==
    /\ rebuild.at = "merge" /\ s \in rebuild.doc
    /\ IF row[s] = "none" /\ rebuild.mode = "apply" THEN Goes("write") ELSE Drops(s)
    /\ IF row[s] = "none" THEN Account(s) ELSE UNCHANGED report
    /\ UNCHANGED <<storeVars, indexVars, marker, changed>>

\* mergeRebuilt: unchanged, conflict, or something to write.
Merge(s) ==
    /\ rebuild.at = "merge" /\ s \in rebuild.doc
    /\ IF Outcome(s) \in {"added", "rederived"} /\ rebuild.mode = "apply" THEN Goes("write") ELSE Drops(s)
    /\ Account(s)
    /\ UNCHANGED <<storeVars, indexVars, marker, changed>>

\* writeRebuilt
Write(s) ==
    /\ rebuild.at = "write" /\ s \in rebuild.doc /\ Drops(s)
    /\ row' = [row EXCEPT ![s] = "full"] /\ refs' = refs \cup {s}
    /\ UNCHANGED <<storeVars, marker, report, changed>>

Unmarked == marker' = [marker EXCEPT !.own = "absent"]
Left == marker' = [own |-> "absent", left |-> IF marker.own = "fresh" THEN "fresh" ELSE marker.left]

\* The deferred end clears the marker, of a failed or cancelled run too; it may be refused.
ClearMarker ==
    /\ rebuild.at = "clear" /\ Goes("orphans")
    /\ Unmarked \/ Left
    /\ UNCHANGED <<storeVars, indexVars, report, changed>>

Ends == rebuild' = Off /\ report' = NoReport /\ changed' = {}

\* surveyOrphans judges nothing: a plan of a sweep collects nothing.
SurveyOrphans ==
    /\ rebuild.at = "orphans" /\ Ends
    /\ UNCHANGED <<storeVars, indexVars, marker>>

\* A request that fails, or ctrl-C: the marker goes and the index stays half built.
FailRebuild ==
    /\ rebuild.at \in Walking \cup {"survey"}
    /\ Ends /\ (Unmarked \/ Left)
    /\ UNCHANGED <<storeVars, indexVars>>

KillRebuild ==
    /\ rebuild.at # "off" /\ Ends /\ Left
    /\ UNCHANGED <<storeVars, indexVars>>

-----------------------------------------------------------------------------
StoreNext == \/ \E s \in Scans : StoreDocument(s) \/ PutResult(s) \/ LoseScan(s)
             \/ \E s \in Scans : Expire(s) \/ CollectDangling(s) \/ SweepBucket(s)
             \/ StartSweep \/ EndSweep \/ AgeMarker
RebuildNext ==
    \/ \E mode \in {"apply", "verify"} : StartRebuild(mode)
    \/ SurveyIndex \/ EndOfList \/ ClearMarker \/ SurveyOrphans \/ FailRebuild \/ KillRebuild
    \/ \E s \in Scans : ListDocument(s) \/ ReadDocument(s) \/ AskReferences(s) \/ AskRow(s)
    \/ \E s \in Scans : CheckEvidence(s) \/ Merge(s) \/ Write(s)
Next == StoreNext \/ RebuildNext
Spec == Init /\ [][Next]_vars

-----------------------------------------------------------------------------
Pruned(s) == row[s] = "none" /\ s \in refs
Swept(s) == sweep'.todo # sweep.todo /\ Present(s) /\ object'[s] = "absent"

(* A rebuild does not put back what retention deleted (prunedScan), unless   *)
(* retention did so between the question and the write.                      *)
LeavesPruned == \A s \in Scans \ changed : Pruned(s) /\ rebuild.at # "off" => row'[s] = "none"
PrunedStaysPruned == [][LeavesPruned]_vars

(* Half a rebuilt index makes the other half's evidence look unreferenced:   *)
(* nothing is swept while the index is half built, except by a sweep that    *)
(* was already under way, or after the day a marker counts for.              *)
SparesHalfBuilt == \A s \in Scans :
    Swept(s) /\ rebuild.at \in Walking /\ rebuild.mode = "apply" => early \/ marker.own = "aged"
HalfBuiltIsSafe == [][SparesHalfBuilt]_vars

(* When a run ends, each scan nothing else touched meanwhile agrees with its *)
(* document, was pruned, or is in the report, whatever the run found and     *)
(* whatever went on beside it: a green verification means no drift.          *)
RunIsThorough ==
    rebuild.at = "orphans" => \A s \in Scans \ changed :
        /\ object[s] = "good" /\ ~Pruned(s) => row[s] = "full" \/ s \in report.drift
        /\ object[s] \in {"damaged", "newer"} /\ ~Pruned(s) => s \in report.unjudged
        /\ row[s] # "none" /\ ~Present(s) => s \in report.drift
        /\ rebuild.mode = "apply" => row[s] # "stale" \/ s \in report.unjudged \cup report.drift

(* A result document is never collected, even when no index entry points at  *)
(* it, unless the operator forces the sweep (README, Retention).             *)
DocumentsAreKept == [][\A s \in Scans : Swept(s) => sweep.forced]_vars
================================================================================
