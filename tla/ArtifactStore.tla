---------------------------- MODULE ArtifactStore ----------------------------
(***************************************************************************)
(* Evidence in a bucket, and the index that says who needs it              *)
(* (internal/store: PutArtifact, PutResult, SetBaseline, Prune, Sweep).    *)
(*                                                                         *)
(* The bucket and the index cannot be written together.  A scan stores its *)
(* artifacts first, under the digest of their bytes, so that one it shares *)
(* with an older scan is not written again; it claims each in the index,   *)
(* and the transaction that stores its result names them all and releases  *)
(* the claims.  Collectors delete what no result, baseline or fresh claim  *)
(* needs.  They read the index a page at a time and delete one artifact    *)
(* after the other, while scans of this and other processes go on.         *)
(***************************************************************************)
EXTENDS Naturals, FiniteSets

CONSTANTS
    Scans,          \* scans of one series; each can be stored once
    Bodies,         \* screenshots and stored bodies, which scans may share
    Document,       \* [Scans -> Nat]: the key of each scan's result document
    Approvable,     \* scans a user may approve (a bound)
    Legacy,         \* scans an older wsaw stored whose references cannot be derived
    Collectors,     \* the maintenance goroutine of the daemon, and the command line
    PageSize        \* artifactRefPageSize

Documents == {Document[s] : s \in Scans}
Artifacts == Bodies \cup Documents

\* Keys are numbered in the order of their names.
ASSUME ArtifactsAssumption ==
    /\ Bodies \subseteq Nat \ {0} /\ IsFiniteSet(Bodies) /\ IsFiniteSet(Scans)
    /\ Document \in [Scans -> Nat \ {0}]
    /\ Documents \cap Bodies = {}
    /\ \A s, t \in Scans : Document[s] = Document[t] => s = t
ASSUME LegacyAssumption == Legacy \subseteq Scans /\ Approvable \subseteq Scans
ASSUME PageAssumption == PageSize \in Nat \ {0}

VARIABLES
    object,     \* the bucket: an artifact is "absent", "young" (within the grace period) or "old"
    claim,      \* artifact_claims: "none", "fresh" (within the grace period) or "stale"
    results,    \* scans with a row in results
    refs,       \* result_artifacts: what each scan's rows name, rows of deleted scans included
    baseline,   \* the approved scan of the series, if there is one
    approving,  \* the scan SetBaseline has read, if it is at work
    scan,       \* what each scan is at, what it is taking, what its document names
    collector,  \* what each prune or sweep is at
    \* history
    touched,    \* per collector: artifacts of its page that a scan took or stored meanwhile
    raced,      \* artifacts removed while a scan was taking or storing them
    shared,     \* artifacts in the hands of scans whose claim another scan's result released
    pinned      \* the baseline was approved while its result was still stored

indexVars == <<claim, results, refs>>
approvalVars == <<baseline, approving, pinned>>
histVars == <<touched, raced, shared>>
vars == <<object, indexVars, approvalVars, scan, collector, histVars>>

Resting == [at |-> "idle", kind |-> "prune", walk |-> "refs", plan |-> {}, unknown |-> FALSE,
            after |-> 0, page |-> {}, kept |-> {}, claimed |-> {}]

InFlight(s) == scan[s].at \in {"capture", "write", "claim", "document", "commit"}
\* What a scan in flight has taken, failed to take or is taking.  The same bytes are
\* one artifact however many responses carry them.
Holds(s) == scan[s].names \cup scan[s].failed \cup scan[s].item \cup {Document[s]}
\* Everything the document of a scan names, itself included.
Evidence(s) == scan[s].names \cup {Document[s]}

\* A mutant: a baseline whose result has gone protects nothing.
StoredOnly == results

\* liveOwners
Owners == results \cup baseline
Rows(a) == {s \in Scans : a \in refs[s]}
Named(a) == Rows(a) \cap Owners # {}
Dangling(a) == Rows(a) \ Owners # {}

Low(keys) == CHOOSE a \in keys : \A b \in keys : a <= b
High(keys) == CHOOSE a \in keys : \A b \in keys : a >= b
\* The first page of keys in a query ordered by key.
Page(keys) == {a \in keys : Cardinality({b \in keys : b < a}) < PageSize}

\* Verdicts are about the page that is worked on, and there is one while they are used.
VerdictsOfPage(c) ==
    /\ collector[c].kept \cup collector[c].claimed \cup touched[c] \subseteq collector[c].page
    /\ collector[c].page # {} <=> collector[c].at \in {"judge", "claims", "collect", "forget"}

\* Every variable has its type, at most one result is approved, and the verdicts a
\* collector holds are those of its page.
TypeOK ==
    /\ object \in [Artifacts -> {"absent", "young", "old"}]
    /\ claim \in [Artifacts -> {"none", "fresh", "stale"}]
    /\ results \subseteq Scans /\ refs \in [Scans -> SUBSET Artifacts]
    /\ baseline \subseteq Scans /\ approving \subseteq Scans /\ pinned \in BOOLEAN
    /\ scan \in [Scans -> [at : {"idle", "capture", "write", "claim", "document", "commit", "over"},
                           item : SUBSET Bodies, names : SUBSET Bodies, failed : SUBSET Bodies]]
    /\ \A s \in Scans : Cardinality(scan[s].item) <= 1
    /\ Cardinality(baseline) <= 1 /\ Cardinality(approving) <= 1
    /\ collector \in [Collectors ->
          [at : {"idle", "delete", "next", "judge", "claims", "collect", "forget", "tidy"},
           kind : {"prune", "sweep"}, walk : {"refs", "bucket"}, plan : SUBSET Scans,
           unknown : BOOLEAN, after : Artifacts \cup {0},
           page : SUBSET Artifacts, kept : SUBSET Artifacts, claimed : SUBSET Artifacts]]
    /\ touched \in [Collectors -> SUBSET Artifacts]
    /\ \A c \in Collectors : VerdictsOfPage(c)
    /\ raced \subseteq Artifacts /\ shared \subseteq Artifacts

-----------------------------------------------------------------------------
\* A legacy row names its document only, whatever the document named.
Init ==
    /\ scan \in {f \in [Scans -> [at : {"idle", "over"}, item : {{}}, names : SUBSET Bodies,
                               failed : {{}}]] :
                    \A s \in Scans : IF s \in Legacy THEN f[s].at = "over"
                                     ELSE f[s].at = "idle" /\ f[s].names = {}}
    /\ object = [a \in Artifacts |-> IF \E s \in Legacy : a \in Evidence(s) THEN "old" ELSE "absent"]
    /\ claim = [a \in Artifacts |-> "none"]
    /\ results = Legacy
    /\ refs = [s \in Scans |-> IF s \in Legacy THEN {Document[s]} ELSE {}]
    /\ baseline = {} /\ approving = {} /\ pinned = FALSE
    /\ collector = [c \in Collectors |-> Resting]
    /\ touched = [c \in Collectors |-> {}] /\ raced = {} /\ shared = {}

-----------------------------------------------------------------------------
\* Scans

Goes(s, place, item, names, failed) ==
    scan' = [scan EXCEPT ![s] = [at |-> place, item |-> item, names |-> names, failed |-> failed]]
Touch(keys) == touched' = [c \in Collectors |-> touched[c] \cup (keys \cap collector[c].page)]

StartScan(s) ==
    /\ scan[s].at = "idle"
    /\ Goes(s, "capture", {}, {}, {})
    /\ UNCHANGED <<object, indexVars, approvalVars, collector, histVars>>

\* putMeasured, storedKey: what the bucket holds already is not written again.
TakeArtifact(s, a) ==
    /\ scan[s].at = "capture" /\ a \notin Holds(s)
    /\ Goes(s, IF object[a] = "absent" THEN "write" ELSE "claim", {a}, scan[s].names, scan[s].failed)
    /\ UNCHANGED <<object, indexVars, approvalVars, collector, histVars>>

\* write creates the object unless another writer got there first.
WriteArtifact(s) ==
    /\ scan[s].at = "write"
    /\ \E a \in scan[s].item :
          /\ object' = [object EXCEPT ![a] = IF @ = "absent" THEN "young" ELSE @]
          /\ raced' = raced \ {a}
    /\ Goes(s, "claim", scan[s].item, scan[s].names, scan[s].failed)
    /\ UNCHANGED <<indexVars, approvalVars, collector, touched, shared>>

\* claimArtifact: an upsert, so the claim says when it was last taken.
ClaimArtifact(s) ==
    /\ scan[s].at = "claim"
    /\ \E a \in scan[s].item :
          /\ claim' = [claim EXCEPT ![a] = "fresh"]
          /\ shared' = shared \ {a}
    /\ Touch(scan[s].item)
    /\ Goes(s, "capture", {}, scan[s].names \cup scan[s].item, scan[s].failed)
    /\ UNCHANGED <<object, results, refs, approvalVars, collector, raced>>

\* PutArtifact fails: the scan goes on, and its result does not name the artifact.
ArtifactFails(s) ==
    /\ scan[s].at \in {"write", "claim"}
    /\ Goes(s, "capture", {}, scan[s].names, scan[s].failed \cup scan[s].item)
    /\ UNCHANGED <<object, indexVars, approvalVars, collector, histVars>>

EndCapture(s) ==
    /\ scan[s].at = "capture"
    /\ Goes(s, "document", {}, scan[s].names, scan[s].failed)
    /\ UNCHANGED <<object, indexVars, approvalVars, collector, histVars>>

\* PutResult: the document goes to the bucket first, without a claim ...
PutDocument(s) ==
    /\ scan[s].at = "document"
    /\ object' = [object EXCEPT ![Document[s]] = IF @ = "absent" THEN "young" ELSE @]
    /\ raced' = raced \ {Document[s]}
    /\ Goes(s, "commit", {}, scan[s].names, scan[s].failed)
    /\ UNCHANGED <<indexVars, approvalVars, collector, touched, shared>>

\* What scans other than s hold.
HeldBeside(s) == UNION {Holds(t) : t \in {u \in Scans \ {s} : InFlight(u)}}
\* Scans in flight lose a claim to the commit of s.
Bereft(s) == Evidence(s) \cap HeldBeside(s)

\* ... and then the row, its references and the release of its claims commit together.
CommitResult(s) ==
    /\ scan[s].at = "commit"
    /\ results' = results \cup {s}
    /\ refs' = [refs EXCEPT ![s] = Evidence(s)]
    /\ claim' = [a \in Artifacts |-> IF a \in Evidence(s) THEN "none" ELSE claim[a]]
    /\ shared' = (shared \cap HeldBeside(s)) \cup Bereft(s)
    /\ Touch(Evidence(s))
    /\ Goes(s, "over", {}, scan[s].names, {})
    /\ UNCHANGED <<object, approvalVars, collector, raced>>

\* A scan that cannot be stored, or whose process ends, leaves what it wrote.
LoseScan(s) ==
    /\ InFlight(s)
    /\ Goes(s, "over", {}, {}, {})
    /\ shared' = shared \cap HeldBeside(s)
    /\ UNCHANGED <<object, indexVars, approvalVars, collector, touched, raced>>

-----------------------------------------------------------------------------
\* Approvals

\* SetBaseline reads the result and its document, outside the transaction ...
ReadForApproval(s) ==
    /\ approving = {} /\ s \in (results \cap Approvable) \ Legacy /\ object[Document[s]] # "absent"
    /\ approving' = {s}
    /\ UNCHANGED <<object, indexVars, baseline, pinned, scan, collector, histVars>>

\* ... which replaces the baseline, whatever became of the result.
Approve ==
    /\ approving # {}
    /\ baseline' = approving /\ pinned' = (approving \subseteq results) /\ approving' = {}
    /\ UNCHANGED <<object, indexVars, scan, collector, histVars>>

ApprovalFails ==
    /\ approving # {} /\ approving' = {}
    /\ UNCHANGED <<object, indexVars, baseline, pinned, scan, collector, histVars>>

DeleteBaseline ==
    /\ baseline # {} /\ baseline' = {} /\ pinned' = FALSE
    /\ UNCHANGED <<object, indexVars, approving, scan, collector, histVars>>

-----------------------------------------------------------------------------
\* Prune and sweep

Works(c, place, change) == collector' = [collector EXCEPT ![c] = [change EXCEPT !.at = place]]
Rests(c) == /\ collector' = [collector EXCEPT ![c] = Resting]
            /\ touched' = [touched EXCEPT ![c] = {}]

\* resultsWithUnknownRefs
Unknown == results \cap Legacy # {}

\* prune: what the policy condemns is decided before anything is deleted.
StartPrune(c) ==
    /\ collector[c].at = "idle"
    /\ \E plan \in SUBSET results :
          Works(c, "delete", [collector[c] EXCEPT !.kind = "prune", !.plan = plan, !.unknown = Unknown])
    /\ UNCHANGED <<object, indexVars, approvalVars, scan, histVars>>

\* deleteCondemnedTx: the rows go, their references stay as the work list.
DeleteCondemned(c) ==
    /\ collector[c].at = "delete"
    /\ results' = results \ collector[c].plan
    /\ Works(c, "next", [collector[c] EXCEPT !.plan = {}])
    /\ UNCHANGED <<object, claim, refs, approvalVars, scan, histVars>>

\* indexIsEmpty
IndexIsEmpty == /\ Owners = {} /\ \A s \in Scans : refs[s] = {}
                /\ \A a \in Artifacts : claim[a] = "none"

\* sweep: refused by an index that holds nothing.
StartSweep(c) ==
    /\ collector[c].at = "idle" /\ ~IndexIsEmpty
    /\ Works(c, "next", [collector[c] EXCEPT !.kind = "sweep", !.unknown = Unknown])
    /\ UNCHANGED <<object, indexVars, approvalVars, scan, histVars>>

\* danglingRefs, and what follows the last page of them.
ReadDangling(c) ==
    /\ collector[c].at = "next" /\ collector[c].walk = "refs"
    /\ LET keys == {a \in Artifacts : a > collector[c].after /\ Dangling(a)}
           page == Page(keys)
       IN  IF page # {}
           THEN Works(c, "claims", [collector[c] EXCEPT !.after = High(page), !.page = page,
                                                        !.kept = {a \in page : Named(a)}])
           ELSE IF collector[c].kind = "prune" THEN Works(c, "tidy", collector[c])
           ELSE Works(c, "next", [collector[c] EXCEPT !.walk = "bucket", !.after = 0])
    /\ UNCHANGED <<object, indexVars, approvalVars, scan, histVars>>

\* A mutant: the comparison with the cutoff is the wrong way round.
ListYoung(c) ==
    /\ collector[c].at = "next" /\ collector[c].walk = "bucket"
    /\ LET page == Page({a \in Artifacts : a > collector[c].after /\ object[a] = "young"})
       IN  IF page = {} THEN Rests(c)
           ELSE /\ Works(c, "judge", [collector[c] EXCEPT !.after = High(page), !.page = page])
                /\ UNCHANGED touched
    /\ UNCHANGED <<object, indexVars, approvalVars, scan, raced, shared>>

\* sweepBucket: a page of the listing, without what is too young to judge.
ListBucket(c) ==
    /\ collector[c].at = "next" /\ collector[c].walk = "bucket"
    /\ LET page == Page({a \in Artifacts : a > collector[c].after /\ object[a] = "old"})
       IN  IF page = {} THEN Rests(c)
           ELSE /\ Works(c, "judge", [collector[c] EXCEPT !.after = High(page), !.page = page])
                /\ UNCHANGED touched
    /\ UNCHANGED <<object, indexVars, approvalVars, scan, raced, shared>>

\* referencedRefs: any row counts, dangling or not.
ReadReferenced(c) ==
    /\ collector[c].at = "judge"
    /\ Works(c, "claims", [collector[c] EXCEPT !.kept = {a \in collector[c].page : Rows(a) # {}}])
    /\ UNCHANGED <<object, indexVars, approvalVars, scan, histVars>>

\* claimedSince
ReadClaims(c) ==
    /\ collector[c].at = "claims"
    /\ Works(c, "collect", [collector[c] EXCEPT
                               !.claimed = {a \in collector[c].page : claim[a] = "fresh"}])
    /\ UNCHANGED <<object, indexVars, approvalVars, scan, histVars>>

\* collectable: of bodies, only if every result's references are known.
Collectable(a, unknown) == unknown => a \in Documents

\* The page's next artifact is dealt with.
Done(c, a) ==
    LET rest == collector[c].page \ {a}
    IN  /\ Works(c, IF rest = {} THEN "next" ELSE "collect",
                 [collector[c] EXCEPT !.page = rest, !.kept = @ \cap rest, !.claimed = @ \cap rest])
        /\ touched' = [touched EXCEPT ![c] = @ \cap rest]
Collecting(c, a) == collector[c].at = "collect" /\ a = Low(collector[c].page)

\* dropDanglingRefRows judges each row when it runs.
ForgetRef(a) == refs' = [s \in Scans |-> IF s \in Owners THEN refs[s] ELSE refs[s] \ {a}]

\* collectOne, an artifact that something alive names.
ForgetShared(c, a) ==
    /\ Collecting(c, a) /\ collector[c].walk = "refs" /\ a \in collector[c].kept
    /\ ForgetRef(a)
    /\ Done(c, a)
    /\ UNCHANGED <<object, claim, results, approvalVars, scan, raced, shared>>

\* What a page's two queries leave to be deleted.
Condemned(c) == {a \in collector[c].page \ (collector[c].kept \cup collector[c].claimed) :
                    Collectable(a, collector[c].unknown)}

\* collectOne and collectUnreferenced: left alone, or refused by the bucket.
Spare(c, a) ==
    /\ Collecting(c, a)
    /\ a \in collector[c].kept => collector[c].walk = "bucket"
    /\ Done(c, a)
    /\ UNCHANGED <<object, indexVars, approvalVars, scan, raced, shared>>

Racing(c) == touched[c] \cup shared \cup UNION {scan[s].item : s \in {t \in Scans : scan[t].at = "claim"}}
Remove(c, a) == /\ object' = [object EXCEPT ![a] = "absent"]
                /\ raced' = raced \cup ({a} \cap Racing(c))

\* removeArtifact: what is gone already counts as removed.
RemoveDangling(c, a) ==
    /\ Collecting(c, a) /\ collector[c].walk = "refs" /\ a \in Condemned(c)
    /\ Remove(c, a)
    /\ Works(c, "forget", collector[c])
    /\ UNCHANGED <<indexVars, approvalVars, scan, touched, shared>>

\* collectOne: the rows of what has gone are forgotten last.
ForgetRemoved(c) ==
    /\ collector[c].at = "forget"
    /\ ForgetRef(Low(collector[c].page))
    /\ Done(c, Low(collector[c].page))
    /\ UNCHANGED <<object, claim, results, approvalVars, scan, raced, shared>>

\* deleteArtifact, for what no row names.
RemoveUnreferenced(c, a) ==
    /\ Collecting(c, a) /\ collector[c].walk = "bucket" /\ a \in Condemned(c)
    /\ Remove(c, a)
    /\ Done(c, a)
    /\ UNCHANGED <<indexVars, approvalVars, scan, shared>>

\* forgetStaleClaims ends a prune.
ForgetStaleClaims(c) ==
    /\ collector[c].at = "tidy"
    /\ claim' = [a \in Artifacts |-> IF claim[a] = "stale" THEN "none" ELSE claim[a]]
    /\ Rests(c)
    /\ UNCHANGED <<object, results, refs, approvalVars, scan, raced, shared>>

\* A failed query, a cancelled context or the end of the process.
StopCollector(c) ==
    /\ collector[c].at # "idle"
    /\ Rests(c)
    /\ UNCHANGED <<object, indexVars, approvalVars, scan, raced, shared>>

-----------------------------------------------------------------------------
\* The grace period is a day and a scan takes minutes, retries included: nothing
\* a scan in flight holds becomes old.
Unheld(a) == \A s \in Scans : InFlight(s) => a \notin Holds(s)

AgeObject(a) ==
    /\ object[a] = "young" /\ Unheld(a)
    /\ object' = [object EXCEPT ![a] = "old"]
    /\ UNCHANGED <<indexVars, approvalVars, scan, collector, histVars>>

AgeClaim(a) ==
    /\ claim[a] = "fresh" /\ Unheld(a)
    /\ claim' = [claim EXCEPT ![a] = "stale"]
    /\ UNCHANGED <<object, results, refs, approvalVars, scan, collector, histVars>>

ScanNext(s) ==
    \/ StartScan(s) \/ (\E a \in Bodies : TakeArtifact(s, a)) \/ WriteArtifact(s) \/ ClaimArtifact(s)
    \/ ArtifactFails(s) \/ EndCapture(s) \/ PutDocument(s) \/ CommitResult(s) \/ LoseScan(s)
ApprovalNext == (\E s \in Scans : ReadForApproval(s)) \/ Approve \/ ApprovalFails \/ DeleteBaseline
CollectorNext(c) ==
    \/ StartPrune(c) \/ DeleteCondemned(c) \/ StartSweep(c)
    \/ ReadDangling(c) \/ ListBucket(c) \/ ReadReferenced(c) \/ ReadClaims(c)
    \/ (\E a \in Artifacts : ForgetShared(c, a) \/ Spare(c, a) \/ RemoveDangling(c, a) \/ RemoveUnreferenced(c, a))
    \/ ForgetRemoved(c) \/ ForgetStaleClaims(c) \/ StopCollector(c)

Next == \/ \E s \in Scans : ScanNext(s)
        \/ ApprovalNext
        \/ \E c \in Collectors : CollectorNext(c)
        \/ \E a \in Artifacts : AgeObject(a) \/ AgeClaim(a)

Spec == Init /\ [][Next]_vars

\* A pass that is under way goes on.
Proceeds(c) ==
    \/ DeleteCondemned(c) \/ ReadDangling(c) \/ ListBucket(c) \/ ReadReferenced(c) \/ ReadClaims(c)
    \/ (\E a \in Artifacts : ForgetShared(c, a) \/ Spare(c, a)) \/ ForgetRemoved(c) \/ ForgetStaleClaims(c)
\* Both kinds of pass start again and again, scans end, and a day passes.
Fairness ==
    /\ \A c \in Collectors :
          /\ WF_vars(Proceeds(c)) /\ SF_vars(StartPrune(c)) /\ SF_vars(StartSweep(c))
          /\ \A a \in Artifacts : SF_vars(RemoveDangling(c, a)) /\ SF_vars(RemoveUnreferenced(c, a))
    /\ \A s \in Scans : WF_vars(LoseScan(s))
    /\ \A a \in Artifacts : WF_vars(AgeObject(a)) /\ WF_vars(AgeClaim(a))
FairSpec == Spec /\ Fairness

-----------------------------------------------------------------------------
(* What a stored result or the baseline names is in the bucket.  It can be   *)
(* lost in two ways only: it was removed while a scan was taking or storing  *)
(* it, or after the result of another scan released the claim on it          *)
(* (raced); or the baseline was approved when its result was gone.           *)
Kept(s) == \A a \in Evidence(s) : object[a] # "absent" \/ a \in raced
EvidenceKept == /\ \A s \in results : Kept(s)
                /\ pinned => \A s \in baseline : Kept(s)

\* A pass that ends before its end.
CutShort(c) == StopCollector(c) /\ ~ListBucket(c) /\ ~ForgetStaleClaims(c)

(* Whatever an interrupted scan, an expired result or a refused deletion     *)
(* leaves behind is cleared in the end, claims included, unless passes are   *)
(* stopped again and again, the index holds nothing to judge the bucket by,  *)
(* or results with unknown references protect it.                            *)
LeftoversAreCleared ==
    (/\ <>[]~IndexIsEmpty
     /\ \A c \in Collectors : <>[][~CutShort(c)]_vars)
    => <>[](\A a \in Artifacts : /\ claim[a] = "none"
                                /\ object[a] # "absent" => Named(a) \/ ~Collectable(a, Unknown))
==============================================================================
