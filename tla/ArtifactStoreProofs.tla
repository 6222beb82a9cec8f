-------------------------- MODULE ArtifactStoreProofs --------------------------
(* What ArtifactStore keeps for every number of scans, bodies and collectors, *)
(* every page size and whatever an older wsaw left: evidence that a result or *)
(* the baseline names leaves the bucket only in a race a scan lost.           *)
EXTENDS ArtifactStore, TLAPS

-----------------------------------------------------------------------------
(* The inductive invariant.                                                   *)

\* Where a walk may stand.
Marks == {0} \cup {High(keys) : keys \in SUBSET Artifacts}
CollectorType ==
    [at : {"idle", "delete", "next", "judge", "claims", "collect", "forget", "tidy"},
     kind : {"prune", "sweep"}, walk : {"refs", "bucket"}, plan : SUBSET Scans,
     unknown : BOOLEAN, after : Marks,
     page : SUBSET Artifacts, kept : SUBSET Artifacts, claimed : SUBSET Artifacts]
Stages == {"idle", "capture", "write", "claim", "document", "commit", "over"}
ScanType == [at : Stages, item : SUBSET Bodies, names : SUBSET Bodies, failed : SUBSET Bodies]

\* A scan takes one artifact at a time.
OneItem(r) == \A a, b \in r.item : a = b

\* The variables' types.
Shape ==
    /\ object \in [Artifacts -> {"absent", "young", "old"}]
    /\ claim \in [Artifacts -> {"none", "fresh", "stale"}]
    /\ results \subseteq Scans /\ refs \in [Scans -> SUBSET Artifacts]
    /\ baseline \subseteq Scans /\ approving \subseteq Scans /\ pinned \in BOOLEAN
    /\ scan \in [Scans -> ScanType] /\ \A s \in Scans : OneItem(scan[s])
    /\ collector \in [Collectors -> CollectorType]
    /\ touched \in [Collectors -> SUBSET Artifacts]

\* Scans whose evidence is promised, and what is there or was lost to a race.
Living == results \cup IF pinned THEN baseline ELSE {}
There(a) == object[a] # "absent" \/ a \in raced

\* What is stored or approved is of scans that are over.
Settled == /\ \A s \in Living : scan[s].at = "over"
           /\ \A s \in Legacy : scan[s].at = "over"
           /\ (baseline \cup approving) \cap Legacy = {}
\* The rows of what is alive name its evidence, and no row names another scan's document.
RowsTrue == /\ \A s \in Living : Document[s] \in refs[s] /\ (s \notin Legacy => Evidence(s) \subseteq refs[s])
            /\ \A s \in Scans : refs[s] \subseteq Bodies \cup {Document[s]}
            /\ \A s \in Scans : scan[s].at # "over" => refs[s] = {}
\* A document is not in the bucket before its scan puts it there, young, and no
\* collector has it on its page while the scan is in flight.
NewDocuments == \A s \in Scans : scan[s].at # "over" =>
    /\ object[Document[s]] # "old" /\ \A c \in Collectors : Document[s] \notin collector[c].page
    /\ scan[s].at = "idle" => object[Document[s]] = "absent"
    /\ scan[s].at = "commit" => object[Document[s]] = "young"
\* What a scan has taken is claimed, unless the commit of another released it.
Claimed == \A s \in Scans : InFlight(s) => \A a \in scan[s].names : claim[a] = "fresh" \/ a \in shared
\* What a scan has taken, and what it is about to claim, is there.
InHand == \A s \in Scans :
    /\ InFlight(s) => \A a \in scan[s].names : There(a)
    /\ scan[s].at = "claim" => \A a \in scan[s].item : There(a)

\* What a collector's queries said of its page still protects what is alive: the row
\* was read, or came since and the artifact counts as touched ...
RowsRead(c) == collector[c].at \in {"claims", "collect", "forget"} =>
    \A s \in Living : collector[c].page \cap refs[s] \subseteq collector[c].kept \cup touched[c]
\* ... so does a claim ...
ClaimsRead(c) == collector[c].at \in {"collect", "forget"} =>
    \A a \in collector[c].page \ collector[c].claimed : claim[a] = "fresh" => a \in touched[c]
\* ... and that results with unknown references are stored.
UnknownRead(c) == collector[c].at # "idle" /\ results \cap Legacy # {} => collector[c].unknown
Judged == \A c \in Collectors : RowsRead(c) /\ ClaimsRead(c) /\ UnknownRead(c)

StoreInv == Settled /\ RowsTrue /\ NewDocuments /\ Claimed /\ InHand /\ EvidenceKept
IInv == Shape /\ StoreInv /\ Judged

\* Documents and bodies have keys of their own, and no two scans one document.
LEMMA Keys ==
    /\ \A s \in Scans : Document[s] \in Artifacts /\ Document[s] \in Documents /\ Document[s] \notin Bodies
    /\ Bodies \subseteq Artifacts /\ Documents \subseteq Artifacts /\ Bodies \cap Documents = {}
    /\ \A s, t \in Scans : Document[s] = Document[t] => s = t
    /\ Legacy \subseteq Scans
BY ArtifactsAssumption, LegacyAssumption DEF Artifacts, Documents

\* What a scan holds and what its rows name are artifacts.
LEMMA EvidenceType ==
    ASSUME Shape, NEW s \in Scans
    PROVE  /\ scan[s].names \subseteq Bodies /\ scan[s].item \subseteq Bodies /\ Evidence(s) \subseteq Artifacts
           /\ refs[s] \subseteq Artifacts
BY Keys DEF Shape, ScanType, Evidence

\* What a scan or a reader of the store will look for.
Needed(a) == \/ \E s \in Living : a \in Evidence(s)
             \/ \E s \in Scans : InFlight(s) /\ a \in scan[s].names
             \/ \E s \in Scans : scan[s].at = "claim" /\ a \in scan[s].item

\* Of what is needed, a page condemns only what a scan touched since it was read, or
\* whose claim the commit of another scan released (collectOne, collectUnreferenced).
LEMMA CondemnedRaces ==
    ASSUME IInv, NEW c \in Collectors, NEW a, collector[c].at = "collect", a \in Condemned(c), Needed(a)
    PROVE  a \in Racing(c)
<1>1. /\ a \in collector[c].page /\ a \notin collector[c].kept /\ a \notin collector[c].claimed
      /\ collector[c].unknown => a \in Documents
  BY DEF Condemned, Collectable
<1>2. RowsRead(c) /\ ClaimsRead(c) /\ UnknownRead(c) /\ Shape /\ Settled /\ RowsTrue /\ Claimed
  BY DEF IInv, Judged, StoreInv
<1>3. ASSUME NEW s \in Living, a \in Evidence(s) PROVE a \in touched[c]
  <2>1. s \in Scans
    BY <1>2 DEF Living, Shape
  <2>2. CASE a \in refs[s]
    BY <1>1, <1>2, <2>2 DEF RowsRead
  <2>3. CASE a \notin refs[s]
    <3>1. s \in Legacy /\ a \in scan[s].names
      BY <1>2, <1>3, <2>3 DEF RowsTrue, Evidence
    <3>2. s \in results
      BY <1>2, <3>1 DEF Settled, Living
    <3>3. collector[c].unknown
      BY <1>2, <3>1, <3>2 DEF UnknownRead
    <3>4. a \in Bodies
      BY <1>2, <2>1, <3>1, EvidenceType
    <3>5. QED
      BY <1>1, <3>3, <3>4, Keys
  <2>4. QED
    BY <2>2, <2>3
<1>4. ASSUME NEW s \in Scans, InFlight(s), a \in scan[s].names PROVE a \in touched[c] \cup shared
  BY <1>1, <1>2, <1>4 DEF Claimed, ClaimsRead
<1>5. ASSUME NEW s \in Scans, scan[s].at = "claim", a \in scan[s].item PROVE a \in Racing(c)
  BY <1>5 DEF Racing
<1>6. QED
  BY <1>3, <1>4, <1>5 DEF Needed, Racing

-----------------------------------------------------------------------------
(* Collectors.                                                                *)

\* What a collector may do to the bucket and the index: take away, and nothing but
\* what no one living needs, unless a scan is racing.
StoreThins ==
    /\ results' \subseteq results
    /\ refs' \in [Scans -> SUBSET Artifacts]
    /\ \A s \in Scans : refs'[s] \subseteq refs[s] /\ (s \in Owners => refs'[s] = refs[s])
    /\ claim' \in [Artifacts -> {"none", "fresh", "stale"}]
    /\ \A a \in Artifacts : claim'[a] = "fresh" <=> claim[a] = "fresh"
    /\ object' \in [Artifacts -> {"absent", "young", "old"}]
    /\ \A a \in Artifacts : object'[a] \in {object[a], "absent"}
    /\ \A a \in Artifacts : object'[a] # object[a] /\ Needed(a) => a \in raced'
    /\ \A s \in Scans : scan[s].at # "over" => object'[Document[s]] = object[Document[s]]
    /\ raced \subseteq raced'

\* The record r and the artifacts tc touched meanwhile say of collector c's page what
\* the index says of it.
VerdictsStand(c, r, tc) ==
    /\ \A a \in r.page : a \in collector[c].page \/ Dangling(a) \/ object[a] = "old"
    /\ r.at \in {"claims", "collect", "forget"} =>
           \A s \in Living : r.page \cap refs[s] \subseteq r.kept \cup tc
    /\ r.at \in {"collect", "forget"} => \A a \in r.page \ r.claimed : claim[a] = "fresh" => a \in tc
    /\ r.at # "idle" /\ results \cap Legacy # {} => r.unknown

\* A step of one collector that only takes away what is not needed, or what is raced
\* for, keeps the invariant.
LEMMA CollectorMoves ==
    ASSUME IInv, NEW c \in Collectors, NEW r \in CollectorType, NEW tc \in SUBSET Artifacts,
           collector' = [collector EXCEPT ![c] = r], touched' = [touched EXCEPT ![c] = tc],
           UNCHANGED <<approvalVars, scan, shared>>,
           StoreThins, VerdictsStand(c, r, tc)
    PROVE  IInv'
<1>0. Shape /\ Settled /\ RowsTrue /\ NewDocuments /\ Claimed /\ InHand /\ EvidenceKept /\ Judged
  BY DEF IInv, StoreInv
<1> USE DEF StoreThins, VerdictsStand
<1>1. Shape'
  BY <1>0 DEF Shape, approvalVars
<1>2. Living' \subseteq Living /\ Living \subseteq Owners /\ Living \subseteq Scans
  BY <1>0 DEF Living, Owners, Shape, approvalVars
<1>3. \A s \in Living' : refs'[s] = refs[s]
  BY <1>2
<1>4. \A s \in Scans : Evidence(s)' = Evidence(s) /\ InFlight(s)' = InFlight(s)
  BY DEF Evidence, InFlight
<1>5. Settled'
  BY <1>0, <1>2 DEF Settled, approvalVars
<1>6. RowsTrue'
  <2>1. ASSUME NEW s \in Living' PROVE Document[s] \in refs'[s] /\ (s \notin Legacy => Evidence(s)' \subseteq refs'[s])
    BY <1>0, <1>2, <1>3, <1>4 DEF RowsTrue
  <2>2. ASSUME NEW s \in Scans PROVE /\ refs'[s] \subseteq Bodies \cup {Document[s]}
                                     /\ scan'[s].at # "over" => refs'[s] = {}
    BY <1>0 DEF RowsTrue
  <2>3. QED
    BY <2>1, <2>2 DEF RowsTrue
<1>7. NewDocuments'
  <2> SUFFICES ASSUME NEW s \in Scans, scan[s].at # "over"
               PROVE  /\ object'[Document[s]] # "old" /\ \A d \in Collectors : Document[s] \notin collector'[d].page
                      /\ scan[s].at = "idle" => object'[Document[s]] = "absent"
                      /\ scan[s].at = "commit" => object'[Document[s]] = "young"
    BY DEF NewDocuments
  <2>1. object'[Document[s]] = object[Document[s]]
    OBVIOUS
  <2>2. object[Document[s]] # "old" /\ \A d \in Collectors : Document[s] \notin collector[d].page
    BY <1>0 DEF NewDocuments
  <2>3. ~Dangling(Document[s])
    <3>1. ASSUME NEW t \in Scans, Document[s] \in refs[t] PROVE FALSE
      <4>1. t = s
        BY <1>0, <3>1, Keys DEF RowsTrue
      <4>2. QED
        BY <1>0, <3>1, <4>1 DEF RowsTrue
    <3>2. QED
      BY <3>1 DEF Dangling, Rows
  <2>4. Document[s] \notin r.page
    BY <2>2, <2>3
  <2>5. \A d \in Collectors : collector'[d] = IF d = c THEN r ELSE collector[d]
    BY <1>0 DEF Shape
  <2>6. QED
    BY <1>0, <2>1, <2>2, <2>4, <2>5 DEF NewDocuments
<1>8. Claimed'
  <2>1. \A s \in Scans : scan[s].names \subseteq Artifacts
    BY <1>0, EvidenceType, Keys
  <2>2. QED
    BY <1>0, <1>4, <2>1 DEF Claimed
<1>9. \A a \in Artifacts : Needed(a) /\ There(a) => There(a)'
  BY DEF There
<1>10. InHand'
  <2>1. ASSUME NEW s \in Scans, InFlight(s), NEW a \in scan[s].names PROVE There(a)'
    <3>1. a \in Artifacts /\ Needed(a) /\ There(a)
      BY <1>0, <2>1, EvidenceType, Keys DEF Needed, InHand
    <3>2. QED
      BY <1>9, <3>1
  <2>2. ASSUME NEW s \in Scans, scan[s].at = "claim", NEW a \in scan[s].item PROVE There(a)'
    <3>1. a \in Artifacts /\ Needed(a) /\ There(a)
      BY <1>0, <2>2, EvidenceType, Keys DEF Needed, InHand
    <3>2. QED
      BY <1>9, <3>1
  <2>3. QED
    BY <1>4, <2>1, <2>2 DEF InHand
<1>11. EvidenceKept'
  <2>1. ASSUME NEW s \in Living', NEW a \in Evidence(s) PROVE There(a)'
    <3>1. a \in Artifacts /\ Needed(a)
      BY <1>0, <1>2, EvidenceType DEF Needed
    <3>2. There(a)
      BY <1>0, <1>2 DEF EvidenceKept, Kept, Living, There
    <3>3. QED
      BY <1>9, <3>1, <3>2
  <2>2. \A s \in Scans : s \in Living' => Kept(s)'
    BY <1>4, <2>1 DEF Kept, There
  <2>3. QED
    BY <1>2, <2>2 DEF EvidenceKept, Living
<1>12. Judged'
  <2> SUFFICES ASSUME NEW d \in Collectors PROVE RowsRead(d)' /\ ClaimsRead(d)' /\ UnknownRead(d)'
    BY DEF Judged
  <2>1. CASE d = c
    <3>1. collector'[d] = r /\ touched'[d] = tc
      BY <1>0, <2>1 DEF Shape
    <3>2. RowsRead(d)'
      BY <1>2, <1>3, <3>1 DEF RowsRead
    <3>3. ClaimsRead(d)'
      BY <3>1 DEF ClaimsRead, CollectorType
    <3>4. UnknownRead(d)'
      BY <3>1 DEF UnknownRead
    <3>5. QED
      BY <3>2, <3>3, <3>4
  <2>2. CASE d # c
    <3>1. collector'[d] = collector[d] /\ touched'[d] = touched[d] /\ collector[d] \in CollectorType
      BY <1>0, <2>2 DEF Shape
    <3>2. RowsRead(d) /\ ClaimsRead(d) /\ UnknownRead(d)
      BY <1>0 DEF Judged
    <3>3. RowsRead(d)'
      BY <1>2, <1>3, <3>1, <3>2 DEF RowsRead
    <3>4. ClaimsRead(d)'
      BY <3>1, <3>2 DEF ClaimsRead, CollectorType
    <3>5. UnknownRead(d)'
      BY <3>1, <3>2 DEF UnknownRead
    <3>6. QED
      BY <3>3, <3>4, <3>5
  <2>3. QED
    BY <2>1, <2>2
<1>13. QED
  BY <1>1, <1>5, <1>6, <1>7, <1>8, <1>10, <1>11, <1>12 DEF IInv, StoreInv

\* So does one that takes nothing away.
LEMMA CollectorReads ==
    ASSUME IInv, NEW c \in Collectors, NEW r \in CollectorType, NEW tc \in SUBSET Artifacts,
           collector' = [collector EXCEPT ![c] = r], touched' = [touched EXCEPT ![c] = tc],
           UNCHANGED <<object, indexVars, approvalVars, scan, raced, shared>>,
           VerdictsStand(c, r, tc)
    PROVE  IInv'
<1>1. StoreThins
  BY DEF IInv, Shape, indexVars, StoreThins
<1>2. QED
  BY <1>1, CollectorMoves

\* A collector at rest has no page, and so no verdict to be wrong.
LEMMA Rest ==
    /\ Resting \in CollectorType /\ Resting.page = {} /\ Resting.at = "idle"
    /\ \A c \in Collectors : VerdictsStand(c, Resting, {})
BY DEF Resting, CollectorType, Marks, VerdictsStand

\* A page is part of what its query found, and leaves the walk at a mark.
LEMMA PageIsRead ==
    ASSUME NEW keys \in SUBSET Artifacts
    PROVE  Page(keys) \subseteq keys /\ High(Page(keys)) \in Marks /\ Page(keys) \in SUBSET Artifacts
<1>1. Page(keys) \subseteq keys
  BY DEF Page
<1>2. Page(keys) \in SUBSET Artifacts
  BY <1>1
<1>3. QED
  BY <1>1, <1>2 DEF Marks

\* What is left of a page keeps its verdicts.
LEMMA DoneKeeps ==
    ASSUME Shape, NEW c \in Collectors, NEW a, collector[c].at \in {"collect", "forget"},
           RowsRead(c), ClaimsRead(c), UnknownRead(c), Done(c, a)
    PROVE  \E r \in CollectorType, tc \in SUBSET Artifacts :
             /\ collector' = [collector EXCEPT ![c] = r] /\ touched' = [touched EXCEPT ![c] = tc]
             /\ VerdictsStand(c, r, tc)
<1> DEFINE rest == collector[c].page \ {a}
           place == IF rest = {} THEN "next" ELSE "collect"
           r == [[collector[c] EXCEPT !.page = rest, !.kept = @ \cap rest, !.claimed = @ \cap rest]
                    EXCEPT !.at = place]
           tc == touched[c] \cap rest
<1>1. collector[c] \in CollectorType /\ touched[c] \in SUBSET Artifacts
  BY DEF Shape
<1>2. r \in CollectorType
  BY <1>1 DEF CollectorType
<1>3. tc \in SUBSET Artifacts
  BY <1>1
<1>4. collector' = [collector EXCEPT ![c] = r] /\ touched' = [touched EXCEPT ![c] = tc]
  BY DEF Done, Works, Shape
<1>5. r.page = rest /\ r.kept = collector[c].kept \cap rest /\ r.claimed = collector[c].claimed \cap rest
      /\ r.unknown = collector[c].unknown
  BY <1>1 DEF CollectorType
<1>6. \A s \in Living : r.page \cap refs[s] \subseteq r.kept \cup tc
  BY <1>5 DEF RowsRead
<1>7. \A b \in r.page \ r.claimed : claim[b] = "fresh" => b \in tc
  BY <1>5 DEF ClaimsRead
<1>8. results \cap Legacy # {} => r.unknown
  BY <1>5 DEF UnknownRead
<1>9. VerdictsStand(c, r, tc)
  BY <1>5, <1>6, <1>7, <1>8 DEF VerdictsStand
<1> HIDE DEF r, tc
<1>10. QED
  BY <1>2, <1>3, <1>4, <1>9

\* dropDanglingRefRows deletes rows of scans that are not alive only.
LEMMA ForgetRefKeeps ==
    ASSUME Shape, NEW a, ForgetRef(a)
    PROVE  /\ refs' \in [Scans -> SUBSET Artifacts]
           /\ \A s \in Scans : refs'[s] \subseteq refs[s] /\ (s \in Owners => refs'[s] = refs[s])
BY DEF Shape, ForgetRef

\* Every step of a prune or a sweep keeps the invariant.
LEMMA CollectorKeeps ==
    ASSUME IInv, NEW c \in Collectors, CollectorNext(c)
    PROVE  IInv'
<1>0. /\ Shape /\ RowsRead(c) /\ ClaimsRead(c) /\ UnknownRead(c) /\ NewDocuments
      /\ collector[c] \in CollectorType /\ touched[c] \in SUBSET Artifacts
      /\ touched = [touched EXCEPT ![c] = touched[c]] /\ Living \subseteq Scans
  BY DEF IInv, Judged, StoreInv, Shape, Living
<1>1. CASE StartPrune(c)
  <2>1. PICK plan \in SUBSET results :
           Works(c, "delete", [collector[c] EXCEPT !.kind = "prune", !.plan = plan, !.unknown = Unknown])
    BY <1>1 DEF StartPrune
  <2> DEFINE r == [[collector[c] EXCEPT !.kind = "prune", !.plan = plan, !.unknown = Unknown] EXCEPT !.at = "delete"]
  <2>2. r \in CollectorType
    BY <1>0 DEF CollectorType, Shape, Unknown
  <2>3. r.page = collector[c].page /\ r.at = "delete" /\ r.unknown = Unknown
    BY <1>0 DEF CollectorType
  <2>4. collector' = [collector EXCEPT ![c] = r] /\ touched' = [touched EXCEPT ![c] = touched[c]]
        /\ UNCHANGED <<object, indexVars, approvalVars, scan, raced, shared>>
    BY <1>0, <1>1, <2>1 DEF StartPrune, Works, histVars
  <2> HIDE DEF r
  <2>5. VerdictsStand(c, r, touched[c])
    BY <1>0, <2>2, <2>3, <2>4 DEF VerdictsStand, Unknown
  <2>6. QED
    BY <1>0, <2>2, <2>3, <2>4, <2>5, CollectorReads
<1>2. CASE DeleteCondemned(c)
  <2> DEFINE r == [[collector[c] EXCEPT !.plan = {}] EXCEPT !.at = "next"]
  <2>1. r \in CollectorType
    BY <1>0 DEF CollectorType
  <2>2. r.page = collector[c].page /\ r.at = "next" /\ r.unknown = collector[c].unknown
    BY <1>0 DEF CollectorType
  <2>3. collector' = [collector EXCEPT ![c] = r] /\ touched' = [touched EXCEPT ![c] = touched[c]]
        /\ UNCHANGED <<approvalVars, scan, shared, object, claim, refs, raced>> /\ results' \subseteq results
    BY <1>0, <1>2 DEF DeleteCondemned, Works, histVars
  <2>4. /\ refs' \in [Scans -> SUBSET Artifacts] /\ claim' \in [Artifacts -> {"none", "fresh", "stale"}]
        /\ object' \in [Artifacts -> {"absent", "young", "old"}]
    BY <1>0, <2>3 DEF Shape
  <2>5. results \cap Legacy # {} => r.unknown
    BY <1>0, <1>2, <2>2 DEF UnknownRead, DeleteCondemned
  <2> HIDE DEF r
  <2>6. VerdictsStand(c, r, touched[c])
    BY <2>2, <2>5 DEF VerdictsStand
  <2>7. StoreThins
    BY <2>3, <2>4 DEF StoreThins
  <2>8. QED
    BY <1>0, <2>1, <2>3, <2>6, <2>7, CollectorMoves
<1>3. CASE StartSweep(c)
  <2> DEFINE r == [[collector[c] EXCEPT !.kind = "sweep", !.unknown = Unknown] EXCEPT !.at = "next"]
  <2>1. r \in CollectorType
    BY <1>0 DEF CollectorType, Unknown
  <2>2. r.page = collector[c].page /\ r.at = "next" /\ r.unknown = Unknown
    BY <1>0 DEF CollectorType
  <2>3. collector' = [collector EXCEPT ![c] = r] /\ touched' = [touched EXCEPT ![c] = touched[c]]
        /\ UNCHANGED <<object, indexVars, approvalVars, scan, raced, shared>>
    BY <1>0, <1>3 DEF StartSweep, Works, histVars
  <2> HIDE DEF r
  <2>4. VerdictsStand(c, r, touched[c])
    BY <1>0, <2>1, <2>2, <2>3 DEF VerdictsStand, Unknown
  <2>5. QED
    BY <1>0, <2>1, <2>2, <2>3, <2>4, CollectorReads
<1>4. CASE ReadDangling(c)
  <2> DEFINE keys == {a \in Artifacts : a > collector[c].after /\ Dangling(a)}
             page == Page(keys)
  <2>0. /\ keys \in SUBSET Artifacts /\ \A a \in keys : Dangling(a)
        /\ touched' = [touched EXCEPT ![c] = touched[c]]
        /\ UNCHANGED <<object, indexVars, approvalVars, scan, raced, shared>>
        /\ results \cap Legacy # {} => collector[c].unknown
    BY <1>0, <1>4 DEF ReadDangling, histVars, UnknownRead
  <2>1. page \subseteq keys /\ High(page) \in Marks /\ page \in SUBSET Artifacts
    BY <2>0, PageIsRead
  <2>2. IF page # {}
           THEN Works(c, "claims", [collector[c] EXCEPT !.after = High(page), !.page = page,
                                                        !.kept = {a \in page : Named(a)}])
           ELSE IF collector[c].kind = "prune" THEN Works(c, "tidy", collector[c])
           ELSE Works(c, "next", [collector[c] EXCEPT !.walk = "bucket", !.after = 0])
    BY <1>4 DEF ReadDangling
  <2> HIDE DEF keys, page
  <2>3. CASE page # {}
    <3> DEFINE r == [[collector[c] EXCEPT !.after = High(page), !.page = page,
                                         !.kept = {a \in page : Named(a)}] EXCEPT !.at = "claims"]
    <3>1. r \in CollectorType
      BY <1>0, <2>1 DEF CollectorType
    <3>2. /\ r.page = page /\ r.kept = {a \in page : Named(a)} /\ r.at = "claims"
          /\ r.unknown = collector[c].unknown
      BY <1>0 DEF CollectorType
    <3>3. collector' = [collector EXCEPT ![c] = r]
      BY <2>2, <2>3 DEF Works
    <3>4. \A s \in Living : r.page \cap refs[s] \subseteq r.kept
      <4>1. \A s \in Living : s \in Scans /\ s \in Owners
        BY <1>0 DEF Living, Owners
      <4>2. QED
        BY <3>2, <4>1 DEF Named, Rows
    <3>5. \A a \in r.page : Dangling(a)
      BY <2>0, <2>1, <3>2
    <3> HIDE DEF r
    <3>6. VerdictsStand(c, r, touched[c])
      BY <1>0, <2>0, <3>1, <3>2, <3>3, <3>4, <3>5 DEF VerdictsStand
    <3>7. QED
      BY <1>0, <2>0, <3>1, <3>2, <3>3, <3>4, <3>5, <3>6, CollectorReads
  <2>4. CASE page = {} /\ collector[c].kind = "prune"
    <3> DEFINE r == [collector[c] EXCEPT !.at = "tidy"]
    <3>1. r \in CollectorType
      BY <1>0 DEF CollectorType
    <3>2. r.page = collector[c].page /\ r.at = "tidy" /\ r.unknown = collector[c].unknown
      BY <1>0 DEF CollectorType
    <3>3. collector' = [collector EXCEPT ![c] = r]
      BY <2>2, <2>4 DEF Works
    <3> HIDE DEF r
    <3>4. VerdictsStand(c, r, touched[c])
      BY <1>0, <2>0, <3>1, <3>2, <3>3 DEF VerdictsStand
    <3>5. QED
      BY <1>0, <2>0, <3>1, <3>2, <3>3, <3>4, CollectorReads
  <2>5. CASE page = {} /\ collector[c].kind # "prune"
    <3> DEFINE r == [[collector[c] EXCEPT !.walk = "bucket", !.after = 0] EXCEPT !.at = "next"]
    <3>1. r \in CollectorType
      BY <1>0 DEF CollectorType, Marks
    <3>2. r.page = collector[c].page /\ r.at = "next" /\ r.unknown = collector[c].unknown
      BY <1>0 DEF CollectorType
    <3>3. collector' = [collector EXCEPT ![c] = r]
      BY <2>2, <2>5 DEF Works
    <3> HIDE DEF r
    <3>4. VerdictsStand(c, r, touched[c])
      BY <1>0, <2>0, <3>1, <3>2, <3>3 DEF VerdictsStand
    <3>5. QED
      BY <1>0, <2>0, <3>1, <3>2, <3>3, <3>4, CollectorReads
  <2>6. QED
    BY <2>3, <2>4, <2>5
<1>5. CASE ListBucket(c)
  <2> DEFINE keys == {a \in Artifacts : a > collector[c].after /\ object[a] = "old"}
             page == Page(keys)
             r == [[collector[c] EXCEPT !.after = High(page), !.page = page] EXCEPT !.at = "judge"]
  <2>0. /\ keys \in SUBSET Artifacts /\ \A a \in keys : object[a] = "old"
        /\ UNCHANGED <<object, indexVars, approvalVars, scan, raced, shared>>
        /\ results \cap Legacy # {} => collector[c].unknown
    BY <1>0, <1>5 DEF ListBucket, UnknownRead
  <2>1. page \subseteq keys /\ High(page) \in Marks /\ page \in SUBSET Artifacts
    BY <2>0, PageIsRead
  <2>2. CASE page = {}
    <3>1. Rests(c)
      BY <1>5, <2>2 DEF ListBucket
    <3>2. collector' = [collector EXCEPT ![c] = Resting] /\ touched' = [touched EXCEPT ![c] = {}]
      BY <3>1 DEF Rests
    <3>3. QED
      BY <2>0, <3>2, Rest, CollectorReads
  <2>3. CASE page # {}
    <3>1. Works(c, "judge", [collector[c] EXCEPT !.after = High(page), !.page = page])
          /\ touched' = [touched EXCEPT ![c] = touched[c]]
      BY <1>0, <1>5, <2>3 DEF ListBucket
    <3> HIDE DEF keys, page
    <3>2. r \in CollectorType
      BY <1>0, <2>1 DEF CollectorType
    <3>3. r.page = page /\ r.at = "judge" /\ r.unknown = collector[c].unknown
      BY <1>0 DEF CollectorType
    <3>4. collector' = [collector EXCEPT ![c] = r]
      BY <3>1 DEF Works
    <3>5. \A a \in r.page : object[a] = "old"
      BY <2>0, <2>1, <3>3
    <3> HIDE DEF r
    <3>6. VerdictsStand(c, r, touched[c])
      BY <2>0, <3>1, <3>2, <3>3, <3>4, <3>5, <1>0 DEF VerdictsStand
    <3>7. QED
      BY <2>0, <3>1, <3>2, <3>3, <3>4, <3>5, <1>0, <3>6, CollectorReads
  <2>4. QED
    BY <2>2, <2>3
<1>6. CASE ReadReferenced(c)
  <2> DEFINE r == [[collector[c] EXCEPT !.kept = {a \in collector[c].page : Rows(a) # {}}] EXCEPT !.at = "claims"]
  <2>1. r \in CollectorType
    BY <1>0 DEF CollectorType
  <2>2. /\ r.page = collector[c].page /\ r.kept = {a \in collector[c].page : Rows(a) # {}}
        /\ r.at = "claims" /\ r.unknown = collector[c].unknown
    BY <1>0 DEF CollectorType
  <2>3. collector' = [collector EXCEPT ![c] = r] /\ touched' = [touched EXCEPT ![c] = touched[c]]
        /\ UNCHANGED <<object, indexVars, approvalVars, scan, raced, shared>>
        /\ (results \cap Legacy # {} => collector[c].unknown)
    BY <1>0, <1>6 DEF ReadReferenced, Works, histVars, UnknownRead
  <2>4. \A s \in Living : r.page \cap refs[s] \subseteq r.kept
    BY <1>0, <2>2 DEF Rows
  <2> HIDE DEF r
  <2>5. VerdictsStand(c, r, touched[c])
    BY <1>0, <2>1, <2>2, <2>3, <2>4 DEF VerdictsStand
  <2>6. QED
    BY <1>0, <2>1, <2>2, <2>3, <2>4, <2>5, CollectorReads
<1>7. CASE ReadClaims(c)
  <2> DEFINE r == [[collector[c] EXCEPT !.claimed = {a \in collector[c].page : claim[a] = "fresh"}] EXCEPT !.at = "collect"]
  <2>1. r \in CollectorType
    BY <1>0 DEF CollectorType
  <2>2. /\ r.page = collector[c].page /\ r.kept = collector[c].kept
        /\ r.claimed = {a \in collector[c].page : claim[a] = "fresh"}
        /\ r.at = "collect" /\ r.unknown = collector[c].unknown
    BY <1>0 DEF CollectorType
  <2>3. collector' = [collector EXCEPT ![c] = r] /\ touched' = [touched EXCEPT ![c] = touched[c]]
        /\ UNCHANGED <<object, indexVars, approvalVars, scan, raced, shared>>
        /\ (results \cap Legacy # {} => collector[c].unknown)
        /\ \A s \in Living : collector[c].page \cap refs[s] \subseteq collector[c].kept \cup touched[c]
    BY <1>0, <1>7 DEF ReadClaims, Works, histVars, UnknownRead, RowsRead
  <2> HIDE DEF r
  <2>4. VerdictsStand(c, r, touched[c])
    BY <1>0, <2>1, <2>2, <2>3 DEF VerdictsStand
  <2>5. QED
    BY <1>0, <2>1, <2>2, <2>3, <2>4, CollectorReads
<1>8. CASE ForgetRemoved(c) \/ \E a \in Artifacts : ForgetShared(c, a)
  <2>1. PICK b : ForgetRef(b) /\ Done(c, b)
    BY <1>8 DEF ForgetShared, ForgetRemoved
  <2>2. /\ UNCHANGED <<object, claim, results, approvalVars, scan, raced, shared>>
        /\ collector[c].at \in {"collect", "forget"}
    BY <1>8 DEF ForgetShared, ForgetRemoved, Collecting
  <2>3. PICK r \in CollectorType, tc \in SUBSET Artifacts :
             /\ collector' = [collector EXCEPT ![c] = r] /\ touched' = [touched EXCEPT ![c] = tc]
             /\ VerdictsStand(c, r, tc)
    BY <1>0, <2>1, <2>2, DoneKeeps
  <2>4. /\ refs' \in [Scans -> SUBSET Artifacts]
        /\ \A s \in Scans : refs'[s] \subseteq refs[s] /\ (s \in Owners => refs'[s] = refs[s])
    BY <1>0, <2>1, ForgetRefKeeps
  <2>5. /\ claim' \in [Artifacts -> {"none", "fresh", "stale"}]
        /\ object' \in [Artifacts -> {"absent", "young", "old"}]
    BY <1>0, <2>2 DEF Shape
  <2>6. StoreThins
    BY <2>2, <2>4, <2>5 DEF StoreThins
  <2>7. QED
    BY <2>2, <2>3, <2>6, CollectorMoves
<1>9. ASSUME NEW a \in Artifacts, Spare(c, a)
      PROVE  IInv'
  <2>1. PICK r \in CollectorType, tc \in SUBSET Artifacts :
             /\ collector' = [collector EXCEPT ![c] = r] /\ touched' = [touched EXCEPT ![c] = tc]
             /\ VerdictsStand(c, r, tc)
    BY <1>0, <1>9, DoneKeeps DEF Spare, Collecting
  <2>2. UNCHANGED <<object, indexVars, approvalVars, scan, raced, shared>>
    BY <1>9 DEF Spare
  <2>3. QED
    BY <2>1, <2>2, CollectorReads
<1>10. ASSUME NEW a \in Artifacts, RemoveDangling(c, a) \/ RemoveUnreferenced(c, a)
       PROVE  IInv'
  <2>1. /\ Remove(c, a) /\ a \in Condemned(c) /\ collector[c].at = "collect"
        /\ UNCHANGED <<indexVars, approvalVars, scan, shared>>
    BY <1>10 DEF RemoveDangling, RemoveUnreferenced, Collecting
  <2>2. PICK r \in CollectorType, tc \in SUBSET Artifacts :
             /\ collector' = [collector EXCEPT ![c] = r] /\ touched' = [touched EXCEPT ![c] = tc]
             /\ VerdictsStand(c, r, tc)
    <3>1. CASE RemoveUnreferenced(c, a)
      BY <1>0, <2>1, <3>1, DoneKeeps DEF RemoveUnreferenced
    <3>2. CASE RemoveDangling(c, a)
      <4> DEFINE r == [collector[c] EXCEPT !.at = "forget"]
      <4>1. r \in CollectorType
        BY <1>0 DEF CollectorType
      <4>2. /\ r.page = collector[c].page /\ r.kept = collector[c].kept /\ r.claimed = collector[c].claimed
            /\ r.unknown = collector[c].unknown
        BY <1>0 DEF CollectorType
      <4>3. collector' = [collector EXCEPT ![c] = r] /\ touched' = [touched EXCEPT ![c] = touched[c]]
        BY <1>0, <3>2 DEF RemoveDangling, Works
      <4> HIDE DEF r
      <4>4. QED
        BY <1>0, <2>1, <4>1, <4>2, <4>3 DEF RowsRead, ClaimsRead, UnknownRead, VerdictsStand
    <3>3. QED
      BY <1>10, <3>1, <3>2
  <2>3. object' = [object EXCEPT ![a] = "absent"] /\ raced' = raced \cup ({a} \cap Racing(c))
    BY <2>1 DEF Remove
  <2>4. /\ object' \in [Artifacts -> {"absent", "young", "old"}]
        /\ \A b \in Artifacts : object'[b] = IF b = a THEN "absent" ELSE object[b]
    BY <1>0, <2>3 DEF Shape
  <2>5. \A b \in Artifacts : object'[b] # object[b] /\ Needed(b) => b \in raced'
    BY <2>1, <2>3, <2>4, CondemnedRaces
  <2>6. \A s \in Scans : scan[s].at # "over" => object'[Document[s]] = object[Document[s]]
    <3>1. \A s \in Scans : scan[s].at # "over" => Document[s] # a
      BY <1>0, <2>1 DEF NewDocuments, Condemned
    <3>2. QED
      BY <2>4, <3>1, Keys
  <2>7. /\ refs' \in [Scans -> SUBSET Artifacts] /\ claim' \in [Artifacts -> {"none", "fresh", "stale"}]
        /\ results' = results /\ refs' = refs /\ claim' = claim
    BY <1>0, <2>1 DEF Shape, indexVars
  <2>8. StoreThins
    BY <2>1, <2>3, <2>4, <2>5, <2>6, <2>7 DEF StoreThins
  <2>9. QED
    BY <2>1, <2>2, <2>8, CollectorMoves
<1>11. CASE ForgetStaleClaims(c)
  <2>1. /\ collector' = [collector EXCEPT ![c] = Resting] /\ touched' = [touched EXCEPT ![c] = {}]
        /\ UNCHANGED <<object, results, refs, approvalVars, scan, raced, shared>>
        /\ claim' = [a \in Artifacts |-> IF claim[a] = "stale" THEN "none" ELSE claim[a]]
    BY <1>11 DEF ForgetStaleClaims, Rests
  <2>2. /\ claim' \in [Artifacts -> {"none", "fresh", "stale"}] /\ refs' \in [Scans -> SUBSET Artifacts]
        /\ \A a \in Artifacts : claim'[a] = "fresh" <=> claim[a] = "fresh"
        /\ object' \in [Artifacts -> {"absent", "young", "old"}]
    BY <1>0, <2>1 DEF Shape
  <2>3. StoreThins
    BY <2>1, <2>2 DEF StoreThins
  <2>4. QED
    BY <2>1, <2>3, Rest, CollectorMoves
<1>12. CASE StopCollector(c)
  BY <1>12, Rest, CollectorReads DEF StopCollector, Rests
<1>13. QED
  BY <1>1, <1>2, <1>3, <1>4, <1>5, <1>6, <1>7, <1>8, <1>9, <1>10, <1>11, <1>12 DEF CollectorNext

-----------------------------------------------------------------------------
(* Scans.                                                                     *)

\* What scan s may do to the bucket and the claims: add, and be noticed by every
\* collector that works on the artifact.
StoreGrows(s) ==
    /\ object' \in [Artifacts -> {"absent", "young", "old"}]
    /\ \A a \in Artifacts : object'[a] = object[a] \/ (object[a] = "absent" /\ object'[a] = "young")
    /\ \A t \in Scans \ {s} : object'[Document[t]] = object[Document[t]]
    /\ \A a \in raced : a \in raced' \/ object'[a] # "absent"
    /\ claim' \in [Artifacts -> {"none", "fresh", "stale"}]
    /\ \A a \in Artifacts : claim[a] = "fresh" => claim'[a] = "fresh"
    /\ \A a \in Artifacts : claim'[a] = "fresh" /\ claim[a] # "fresh" =>
          \A c \in Collectors : a \in collector[c].page => a \in touched'[c]
    /\ touched' \in [Collectors -> SUBSET Artifacts]
    /\ \A c \in Collectors : touched[c] \subseteq touched'[c]
    /\ \A t \in Scans \ {s} : InFlight(t) =>
          \A a \in scan[t].names \cap shared : a \in shared' \/ claim'[a] = "fresh"

\* What scan s, at r now, holds is there and claimed.
HandsFull(s, r) ==
    /\ OneItem(r)
    /\ r.at \in {"capture", "write", "claim", "document", "commit"} =>
          \A a \in r.names : There(a)' /\ (claim'[a] = "fresh" \/ a \in shared')
    /\ r.at = "claim" => \A a \in r.item : There(a)'
    /\ r.at = "commit" => object'[Document[s]] = "young"
    /\ r.at # "idle"

\* A step of one scan that only adds, and does not store its result, keeps the invariant.
LEMMA ScanMoves ==
    ASSUME IInv, NEW s \in Scans, scan[s].at # "over", NEW r \in ScanType,
           scan' = [scan EXCEPT ![s] = r],
           UNCHANGED <<results, refs, approvalVars, collector>>,
           StoreGrows(s), HandsFull(s, r)
    PROVE  IInv'
<1> USE DEF StoreGrows, HandsFull
<1>0. Shape /\ Settled /\ RowsTrue /\ NewDocuments /\ Claimed /\ InHand /\ EvidenceKept /\ Judged
  BY DEF IInv, StoreInv
<1>1. \A t \in Scans : scan'[t] = IF t = s THEN r ELSE scan[t]
  BY <1>0 DEF Shape
<1>2. Shape'
  <2>1. scan' \in [Scans -> ScanType]
    BY <1>0 DEF Shape
  <2>2. QED
    BY <1>0, <1>1, <2>1 DEF Shape, approvalVars
<1>3. Living' = Living /\ Living \subseteq Scans /\ s \notin Living
  BY <1>0 DEF Living, Shape, Settled, approvalVars
<1>4. \A t \in Scans \ {s} : scan'[t] = scan[t] /\ Evidence(t)' = Evidence(t) /\ InFlight(t)' = InFlight(t)
  BY <1>1 DEF Evidence, InFlight
<1>5. Settled'
  BY <1>0, <1>3, <1>4 DEF Settled, approvalVars
<1>6. RowsTrue'
  <2>1. \A t \in Living' : Document[t] \in refs'[t] /\ (t \notin Legacy => Evidence(t)' \subseteq refs'[t])
    BY <1>0, <1>3, <1>4 DEF RowsTrue
  <2>2. \A t \in Scans : refs'[t] \subseteq Bodies \cup {Document[t]}
    BY <1>0 DEF RowsTrue
  <2>3. \A t \in Scans : scan'[t].at # "over" => refs'[t] = {}
    BY <1>0, <1>4 DEF RowsTrue
  <2>4. QED
    BY <2>1, <2>2, <2>3 DEF RowsTrue
<1>7. NewDocuments'
  <2> SUFFICES ASSUME NEW t \in Scans, scan'[t].at # "over"
               PROVE  /\ object'[Document[t]] # "old" /\ \A c \in Collectors : Document[t] \notin collector'[c].page
                      /\ scan'[t].at = "idle" => object'[Document[t]] = "absent"
                      /\ scan'[t].at = "commit" => object'[Document[t]] = "young"
    BY DEF NewDocuments
  <2>1. CASE t = s
    BY <1>0, <1>1, <2>1, Keys DEF NewDocuments
  <2>2. CASE t # s
    BY <1>0, <1>4, <2>2 DEF NewDocuments
  <2>3. QED
    BY <2>1, <2>2
<1>8. Claimed'
  <2> SUFFICES ASSUME NEW t \in Scans, InFlight(t)', NEW a \in scan'[t].names
               PROVE  claim'[a] = "fresh" \/ a \in shared'
    BY DEF Claimed
  <2>1. CASE t = s
    BY <1>1, <2>1 DEF InFlight
  <2>2. CASE t # s
    BY <1>0, <1>4, <2>2, EvidenceType, Keys DEF Claimed
  <2>3. QED
    BY <2>1, <2>2
<1>9. \A a \in Artifacts : There(a) => There(a)'
  BY DEF There
<1>10. InHand'
  <2> SUFFICES ASSUME NEW t \in Scans
               PROVE  /\ InFlight(t)' => \A a \in scan'[t].names : There(a)'
                      /\ scan'[t].at = "claim" => \A a \in scan'[t].item : There(a)'
    BY DEF InHand
  <2>1. CASE t = s
    BY <1>1, <2>1 DEF InFlight
  <2>2. CASE t # s
    BY <1>0, <1>4, <1>9, <2>2, EvidenceType, Keys DEF InHand
  <2>3. QED
    BY <2>1, <2>2
<1>11. EvidenceKept'
  <2>1. ASSUME NEW t \in Living', NEW a \in Evidence(t)' PROVE There(a)'
    <3>1. t \in Scans \ {s} /\ t \in Living
      BY <1>3
    <3>2. a \in Artifacts /\ a \in Evidence(t)
      BY <1>0, <1>4, <3>1, EvidenceType
    <3>3. There(a)
      BY <1>0, <3>1, <3>2 DEF EvidenceKept, Kept, Living, There
    <3>4. QED
      BY <1>9, <3>2, <3>3
  <2>2. \A t \in Living' : Kept(t)'
    BY <2>1 DEF Kept, There
  <2>3. QED
    BY <2>2 DEF EvidenceKept, Living
<1>12. Judged'
  <2> SUFFICES ASSUME NEW c \in Collectors PROVE RowsRead(c)' /\ ClaimsRead(c)' /\ UnknownRead(c)'
    BY DEF Judged
  <2>1. RowsRead(c) /\ ClaimsRead(c) /\ UnknownRead(c) /\ collector[c] \in CollectorType
    BY <1>0 DEF Judged, Shape
  <2>2. RowsRead(c)'
    BY <1>3, <2>1 DEF RowsRead
  <2>3. ClaimsRead(c)'
    BY <2>1 DEF ClaimsRead, CollectorType
  <2>4. UnknownRead(c)'
    BY <2>1 DEF UnknownRead
  <2>5. QED
    BY <2>2, <2>3, <2>4
<1>13. QED
  BY <1>2, <1>5, <1>6, <1>7, <1>8, <1>10, <1>11, <1>12 DEF IInv, StoreInv

\* The bucket and the index are left alone.
LEMMA NothingStored ==
    ASSUME Shape, NEW s \in Scans, UNCHANGED <<object, claim, touched, raced, shared>>
    PROVE  StoreGrows(s)
BY DEF Shape, StoreGrows

\* What a step leaves of a scan has the type of one.
LEMMA ScanRecord ==
    ASSUME NEW place \in Stages, NEW item \in SUBSET Bodies, NEW names \in SUBSET Bodies,
           NEW failed \in SUBSET Bodies
    PROVE  [at |-> place, item |-> item, names |-> names, failed |-> failed] \in ScanType
BY DEF ScanType

\* PutResult's transaction keeps the invariant: claims that others relied on pass to
\* shared, and every collector that works on the evidence is told.
LEMMA Stored ==
    ASSUME IInv, NEW s \in Scans, CommitResult(s)
    PROVE  IInv'
<1>0. Shape /\ Settled /\ RowsTrue /\ NewDocuments /\ Claimed /\ InHand /\ EvidenceKept /\ Judged
  BY DEF IInv, StoreInv
<1> DEFINE r == [at |-> "over", item |-> {}, names |-> scan[s].names, failed |-> {}]
<1>1. /\ scan[s].at = "commit" /\ InFlight(s) /\ results' = results \cup {s}
      /\ refs' = [refs EXCEPT ![s] = Evidence(s)]
      /\ claim' = [a \in Artifacts |-> IF a \in Evidence(s) THEN "none" ELSE claim[a]]
      /\ shared' = (shared \cap HeldBeside(s)) \cup Bereft(s)
      /\ touched' = [c \in Collectors |-> touched[c] \cup (Evidence(s) \cap collector[c].page)]
      /\ scan' = [scan EXCEPT ![s] = r]
      /\ UNCHANGED <<object, approvalVars, collector, raced>>
  BY DEF CommitResult, Touch, Goes, InFlight
<1>2. scan[s].names \subseteq Bodies /\ Evidence(s) \subseteq Artifacts
  BY <1>0, EvidenceType
<1>3. r \in ScanType /\ r.at = "over" /\ r.names = scan[s].names /\ r.item = {}
  BY <1>2, ScanRecord DEF Stages
<1>4. \A t \in Scans : scan'[t] = IF t = s THEN r ELSE scan[t]
  BY <1>0, <1>1 DEF Shape
<1> HIDE DEF r
<1>5. Shape'
  <2>1. scan' \in [Scans -> ScanType]
    BY <1>0, <1>1, <1>3 DEF Shape
  <2>2. \A t \in Scans : OneItem(scan[t])'
    BY <1>0, <1>3, <1>4 DEF Shape, OneItem
  <2>3. touched' \in [Collectors -> SUBSET Artifacts]
    BY <1>0, <1>1, <1>2 DEF Shape
  <2>4. claim' \in [Artifacts -> {"none", "fresh", "stale"}] /\ refs' \in [Scans -> SUBSET Artifacts]
    BY <1>0, <1>1, <1>2 DEF Shape
  <2>5. QED
    BY <1>0, <1>1, <2>1, <2>2, <2>3, <2>4 DEF Shape, approvalVars
<1>6. \A t \in Scans : Evidence(t)' = Evidence(t)
  BY <1>3, <1>4 DEF Evidence
<1>7. \A t \in Scans \ {s} : scan'[t] = scan[t] /\ InFlight(t)' = InFlight(t) /\ refs'[t] = refs[t]
  BY <1>0, <1>1, <1>4 DEF InFlight, Shape
<1>8. /\ Living' = Living \cup {s} /\ Living \subseteq Scans /\ s \notin Living /\ s \notin Legacy
      /\ scan'[s].at = "over" /\ ~InFlight(s)' /\ refs'[s] = Evidence(s)
  BY <1>0, <1>1, <1>3, <1>4 DEF Living, Shape, Settled, approvalVars, InFlight
<1>9. Settled'
  BY <1>0, <1>1, <1>7, <1>8 DEF Settled, approvalVars
<1>10. RowsTrue'
  <2>1. \A t \in Living' : Document[t] \in refs'[t] /\ (t \notin Legacy => Evidence(t)' \subseteq refs'[t])
    <3>1. Document[s] \in Evidence(s)
      BY DEF Evidence
    <3>2. QED
      BY <1>0, <1>6, <1>7, <1>8, <3>1 DEF RowsTrue
  <2>2. \A t \in Scans : refs'[t] \subseteq Bodies \cup {Document[t]}
    <3>1. Evidence(s) \subseteq Bodies \cup {Document[s]}
      BY <1>2 DEF Evidence
    <3>2. QED
      BY <1>0, <1>7, <1>8, <3>1 DEF RowsTrue
  <2>3. \A t \in Scans : scan'[t].at # "over" => refs'[t] = {}
    BY <1>0, <1>7, <1>8 DEF RowsTrue
  <2>4. QED
    BY <2>1, <2>2, <2>3 DEF RowsTrue
<1>11. NewDocuments'
  BY <1>0, <1>1, <1>7, <1>8 DEF NewDocuments
<1>12. Claimed'
  <2> SUFFICES ASSUME NEW t \in Scans, InFlight(t)', NEW a \in scan'[t].names
               PROVE  claim'[a] = "fresh" \/ a \in shared'
    BY DEF Claimed
  <2>1. t # s /\ InFlight(t) /\ a \in scan[t].names /\ a \in Artifacts
    BY <1>0, <1>7, <1>8, EvidenceType, Keys
  <2>2. a \in HeldBeside(s)
    BY <2>1 DEF HeldBeside, Holds
  <2>3. claim[a] = "fresh" \/ a \in shared
    BY <1>0, <2>1 DEF Claimed
  <2>4. CASE a \in Evidence(s)
    BY <1>1, <2>2, <2>4 DEF Bereft
  <2>5. CASE a \notin Evidence(s)
    BY <1>1, <2>1, <2>2, <2>3, <2>5
  <2>6. QED
    BY <2>4, <2>5
<1>13. \A a : There(a)' = There(a)
  BY <1>1 DEF There
<1>14. InHand'
  BY <1>0, <1>7, <1>8, <1>13 DEF InHand
<1>15. EvidenceKept'
  <2>1. \A a \in Evidence(s) : There(a)
    <3>1. There(Document[s])
      BY <1>0, <1>1 DEF NewDocuments, There
    <3>2. QED
      BY <1>0, <1>1, <3>1 DEF InHand, Evidence
  <2>2. \A t \in Living : \A a \in Evidence(t) : There(a)
    BY <1>0 DEF EvidenceKept, Kept, Living, There
  <2>3. \A t \in Living' : Kept(t)'
    BY <1>6, <1>8, <1>13, <2>1, <2>2 DEF Kept, There
  <2>4. QED
    BY <2>3 DEF EvidenceKept, Living
<1>16. Judged'
  <2> SUFFICES ASSUME NEW c \in Collectors PROVE RowsRead(c)' /\ ClaimsRead(c)' /\ UnknownRead(c)'
    BY DEF Judged
  <2>1. RowsRead(c) /\ ClaimsRead(c) /\ UnknownRead(c) /\ collector[c] \in CollectorType
    BY <1>0 DEF Judged, Shape
  <2>2. touched'[c] = touched[c] \cup (Evidence(s) \cap collector[c].page) /\ collector' = collector
    BY <1>1
  <2>3. RowsRead(c)'
    BY <1>7, <1>8, <2>1, <2>2 DEF RowsRead
  <2>4. ClaimsRead(c)'
    BY <1>1, <2>1, <2>2 DEF ClaimsRead, CollectorType
  <2>5. UnknownRead(c)'
    BY <1>1, <1>8, <2>1, <2>2 DEF UnknownRead
  <2>6. QED
    BY <2>3, <2>4, <2>5
<1>17. QED
  BY <1>5, <1>9, <1>10, <1>11, <1>12, <1>14, <1>15, <1>16 DEF IInv, StoreInv

\* Every step of a scan keeps the invariant.
LEMMA ScanKeeps ==
    ASSUME IInv, NEW s \in Scans, ScanNext(s)
    PROVE  IInv'
<1>0. /\ Shape /\ Settled /\ NewDocuments /\ Claimed /\ InHand
      /\ scan[s] \in ScanType /\ OneItem(scan[s])
      /\ scan[s].names \in SUBSET Bodies /\ scan[s].item \in SUBSET Bodies /\ scan[s].failed \in SUBSET Bodies
      /\ Document[s] \in Artifacts /\ Bodies \subseteq Artifacts
  BY Keys DEF IInv, StoreInv, Shape, ScanType
<1>1. CASE StartScan(s)
  <2> DEFINE r == [at |-> "capture", item |-> {}, names |-> {}, failed |-> {}]
  <2>1. r \in ScanType
    BY ScanRecord DEF Stages
  <2>2. /\ scan[s].at # "over" /\ scan' = [scan EXCEPT ![s] = r]
        /\ UNCHANGED <<results, refs, approvalVars, collector, object, claim, touched, raced, shared>>
    BY <1>1 DEF StartScan, Goes, indexVars, histVars
  <2>3. HandsFull(s, r)
    BY DEF HandsFull, OneItem
  <2> HIDE DEF r
  <2>4. QED
    BY <1>0, <2>1, <2>2, <2>3, NothingStored, ScanMoves
<1>2. ASSUME NEW a \in Bodies, TakeArtifact(s, a) PROVE IInv'
  <2> DEFINE place == IF object[a] = "absent" THEN "write" ELSE "claim"
             r == [at |-> place, item |-> {a}, names |-> scan[s].names, failed |-> scan[s].failed]
  <2>1. r \in ScanType
    BY <1>0, ScanRecord DEF Stages
  <2>2. /\ scan[s].at = "capture" /\ scan' = [scan EXCEPT ![s] = r]
        /\ UNCHANGED <<results, refs, approvalVars, collector, object, claim, touched, raced, shared>>
    BY <1>2 DEF TakeArtifact, Goes, indexVars, histVars
  <2>3. \A b \in scan[s].names : There(b) /\ (claim[b] = "fresh" \/ b \in shared)
    BY <1>0, <2>2 DEF Claimed, InHand, InFlight
  <2>4. HandsFull(s, r)
    BY <2>2, <2>3 DEF HandsFull, OneItem, There
  <2> HIDE DEF r
  <2>5. QED
    BY <1>0, <2>1, <2>2, <2>4, NothingStored, ScanMoves
<1>3. CASE WriteArtifact(s)
  <2> DEFINE r == [at |-> "claim", item |-> scan[s].item, names |-> scan[s].names, failed |-> scan[s].failed]
  <2>1. r \in ScanType
    BY <1>0, ScanRecord DEF Stages
  <2>2. PICK a \in scan[s].item : /\ object' = [object EXCEPT ![a] = IF @ = "absent" THEN "young" ELSE @]
                                  /\ raced' = raced \ {a}
    BY <1>3 DEF WriteArtifact
  <2>3. /\ scan[s].at = "write" /\ scan' = [scan EXCEPT ![s] = r]
        /\ UNCHANGED <<results, refs, approvalVars, collector, claim, touched, shared>>
    BY <1>3 DEF WriteArtifact, Goes, indexVars
  <2>4. /\ object' \in [Artifacts -> {"absent", "young", "old"}] /\ object'[a] # "absent"
        /\ \A b \in Artifacts : object'[b] = object[b] \/ (object[b] = "absent" /\ object'[b] = "young")
        /\ \A b \in Artifacts \ {a} : object'[b] = object[b]
    BY <1>0, <2>2 DEF Shape
  <2>5. \A t \in Scans : Document[t] # a /\ Document[t] \in Artifacts
    BY <1>0, Keys
  <2>6. StoreGrows(s)
    BY <1>0, <2>2, <2>3, <2>4, <2>5 DEF StoreGrows, Shape
  <2>7. \A b \in scan[s].names : There(b) /\ (claim[b] = "fresh" \/ b \in shared)
    BY <1>0, <2>3 DEF Claimed, InHand, InFlight
  <2>8. \A b \in Artifacts : There(b) => There(b)'
    BY <2>2, <2>4 DEF There
  <2>9. scan[s].item = {a} /\ There(a)'
    BY <1>0, <2>4 DEF OneItem, There
  <2>10. HandsFull(s, r)
    BY <1>0, <2>3, <2>7, <2>8, <2>9 DEF HandsFull, OneItem
  <2> HIDE DEF r
  <2>11. QED
    BY <2>1, <2>3, <2>6, <2>10, ScanMoves
<1>4. CASE ClaimArtifact(s)
  <2> DEFINE r == [at |-> "capture", item |-> {}, names |-> scan[s].names \cup scan[s].item,
                   failed |-> scan[s].failed]
  <2>1. r \in ScanType
    BY <1>0, ScanRecord DEF Stages
  <2>2. PICK a \in scan[s].item : claim' = [claim EXCEPT ![a] = "fresh"] /\ shared' = shared \ {a}
    BY <1>4 DEF ClaimArtifact
  <2>3. /\ scan[s].at = "claim" /\ scan' = [scan EXCEPT ![s] = r]
        /\ UNCHANGED <<results, refs, approvalVars, collector, object, raced>>
        /\ touched' = [c \in Collectors |-> touched[c] \cup (scan[s].item \cap collector[c].page)]
    BY <1>4 DEF ClaimArtifact, Goes, Touch
  <2>4. /\ claim' \in [Artifacts -> {"none", "fresh", "stale"}]
        /\ \A b \in Artifacts : claim'[b] = IF b = a THEN "fresh" ELSE claim[b]
    BY <1>0, <2>2 DEF Shape
  <2>5. touched' \in [Collectors -> SUBSET Artifacts]
    BY <1>0, <2>3 DEF Shape
  <2>6. \A b \in Artifacts : claim[b] = "fresh" => claim'[b] = "fresh"
    BY <2>4
  <2>7. \A b \in Artifacts : claim'[b] = "fresh" /\ claim[b] # "fresh" =>
          \A c \in Collectors : b \in collector[c].page => b \in touched'[c]
    BY <2>3, <2>4
  <2>8. \A c \in Collectors : touched[c] \subseteq touched'[c]
    BY <2>3
  <2>9. \A t \in Scans \ {s} : InFlight(t) =>
          \A b \in scan[t].names \cap shared : b \in shared' \/ claim'[b] = "fresh"
    BY <1>0, <2>2, <2>4
  <2>10. StoreGrows(s)
    BY <1>0, <2>3, <2>4, <2>5, <2>6, <2>7, <2>8, <2>9 DEF StoreGrows, Shape
  <2>11. \A b \in scan[s].names \cup scan[s].item : There(b)'
    BY <1>0, <2>3 DEF InHand, InFlight, There
  <2>12. \A b \in scan[s].names : claim'[b] = "fresh" \/ b \in shared'
    BY <1>0, <2>2, <2>3, <2>4 DEF Claimed, InFlight
  <2>13. scan[s].item = {a} /\ claim'[a] = "fresh"
    BY <1>0, <2>4 DEF OneItem
  <2>14. HandsFull(s, r)
    BY <2>11, <2>12, <2>13 DEF HandsFull, OneItem
  <2> HIDE DEF r
  <2>15. QED
    BY <2>1, <2>3, <2>10, <2>14, ScanMoves
<1>5. CASE ArtifactFails(s)
  <2> DEFINE r == [at |-> "capture", item |-> {}, names |-> scan[s].names,
                   failed |-> scan[s].failed \cup scan[s].item]
  <2>1. r \in ScanType
    BY <1>0, ScanRecord DEF Stages
  <2>2. /\ scan[s].at \in {"write", "claim"} /\ scan' = [scan EXCEPT ![s] = r]
        /\ UNCHANGED <<results, refs, approvalVars, collector, object, claim, touched, raced, shared>>
    BY <1>5 DEF ArtifactFails, Goes, indexVars, histVars
  <2>3. \A b \in scan[s].names : There(b) /\ (claim[b] = "fresh" \/ b \in shared)
    BY <1>0, <2>2 DEF Claimed, InHand, InFlight
  <2>4. HandsFull(s, r)
    BY <2>2, <2>3 DEF HandsFull, OneItem, There
  <2> HIDE DEF r
  <2>5. QED
    BY <1>0, <2>1, <2>2, <2>4, NothingStored, ScanMoves
<1>6. CASE EndCapture(s)
  <2> DEFINE r == [at |-> "document", item |-> {}, names |-> scan[s].names, failed |-> scan[s].failed]
  <2>1. r \in ScanType
    BY <1>0, ScanRecord DEF Stages
  <2>2. /\ scan[s].at = "capture" /\ scan' = [scan EXCEPT ![s] = r]
        /\ UNCHANGED <<results, refs, approvalVars, collector, object, claim, touched, raced, shared>>
    BY <1>6 DEF EndCapture, Goes, indexVars, histVars
  <2>3. \A b \in scan[s].names : There(b) /\ (claim[b] = "fresh" \/ b \in shared)
    BY <1>0, <2>2 DEF Claimed, InHand, InFlight
  <2>4. HandsFull(s, r)
    BY <2>2, <2>3 DEF HandsFull, OneItem, There
  <2> HIDE DEF r
  <2>5. QED
    BY <1>0, <2>1, <2>2, <2>4, NothingStored, ScanMoves
<1>7. CASE PutDocument(s)
  <2> DEFINE r == [at |-> "commit", item |-> {}, names |-> scan[s].names, failed |-> scan[s].failed]
  <2>1. r \in ScanType
    BY <1>0, ScanRecord DEF Stages
  <2>2. /\ scan[s].at = "document" /\ scan' = [scan EXCEPT ![s] = r]
        /\ object' = [object EXCEPT ![Document[s]] = IF @ = "absent" THEN "young" ELSE @]
        /\ raced' = raced \ {Document[s]}
        /\ UNCHANGED <<results, refs, approvalVars, collector, claim, touched, shared>>
    BY <1>7 DEF PutDocument, Goes, indexVars
  <2>3. object[Document[s]] # "old"
    BY <1>0, <2>2 DEF NewDocuments
  <2>4. /\ object' \in [Artifacts -> {"absent", "young", "old"}] /\ object'[Document[s]] = "young"
        /\ \A b \in Artifacts : object'[b] = object[b] \/ (object[b] = "absent" /\ object'[b] = "young")
        /\ \A b \in Artifacts \ {Document[s]} : object'[b] = object[b]
    BY <1>0, <2>2, <2>3 DEF Shape
  <2>5. \A t \in Scans \ {s} : Document[t] # Document[s] /\ Document[t] \in Artifacts
    BY Keys
  <2>6. StoreGrows(s)
    BY <1>0, <2>2, <2>4, <2>5 DEF StoreGrows, Shape
  <2>7. \A b \in scan[s].names : There(b) /\ (claim[b] = "fresh" \/ b \in shared)
    BY <1>0, <2>2 DEF Claimed, InHand, InFlight
  <2>8. \A b \in Artifacts : There(b) => There(b)'
    BY <2>2, <2>4 DEF There
  <2>9. HandsFull(s, r)
    BY <1>0, <2>2, <2>4, <2>7, <2>8 DEF HandsFull, OneItem
  <2> HIDE DEF r
  <2>10. QED
    BY <2>1, <2>2, <2>6, <2>9, ScanMoves
<1>8. CASE CommitResult(s)
  BY <1>8, Stored
<1>9. CASE LoseScan(s)
  <2> DEFINE r == [at |-> "over", item |-> {}, names |-> {}, failed |-> {}]
  <2>1. r \in ScanType
    BY ScanRecord DEF Stages
  <2>2. /\ scan[s].at # "over" /\ scan' = [scan EXCEPT ![s] = r] /\ shared' = shared \cap HeldBeside(s)
        /\ UNCHANGED <<results, refs, approvalVars, collector, object, claim, touched, raced>>
    BY <1>9 DEF LoseScan, Goes, indexVars, InFlight
  <2>3. \A t \in Scans \ {s} : InFlight(t) => scan[t].names \subseteq HeldBeside(s)
    BY DEF HeldBeside, Holds
  <2>4. StoreGrows(s)
    BY <1>0, <2>2, <2>3 DEF StoreGrows, Shape
  <2>5. HandsFull(s, r)
    BY DEF HandsFull, OneItem
  <2> HIDE DEF r
  <2>6. QED
    BY <2>1, <2>2, <2>4, <2>5, ScanMoves
<1>10. QED
  BY <1>1, <1>2, <1>3, <1>4, <1>5, <1>6, <1>7, <1>8, <1>9 DEF ScanNext

-----------------------------------------------------------------------------
(* Approvals, and time.                                                       *)

\* SetBaseline and DeleteBaseline promise nothing that was not promised, since an
\* approval of a result that has gone is not pinned.
LEMMA ApprovalKeeps ==
    ASSUME IInv, ApprovalNext
    PROVE  IInv'
<1>0. Shape /\ Settled /\ RowsTrue /\ NewDocuments /\ Claimed /\ InHand /\ EvidenceKept /\ Judged
  BY DEF IInv, StoreInv
<1>1. /\ UNCHANGED <<object, claim, results, refs, scan, collector, touched, raced, shared>>
      /\ baseline' \subseteq baseline \cup approving
      /\ approving' \subseteq approving \cup (results \ Legacy)
      /\ pinned' \in BOOLEAN
      /\ pinned' => baseline' \subseteq results \/ (pinned /\ baseline' = baseline)
  <2>1. pinned \in BOOLEAN
    BY <1>0 DEF Shape
  <2>2. CASE \E s \in Scans : ReadForApproval(s)
    BY <2>1, <2>2 DEF ReadForApproval, indexVars, histVars
  <2>3. CASE Approve
    BY <2>3 DEF Approve, indexVars, histVars
  <2>4. CASE ApprovalFails
    BY <2>1, <2>4 DEF ApprovalFails, indexVars, histVars
  <2>5. CASE DeleteBaseline
    BY <2>5 DEF DeleteBaseline, indexVars, histVars
  <2>6. QED
    BY <2>2, <2>3, <2>4, <2>5 DEF ApprovalNext
<1>2. Living' \subseteq Living /\ Living \subseteq Scans
  BY <1>0, <1>1 DEF Living, Shape
<1>3. Shape'
  BY <1>0, <1>1 DEF Shape
<1>4. Settled'
  BY <1>0, <1>1, <1>2 DEF Settled
<1>5. \A s \in Scans : Evidence(s)' = Evidence(s) /\ InFlight(s)' = InFlight(s) /\ Kept(s)' = Kept(s)
  BY <1>1 DEF Evidence, InFlight, Kept
<1>6. RowsTrue'
  BY <1>0, <1>1, <1>2, <1>5 DEF RowsTrue
<1>7. NewDocuments' /\ Claimed' /\ InHand'
  BY <1>0, <1>1, <1>5 DEF NewDocuments, Claimed, InHand, There
<1>8. EvidenceKept'
  <2>1. \A s \in Living : Kept(s)
    BY <1>0 DEF EvidenceKept, Living
  <2>2. \A s \in Living' : Kept(s)'
    BY <1>2, <1>5, <2>1
  <2>3. QED
    BY <2>2 DEF EvidenceKept, Living
<1>9. Judged'
  BY <1>0, <1>1, <1>2 DEF Judged, RowsRead, ClaimsRead, UnknownRead
<1>10. QED
  BY <1>3, <1>4, <1>6, <1>7, <1>8, <1>9 DEF IInv, StoreInv

\* The grace period runs out for what no scan in flight holds.
LEMMA AgesKeep ==
    ASSUME IInv, NEW a \in Artifacts, AgeObject(a) \/ AgeClaim(a)
    PROVE  IInv'
<1>0. Shape /\ Settled /\ RowsTrue /\ NewDocuments /\ Claimed /\ InHand /\ EvidenceKept /\ Judged
  BY DEF IInv, StoreInv
<1>1. /\ UNCHANGED <<results, refs, baseline, approving, pinned, scan, collector, touched, raced, shared>>
      /\ Unheld(a)
      /\ object' \in [Artifacts -> {"absent", "young", "old"}] /\ claim' \in [Artifacts -> {"none", "fresh", "stale"}]
      /\ \A b \in Artifacts : object'[b] = object[b] \/ (b = a /\ object[b] = "young" /\ object'[b] = "old")
      /\ \A b \in Artifacts : claim'[b] = claim[b] \/ (b = a /\ claim'[b] = "stale")
  BY <1>0 DEF AgeObject, AgeClaim, indexVars, approvalVars, histVars, Shape
<1>2. Living' = Living /\ Living \subseteq Scans
  BY <1>0, <1>1 DEF Living, Shape
<1>3. Shape'
  BY <1>0, <1>1 DEF Shape
<1>4. Settled'
  BY <1>0, <1>1, <1>2 DEF Settled
<1>5. \A s \in Scans : Evidence(s)' = Evidence(s) /\ InFlight(s)' = InFlight(s)
  BY <1>1 DEF Evidence, InFlight
<1>6. RowsTrue'
  BY <1>0, <1>1, <1>2, <1>5 DEF RowsTrue
<1>7. NewDocuments'
  <2> SUFFICES ASSUME NEW s \in Scans, scan[s].at # "over"
               PROVE  object'[Document[s]] = object[Document[s]]
    BY <1>0, <1>1 DEF NewDocuments
  <2>1. Document[s] \in Artifacts /\ scan[s].at \in Stages
    BY <1>0, Keys DEF Shape, ScanType
  <2>2. CASE scan[s].at = "idle"
    BY <1>0, <1>1, <2>1, <2>2 DEF NewDocuments
  <2>3. CASE InFlight(s)
    BY <1>1, <2>1, <2>3 DEF Unheld, Holds
  <2>4. QED
    BY <2>1, <2>2, <2>3 DEF InFlight, Stages
<1>8. Claimed'
  <2> SUFFICES ASSUME NEW s \in Scans, InFlight(s), NEW b \in scan[s].names
               PROVE  claim'[b] = "fresh" \/ b \in shared
    BY <1>1, <1>5 DEF Claimed
  <2>1. b \in Artifacts /\ b # a
    BY <1>0, <1>1, EvidenceType, Keys DEF Unheld, Holds
  <2>2. QED
    BY <1>0, <1>1, <2>1 DEF Claimed
<1>9. \A b \in Artifacts : There(b) => There(b)'
  BY <1>1 DEF There
<1>10. InHand'
  BY <1>0, <1>1, <1>5, <1>9, EvidenceType, Keys DEF InHand
<1>11. EvidenceKept'
  <2>1. \A s \in Living : \A b \in Evidence(s) : There(b)'
    BY <1>0, <1>2, <1>9, EvidenceType DEF EvidenceKept, Kept, Living, There
  <2>2. \A s \in Living' : Kept(s)'
    BY <1>2, <1>5, <2>1 DEF Kept, There
  <2>3. QED
    BY <2>2 DEF EvidenceKept, Living
<1>12. Judged'
  <2> SUFFICES ASSUME NEW c \in Collectors PROVE RowsRead(c)' /\ ClaimsRead(c)' /\ UnknownRead(c)'
    BY DEF Judged
  <2>1. RowsRead(c) /\ ClaimsRead(c) /\ UnknownRead(c) /\ collector[c] \in CollectorType
    BY <1>0 DEF Judged, Shape
  <2>2. RowsRead(c)'
    BY <1>1, <1>2, <2>1 DEF RowsRead
  <2>3. ClaimsRead(c)'
    BY <1>1, <2>1 DEF ClaimsRead, CollectorType
  <2>4. UnknownRead(c)'
    BY <1>1, <2>1 DEF UnknownRead
  <2>5. QED
    BY <2>2, <2>3, <2>4
<1>13. QED
  BY <1>3, <1>4, <1>6, <1>7, <1>8, <1>10, <1>11, <1>12 DEF IInv, StoreInv

\* What an older wsaw left is all there.
LEMMA StoreStarts == Init => IInv
<1> SUFFICES ASSUME Init PROVE IInv
  OBVIOUS
<1>1. \A s \in Scans : /\ scan[s] \in [at : {"idle", "over"}, item : {{}}, names : SUBSET Bodies, failed : {{}}]
                       /\ IF s \in Legacy THEN scan[s].at = "over" ELSE scan[s].at = "idle" /\ scan[s].names = {}
  BY DEF Init
<1>2. scan \in [Scans -> ScanType]
  <2>1. [at : {"idle", "over"}, item : {{}}, names : SUBSET Bodies, failed : {{}}] \subseteq ScanType
    BY DEF ScanType, Stages
  <2>2. scan \in [Scans -> [at : {"idle", "over"}, item : {{}}, names : SUBSET Bodies, failed : {{}}]]
    BY DEF Init
  <2>3. QED
    BY <2>1, <2>2
<1>3. \A s \in Scans : scan[s].names \subseteq Bodies /\ scan[s].item = {} /\ ~InFlight(s)
  BY <1>1 DEF InFlight
<1>4. Living = Legacy /\ Legacy \subseteq Scans
  BY LegacyAssumption DEF Init, Living
<1>5. \A s \in Scans : refs[s] = IF s \in Legacy THEN {Document[s]} ELSE {}
  BY DEF Init
<1>6. \A s \in Scans : Evidence(s) \subseteq Artifacts
  BY <1>3, Keys DEF Evidence
<1>7. Shape
  <2>1. object \in [Artifacts -> {"absent", "young", "old"}] /\ claim \in [Artifacts -> {"none", "fresh", "stale"}]
    BY DEF Init
  <2>2. results \subseteq Scans /\ baseline \subseteq Scans /\ approving \subseteq Scans /\ pinned \in BOOLEAN
    BY <1>4 DEF Init
  <2>3. refs \in [Scans -> SUBSET Artifacts]
    BY Keys DEF Init
  <2>4. collector \in [Collectors -> CollectorType] /\ touched \in [Collectors -> SUBSET Artifacts]
    BY Rest DEF Init
  <2>5. \A s \in Scans : OneItem(scan[s])
    BY <1>3 DEF OneItem
  <2>6. QED
    BY <1>2, <2>1, <2>2, <2>3, <2>4, <2>5 DEF Shape
<1>8. Settled
  BY <1>1, <1>4 DEF Settled, Init
<1>9. RowsTrue
  <2>1. \A s \in Living : Document[s] \in refs[s] /\ (s \notin Legacy => Evidence(s) \subseteq refs[s])
    BY <1>4, <1>5
  <2>2. \A s \in Scans : refs[s] \subseteq Bodies \cup {Document[s]}
    BY <1>5
  <2>3. \A s \in Scans : scan[s].at # "over" => refs[s] = {}
    BY <1>1, <1>5
  <2>4. QED
    BY <2>1, <2>2, <2>3 DEF RowsTrue
<1>10. NewDocuments
  <2> SUFFICES ASSUME NEW s \in Scans, scan[s].at # "over"
               PROVE  /\ object[Document[s]] = "absent" /\ scan[s].at # "commit"
                      /\ \A c \in Collectors : Document[s] \notin collector[c].page
    BY DEF NewDocuments
  <2>1. s \notin Legacy /\ scan[s].at = "idle"
    BY <1>1
  <2>2. \A t \in Legacy : Document[s] \notin Evidence(t)
    BY <1>3, <1>4, <2>1, Keys DEF Evidence
  <2>3. object[Document[s]] = "absent"
    BY <2>2, Keys DEF Init
  <2>4. \A c \in Collectors : collector[c].page = {}
    BY Rest DEF Init
  <2>5. QED
    BY <2>1, <2>3, <2>4
<1>11. Claimed /\ InHand
  BY <1>3 DEF Claimed, InHand, InFlight
<1>12. EvidenceKept
  <2>1. \A s \in Legacy : \A a \in Evidence(s) : object[a] = "old"
    BY <1>4, <1>6 DEF Init
  <2>2. QED
    BY <2>1 DEF EvidenceKept, Kept, Init
<1>13. Judged
  BY Rest DEF Init, Judged, RowsRead, ClaimsRead, UnknownRead
<1>14. QED
  BY <1>7, <1>8, <1>9, <1>10, <1>11, <1>12, <1>13 DEF IInv, StoreInv

\* What a stored result, or a baseline approved while its result was stored, names is
\* in the bucket, whatever scans, approvals and collectors do at once, unless it was
\* removed while a scan was taking or storing it, or after the commit of another scan
\* released its claim (PutArtifact, PutResult, SetBaseline, Prune, Sweep).
THEOREM EvidenceStays == Spec => []EvidenceKept
<1>1. Init => IInv
  BY StoreStarts
<1>2. IInv /\ [Next]_vars => IInv'
  <2> SUFFICES ASSUME IInv, [Next]_vars PROVE IInv'
    OBVIOUS
  <2>1. CASE \E s \in Scans : ScanNext(s)
    BY <2>1, ScanKeeps
  <2>2. CASE ApprovalNext
    BY <2>2, ApprovalKeeps
  <2>3. CASE \E c \in Collectors : CollectorNext(c)
    BY <2>3, CollectorKeeps
  <2>4. CASE \E a \in Artifacts : AgeObject(a) \/ AgeClaim(a)
    BY <2>4, AgesKeep
  <2>5. CASE UNCHANGED vars
    BY <2>5 DEF vars, indexVars, approvalVars, histVars, IInv, StoreInv, Shape, Settled, RowsTrue,
                NewDocuments, Claimed, InHand, There, EvidenceKept, Kept, Living, Evidence, InFlight,
                Judged, RowsRead, ClaimsRead, UnknownRead, OneItem
  <2>6. QED
    BY <2>1, <2>2, <2>3, <2>4, <2>5 DEF Next
<1>3. IInv => EvidenceKept
  BY DEF IInv, StoreInv
<1>4. QED
  BY <1>1, <1>2, <1>3, PTL DEF Spec
================================================================================
