--------------------------------- MODULE Drift ---------------------------------
(* What a scan's comparison says of the site (diff/diff.go, scanner.go, the   *)
(* score of confidence.go).  A site asks for assets, each of which is asked   *)
(* for by the page or by another asset; a scan may fail to observe some, and  *)
(* what they would have asked for is then missing from its list.  Each scan   *)
(* of one series is compared with its base: the last scan that succeeded, or  *)
(* the one an operator approved.                                              *)
EXTENDS Integers, FiniteSets

CONSTANTS Assets, Page,
          Cause,          \* [Assets -> Assets \cup {Page}]: who asks for it
          Domains, Domain,\* [Assets -> Domains]
          Script, Versions, \* the asset whose body is compared, and its versions
          Setters,        \* assets that set a cookie when they load
          Outcomes,       \* of the consent interaction
          Stacks,         \* whether Chrome may report whole script stacks, or not
          Allow, Deny,    \* host lists of the target
          Healthy,        \* requests of the page that always succeed
          RatioNum, RatioDen  \* DegradedFailureRatio

\* Nothing asks for itself, by however many others.
Acyclic == \E depth \in [Assets -> 1..Cardinality(Assets)] :
  \A a \in Assets : Cause[a] = Page \/ depth[Cause[a]] < depth[a]
DriftAssumption ==
  /\ IsFiniteSet(Assets) /\ Page \notin Assets /\ Cause \in [Assets -> Assets \cup {Page}] /\ Acyclic
  /\ Domain \in [Assets -> Domains] /\ Stacks \subseteq BOOLEAN /\ Healthy \in Nat \ {0}
  /\ RatioNum \in Nat /\ RatioDen \in Nat /\ Assets \cap Domains = {}

VARIABLES basis,          \* detection.baseline: "previous" or "approved"
          base,           \* the stored result to compare with, a set of at most one
          gone,           \* its document has left the bucket
          latest,         \* the scan that has just ended, a set of at most one
          report,         \* [comparable, reason, changes, suppressed], and whether the
                          \* base had recorded whole stacks
          known           \* history: domains reported as added or allowed, approved, or
                          \* in a report that said it compared nothing

vars == <<basis, base, gone, latest, report, known>>

\* What asked for a, what asked for that, and so on to the page.
Upward(S) == \A a \in S : Cause[a] \in S \cup {Page}
Chain(a) == {b \in Assets : \A S \in SUBSET Assets : Cause[a] \in S \cup {Page} /\ Upward(S) => b \in S}
Fates == {"absent", "ok", "lost", "declined"}
Scan == [fate : [Assets -> Fates], stack : Stacks, digest : Versions \cup {0}, consent : Outcomes,
         end : {"idle", "cut", "failed"}, stored : BOOLEAN, asks : SUBSET Assets]
Types == {"host-added", "host-removed", "asset-added", "asset-removed", "script-changed",
          "cookie-added", "cookie-removed", "consent-changed", "denied-host", "scan-degraded"}
Nothing == [comparable |-> FALSE, reason |-> "", changes |-> {}, suppressed |-> 0, stack |-> FALSE]

TypeOK ==
  /\ basis \in {"previous", "approved"} /\ gone \in BOOLEAN
  /\ base \subseteq Scan /\ Cardinality(base) <= 1 /\ latest \subseteq Scan /\ Cardinality(latest) <= 1
  /\ \A r \in base : r.end # "failed"
  /\ report.comparable \in BOOLEAN /\ report.suppressed \in Nat
  /\ \A c \in report.changes : c.type \in Types
  /\ known \subseteq Domains

Init ==
  /\ basis \in {"previous", "approved"}
  /\ base = {} /\ gone = FALSE /\ latest = {} /\ report = Nothing
  /\ known = {}

-----------------------------------------------------------------------------
(* A scan                                                                    *)

\* Requests are made by what has loaded.  A lost one never opened a connection or
\* never completed; a declined one is the page's own doing (net::ERR_ABORTED).
Observed(asks, end) ==
  {f \in [Assets -> Fates] : \A a \in Assets :
     LET asked == a \in asks /\ (Cause[a] = Page \/ f[Cause[a]] = "ok")
     IN IF asked THEN end = "cut" \/ f[a] # "absent" ELSE f[a] = "absent"}

Requested(s) == {a \in Assets : s.fate[a] # "absent"}
Loaded(s) == {a \in Assets : s.fate[a] = "ok"}
Hosts(s) == {Domain[a] : a \in Requested(s)}
Cookies(s) == Loaded(s) \cap Setters

\* Request.Incomplete and IncompleteRatio.
Lost(s) == {a \in Assets : s.fate[a] = "lost"}
Total(s) == Healthy + Cardinality(Requested(s))
Degraded(s) == Cardinality(Lost(s)) * RatioDen >= RatioNum * Total(s)
Unobserved(s) == {Domain[a] : a \in Lost(s)}

\* Chrome reports the whole script stack only where it can.
Initiators(s, a) == {Domain[b] : b \in IF s.stack THEN Chain(a) ELSE {Cause[a]} \ {Page}}

-----------------------------------------------------------------------------
(* Compare                                                                   *)

Change(type, subject) == [type |-> type, subject |-> subject]
Suppressible == Types \ {"consent-changed", "denied-host", "scan-degraded"}
DomainOf(c) == IF c.subject \in Assets THEN Domain[c.subject] ELSE c.subject
Suppressed(c) == c.type \in Suppressible /\ DomainOf(c) \in Allow

\* Mutant: the gap is looked for where the asset is, not along what asks for it.
GapAtDomainOnly(s, domain, initiators) == Degraded(s) \/ domain \in Unobserved(s)
RemovalUnprovable(s, domain, initiators) ==
  Degraded(s) \/ domain \in Unobserved(s) \/ initiators \cap Unobserved(s) # {}

Added(b, s) ==
  {Change("host-added", h) : h \in Hosts(s) \ Hosts(b)}
  \cup {Change("asset-added", a) : a \in Requested(s) \ Requested(b)}
  \cup {Change("cookie-added", a) : a \in Cookies(s) \ Cookies(b)}
\* A host has no initiators to ask about, and a cookie is not asked about at all.
Removed(b, s) ==
  {Change("host-removed", h) : h \in {d \in Hosts(b) \ Hosts(s) : ~RemovalUnprovable(s, d, {})}}
  \cup {Change("asset-removed", a) : a \in {x \in Requested(b) \ Requested(s) :
          ~RemovalUnprovable(s, Domain[x], Initiators(b, x))}}
  \cup {Change("cookie-removed", a) : a \in Cookies(b) \ Cookies(s)}
Withheld(b, s) ==
  Cardinality({h \in Hosts(b) \ Hosts(s) : RemovalUnprovable(s, h, {})})
  + Cardinality({a \in Requested(b) \ Requested(s) : RemovalUnprovable(s, Domain[a], Initiators(b, a))})
\* scriptIdentity: without a value on both sides there is nothing to compare.
Changed(b, s) ==
  {Change("script-changed", a) : a \in {x \in {Script} \cap Requested(b) \cap Requested(s) :
     b.digest # 0 /\ s.digest # 0 /\ b.digest # s.digest}}
  \cup {Change("consent-changed", o) : o \in {s.consent} \ {b.consent}}
Denied(s) == {Change("denied-host", h) : h \in Hosts(s) \cap Deny}
Flagged(b, s) ==
  {Change("scan-degraded", w) : w \in {x \in {"cut", "current", "baseline"} :
     \/ x = "cut" /\ s.end = "cut"
     \/ x = "current" /\ Degraded(s)
     \/ x = "baseline" /\ Degraded(b)}}

Incomparable(reason, changes) == [Nothing EXCEPT !.reason = reason, !.changes = changes]
\* The caller names the reason when the base's evidence has gone.
Compare(b, s, evidenceGone) ==
  IF s.end = "failed" THEN Incomparable("failed", {Change("scan-degraded", "failed")})
  ELSE IF b = {} THEN Incomparable(IF evidenceGone THEN "gone" ELSE "none", {})
  ELSE LET base1 == CHOOSE r \in b : TRUE
           diffs == Added(base1, s) \cup Removed(base1, s) \cup Changed(base1, s)
       IN IF base1.end = "failed" THEN Incomparable("base", {})
          ELSE [comparable |-> TRUE, reason |-> "", stack |-> base1.stack,
                changes |-> {c \in diffs : ~Suppressed(c)} \cup Denied(s) \cup Flagged(base1, s),
                suppressed |-> Withheld(base1, s) + Cardinality({c \in diffs : Suppressed(c)})]

-----------------------------------------------------------------------------
(* Score                                                                     *)

\* A ratio is worth fetchesPerRatio points, rounded, and at most penaltyFetchesMax.
LowerOf(a, b) == IF a < b THEN a ELSE b
Points(s, duration) ==
  (IF s.end = "cut" THEN 25 ELSE 0)
  + LowerOf(60, (800 * Cardinality(Lost(s)) + Total(s)) \div (2 * Total(s)))
  + duration
  + (CASE s.consent = "failed" -> 40 [] OTHER -> 0)
Floored(points) == IF points > 100 THEN 0 ELSE 100 - points
Capped(s, score) == IF Degraded(s) THEN LowerOf(score, 59) ELSE score
Score(s, duration) == LET score == Capped(s, Floored(Points(s, duration)))
  IN CASE s.end = "failed" -> "none" [] score >= 90 -> "high" [] score >= 60 -> "medium" [] OTHER -> "low"

-----------------------------------------------------------------------------
(* Steps                                                                     *)

\* PreviousResult: neither failed nor skipped.
IsBase(s) == s.end # "failed"

\* A result that could not be stored has no place in the series' order, so nothing
\* comes before it.
BaseFor(stored) == IF gone \/ (basis = "previous" /\ ~stored) THEN {} ELSE base

\* What the site asks for, and its script, may have changed since the last scan; a
\* scan that failed has no list.
ScanIt == report = Nothing /\ \E asks \in SUBSET Assets, end \in {"idle", "cut", "failed"} :
  \E fate \in IF end = "failed" THEN {[a \in Assets |-> "absent"]} ELSE Observed(asks, end),
     stack \in Stacks, consent \in Outcomes, stored \in BOOLEAN :
  \E digest \in IF fate[Script] = "ok" THEN Versions \cup {0} ELSE {0} :
  LET s == [fate |-> fate, stack |-> stack, digest |-> digest, consent |-> consent,
            end |-> end, stored |-> stored, asks |-> asks]
      r == Compare(BaseFor(stored), s, gone)
  IN /\ report' = r /\ latest' = {s}
     /\ known' = known \cup {d \in Domains : Change("host-added", d) \in r.changes}
                       \cup (Hosts(s) \cap Allow)
                       \cup IF r.reason \in {"none", "gone"} THEN Hosts(s) ELSE {}
     /\ UNCHANGED <<basis, base, gone>>

\* The next scan is compared with the last one that is stored and is a base.
Follow ==
  /\ latest # {} /\ latest' = {} /\ report' = Nothing
  /\ IF basis = "previous" /\ \E s \in latest : s.stored /\ IsBase(s)
     THEN base' = {[s EXCEPT !.asks = {}] : s \in latest} /\ gone' = FALSE
     ELSE UNCHANGED <<base, gone>>
  /\ UNCHANGED <<basis, known>>

\* SetBaseline copies the approved result, so its evidence cannot go; a scan that
\* failed is refused.
Approve ==
  /\ basis = "approved" /\ \E s \in latest : s.stored /\ s.end # "failed" /\ base' = {[s EXCEPT !.asks = {}]}
  /\ known' = known \cup UNION {Hosts(s) : s \in latest}
  /\ UNCHANGED <<basis, gone, latest, report>>

DeleteBaseline ==
  /\ basis = "approved" /\ base # {} /\ base' = {}
  /\ UNCHANGED <<basis, gone, latest, report, known>>

LoseEvidence ==
  /\ basis = "previous" /\ base # {} /\ latest = {} /\ gone' = TRUE
  /\ UNCHANGED <<basis, base, latest, report, known>>

Next == ScanIt \/ Follow \/ Approve \/ DeleteBaseline \/ LoseEvidence
Spec == Init /\ [][Next]_vars

-----------------------------------------------------------------------------
(* No host slips in: one that was contacted in a scan that succeeded was      *)
(* reported as added, is on the allow list, was approved, or was in a report  *)
(* that said it had nothing to compare with, whatever failed in between.      *)
NothingSlipsIn == \A s \in latest : Hosts(s) \subseteq known

(* An asset is reported as removed only if the site no longer asks for it, or *)
(* the page itself declined what would have asked, or the report says that    *)
(* the scan is not to be trusted; wherever Chrome reported the whole stack.   *)
Unreachable(s, a) == \E b \in Chain(a) \cup {a} : b \notin s.asks \/ s.fate[b] = "declined"
SaysIncomplete == \E w \in {"cut", "current"} : Change("scan-degraded", w) \in report.changes
RemovalIsReal == \A s \in latest, a \in Assets :
  Change("asset-removed", a) \in report.changes /\ report.stack => SaysIncomplete \/ Unreachable(s, a)

(* A scan the comparison calls degraded, or whose consent a notification      *)
(* warns about, is never banded as one to be trusted.                         *)
BandAgrees == \A s \in latest, duration \in {0, 15, 30} :
  /\ Change("scan-degraded", "current") \in report.changes => Score(s, duration) = "low"
  /\ s.consent = "failed" => Score(s, duration) # "high"
================================================================================
