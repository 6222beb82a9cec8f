--------------------------------- MODULE Shares ---------------------------------
(* Links to one stored scan (share/share.go, httpapi/sharing.go, cmd/wsaw/    *)
(* share.go) and the evidence behind them, which is copied through wsaw or    *)
(* handed over as a signed URL of the bucket (httpapi/artifacts.go).  Nothing *)
(* is stored for a link: the key signs it, its claims say what it opens.      *)
EXTENDS Naturals, FiniteSets

CONSTANTS Scans, Refs, Names,   \* Names[s]: the artifacts the result of scan s names
          SeriesOf,         \* SeriesOf[s]: the scans of the target and mode of s
          Readers,        \* requests of whoever holds a link
          Keys,           \* signing keys: the operator moves from one to the next
          Validity,       \* lifetimes a caller asks for; 0 is the default
          DefaultValidity, MaxValidity, SignedTtl, SignLimit, MaxClock, MaxLinks, NoKey

SharesAssumption ==
  /\ Names \in [Scans -> SUBSET Refs] /\ SeriesOf \in [Scans -> SUBSET Scans] /\ Validity \subseteq Nat
  /\ DefaultValidity \in Nat /\ MaxValidity \in Nat /\ DefaultValidity <= MaxValidity
  /\ SignedTtl \in Nat \ {0} /\ SignLimit \in Nat /\ MaxClock \in Nat /\ NoKey \notin Keys

VARIABLES
  now, stored,            \* the clock; the scans and artifacts that are there
  written, inUse,         \* api.share.key in the configuration, and in the daemon
  rotated,                \* history, rotated[k]: when the configuration left key k
  swapped,                \* history, swapped[k]: when the daemon did
  noSigning,              \* the bucket was found unable to sign
  links,                  \* minted: [key, scan, exp]
  request,                \* request[r]: [at, link, ref, ttl, since]
  signed,                 \* signed URLs of the bucket: [ref, exp, link]
  reads                   \* history: what left the host last, [link, what, beside, at]

vars == <<now, stored, written, inUse, rotated, swapped, noSigning, links, request, signed, reads>>
keyVars == <<written, inUse, rotated, swapped>>

Link == [key : Keys, scan : Scans, exp : 0..MaxClock + MaxValidity]
Idle == [at |-> "idle", link |-> {}, ref |-> {}, ttl |-> 0, since |-> 0]
NotYet == MaxClock + 1

TypeOK ==
  /\ now \in 0..MaxClock /\ stored \subseteq Scans /\ written \in Keys /\ inUse \in Keys \cup {NoKey}
  /\ rotated \in [Keys -> 0..NotYet] /\ swapped \in [Keys -> 0..NotYet] /\ noSigning \in BOOLEAN
  /\ links \subseteq Link
  /\ \A r \in Readers : request[r].at \in {"idle", "allowed", "signing"} /\ request[r].link \subseteq links
                        /\ request[r].ref \subseteq Refs /\ request[r].ttl \in 0..SignedTtl
  /\ signed \subseteq [ref : Refs, exp : Nat, link : links]
  /\ reads \subseteq [link : links, what : Scans \cup Refs, beside : SUBSET Scans, at : 0..MaxClock]

Init ==
  /\ now = 0 /\ stored = Scans /\ written \in Keys /\ inUse = written
  /\ rotated = [k \in Keys |-> NotYet] /\ swapped = [k \in Keys |-> NotYet] /\ noSigning = FALSE
  /\ links = {} /\ request = [r \in Readers |-> Idle] /\ signed = {} /\ reads = {}

-----------------------------------------------------------------------------
(* Minting: by the daemon with the key it runs with, or by the command, which *)
(* reads the configuration.                                                   *)

Lifetime(v) == IF v = 0 THEN DefaultValidity ELSE IF v > MaxValidity THEN MaxValidity ELSE v
Mint(key) == \E s \in stored, v \in Validity :
  /\ key # NoKey /\ Cardinality(links) < MaxLinks
  /\ links' = links \cup {[key |-> key, scan |-> s, exp |-> now + Lifetime(v)]}
  /\ UNCHANGED <<now, stored, keyVars, noSigning, request, signed, reads>>
HandleMintShare == Mint(inUse)
CmdShare == Mint(written)

\* The operator writes another key, never one used before.
RotateKey == \E k \in Keys :
  /\ k # written /\ rotated[k] = NotYet /\ rotated[written] = NotYet
  /\ written' = k /\ rotated' = [rotated EXCEPT ![written] = now]
  /\ UNCHANGED <<now, stored, inUse, swapped, noSigning, links, request, signed, reads>>
\* buildShareSigner: the key is read when the daemon starts, no reload takes it.
Restart ==
  /\ inUse' = written /\ noSigning' = FALSE
  /\ swapped' = IF inUse = written THEN swapped ELSE [swapped EXCEPT ![inUse] = now]
  /\ request' = [r \in Readers |-> Idle]
  /\ UNCHANGED <<now, stored, written, rotated, links, signed, reads>>

-----------------------------------------------------------------------------
(* Reading through a link.                                                    *)

Verifies(link) == link.key = inUse /\ now < link.exp
Allows(link, scan) == link.scan = scan
ResultNamesArtifact(scan, ref) == ref \in Names[scan]
Opens(link, scan) == Verifies(link) /\ Allows(link, scan) /\ scan \in stored
Exists(ref) == \E s \in stored : ref \in Names[s]
Reads(link, what, beside) == reads' = {[link |-> link, what |-> what, beside |-> beside, at |-> now]}

\* ComparisonFor: the approved scan, a copy of which outlives it, or the one before.
\* Scans and approvals beside this decide which of the series it is, if any.
ComparisonFor(scan) == {{}} \cup {{base} : base \in SeriesOf[scan] \ {scan}}
\* handleSharedResult: the downloads of the scan itself, and the page, which also
\* shows what changed against the scan it is compared with.
SharedResult(link) == \E scan \in Scans : \E beside \in ComparisonFor(scan) :
  /\ Opens(link, scan) /\ Reads(link, scan, beside)
  /\ UNCHANGED <<now, stored, keyVars, noSigning, links, request, signed>>
HandleSharedArtifact(r, link) == \E scan \in Scans, ref \in Refs :
  /\ request[r] = Idle /\ Opens(link, scan)
  /\ ResultNamesArtifact(scan, ref)
  /\ request' = [request EXCEPT ![r] = [at |-> "allowed", link |-> {link}, ref |-> {ref}, ttl |-> 0, since |-> now]]
  /\ UNCHANGED <<now, stored, keyVars, noSigning, links, signed, reads>>

LinkOf(r) == CHOOSE l \in links : request[r].link = {l}
RefOf(r) == CHOOSE a \in Refs : request[r].ref = {a}
\* Mutant: a signed URL lives as long as the operator configured.
ConfiguredLife(until) == SignedTtl
\* signedURLLifetime: cut to what is left of the link.
SignedURLLifetime(until) == IF until <= now THEN 0 ELSE IF until - now < SignedTtl THEN until - now ELSE SignedTtl

\* streamArtifact: the bytes start here, and end when they end.
Stream(r) ==
  /\ request[r].at = "allowed" /\ Exists(RefOf(r)) /\ Reads(LinkOf(r), RefOf(r), {})
  /\ request' = [request EXCEPT ![r] = Idle]
  /\ UNCHANGED <<now, stored, keyVars, noSigning, links, signed>>
Missing(r) ==
  /\ request[r].at = "allowed" /\ ~Exists(RefOf(r)) /\ request' = [request EXCEPT ![r] = Idle]
  /\ UNCHANGED <<now, stored, keyVars, noSigning, links, signed, reads>>
AskToSign(r) == LET ttl == SignedURLLifetime(LinkOf(r).exp) IN
  /\ request[r].at = "allowed" /\ ~noSigning /\ Exists(RefOf(r)) /\ ttl > 0
  /\ request' = [request EXCEPT ![r].at = "signing", ![r].ttl = ttl, ![r].since = now]
  /\ UNCHANGED <<now, stored, keyVars, noSigning, links, signed, reads>>
\* The lifetime runs from the signature, which the bucket may be slow to give.
RedirectToBucket(r) ==
  /\ request[r].at = "signing"
  /\ signed' = signed \cup {[ref |-> RefOf(r), exp |-> now + request[r].ttl, link |-> LinkOf(r)]}
  /\ request' = [request EXCEPT ![r] = Idle]
  /\ UNCHANGED <<now, stored, keyVars, noSigning, links, reads>>
\* reportUnsignedBucket: a bucket that cannot sign is not asked again.
NotSigned(r) ==
  /\ request[r].at = "signing" /\ noSigning' \in {noSigning, TRUE}
  /\ Exists(RefOf(r)) /\ Reads(LinkOf(r), RefOf(r), {})
  /\ request' = [request EXCEPT ![r] = Idle]
  /\ UNCHANGED <<now, stored, keyVars, links, signed>>

Fetch == \E u \in signed :
  /\ now < u.exp /\ Exists(u.ref) /\ Reads(u.link, u.ref, {})
  /\ UNCHANGED <<now, stored, keyVars, noSigning, links, request, signed>>
Prune == \E s \in stored : stored' = stored \ {s}
  /\ UNCHANGED <<now, keyVars, noSigning, links, request, signed, reads>>
\* No request waits for the bucket longer than its deadline.
Tick ==
  /\ now < MaxClock /\ now' = now + 1
  /\ \A r \in Readers : request[r] # Idle => now < request[r].since + SignLimit
  /\ UNCHANGED <<stored, keyVars, noSigning, links, request, signed, reads>>

Serve(r) == \/ \E l \in links : HandleSharedArtifact(r, l)
            \/ Stream(r) \/ Missing(r) \/ AskToSign(r) \/ RedirectToBucket(r) \/ NotSigned(r)
Next == HandleMintShare \/ CmdShare \/ RotateKey \/ Restart \/ Fetch \/ Prune \/ Tick
        \/ (\E l \in links : SharedResult(l)) \/ (\E r \in Readers : Serve(r))
Spec == Init /\ [][Next]_vars

-----------------------------------------------------------------------------
(* The documents and artifacts read through a link, and through what was      *)
(* handed out on its strength, are those of the one scan it names, though     *)
(* scans share artifacts (Claims.Allows, resultNamesArtifact).  Of one other  *)
(* scan of its series something shows through: the page names what changed    *)
(* against it, what is gone included (diffFor, sharing.go:331), against "a    *)
(* page with that scan and nothing else" (README.md:910).  No artifact does.  *)
LinkOpensOneScan == \A x \in reads :
  /\ x.what \in {x.link.scan} \cup Names[x.link.scan]
  /\ x.beside # {} => x.what = x.link.scan /\ x.beside \subseteq SeriesOf[x.link.scan]
                     /\ \A b, c \in x.beside : b = c

(* Nothing is read on the strength of a link that has ended, but for a        *)
(* request and a signature that were under way: a signed URL does not stretch *)
(* the link (signedURLLifetime).                                              *)
AccessEndsWithLink == \A x \in reads : x.at < x.link.exp + SignLimit

(* A key the daemon has left opens nothing any more, but for the signed URLs  *)
(* that are out (buildShareSigner).                                           *)
RotationWithdraws == \A x \in reads : x.at < swapped[x.link.key] + SignedTtl
=================================================================================
