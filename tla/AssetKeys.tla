-------------------------------- MODULE AssetKeys --------------------------------
(* Whether two observations are of one asset, and whether its content has     *)
(* changed: keys are derived at capture and again at every comparison, under  *)
(* rules an operator changes in between (normalize/normalize.go,              *)
(* Config.NormalizeRules, differ.assets, compareScripts).  The site answers   *)
(* each scan with any of Urls and Bodies.                                     *)
EXTENDS Naturals, Sequences, SequencesExt, FiniteSets

CONSTANTS Urls,           \* [kind, scheme, port, user, path, query, payload]
          Bodies,         \* [version, build, bytes]; what a body declares, or Unread
          Configs,        \* what the operator may write under normalize
          Third,          \* paths of third-party hosts
          NoName          \* no declared version, no digest

ShippedDrop == {"ts"}
Lower(name) == CASE name = "TS" -> "ts" [] OTHER -> name
Opaque(url) == url.kind # "web"
Unread == [version |-> NoName, build |-> NoName, bytes |-> NoName]
PartyOf(url) == IF url.path \in Third THEN "third" ELSE "first"

AssetsAssumption ==
  /\ \A c \in Configs : LET written == {c.query[i] : i \in DOMAIN c.query} IN
       /\ c.dropAll \in BOOLEAN /\ c.query \in Seq(written)
       /\ \A r \in written : r.policy.dropAll \in BOOLEAN
  /\ \A u \in Urls : DOMAIN u = {"kind", "scheme", "port", "user", "path", "query", "payload"}
  /\ \A b \in Bodies : b.bytes # NoName     \* a body that was read has a digest

VARIABLES rules, seen     \* seen: what the scans observed of one asset, in order
vars == <<rules, seen>>

-----------------------------------------------------------------------------
(* NormalizeRules and New: what the operator wrote comes before what is       *)
(* shipped.  A list that is empty is not configured.                          *)

Policy(dropAll, drop, keep) == [dropAll |-> dropAll, drop |-> drop, keep |-> keep]
NormalizeRules(c) ==
  [global |-> Policy(c.dropAll, c.drop \cup IF c.shipped THEN ShippedDrop ELSE {}, c.keep),
   query |-> c.query \o IF c.shipped THEN <<[paths |-> Third, party |-> "", policy |-> Policy(FALSE, {}, {"id"})]>> ELSE <<>>,
   collapse |-> c.collapse, slash |-> c.slash, idents |-> c.idents,
   volatile |-> c.volatile]

(* Key                                                                       *)

Scoped(rule, url, party) == (rule.party = "" \/ rule.party = party) /\ url.path \in rule.paths
FirstScoped(url, party) == LET hits == {i \in DOMAIN rules.query : Scoped(rules.query[i], url, party)}
  IN {i \in hits : \A j \in hits : i <= j}
PolicyFor(url, party) ==
  LET i == FirstScoped(url, party) IN IF i = {} THEN rules.global ELSE rules.query[CHOOSE j \in i : TRUE].policy

Kept(policy, name) ==
  CASE policy.dropAll -> FALSE
    [] ~policy.dropAll /\ policy.keep # {} -> Lower(name) \in policy.keep
    [] OTHER -> Lower(name) \notin policy.drop
\* Query: the values of each name, in order.  Encode sorts by name.
Query(params) == [n \in {params[i].name : i \in DOMAIN params} |-> SelectSeq(params, LAMBDA p : p.name = n)]
Apply(policy, values) == [n \in {n \in DOMAIN values : Kept(policy, n)} |-> values[n]]

DefaultPort == [http |-> "80", https |-> "443"]
NormalizePort(url) == IF url.port = DefaultPort[url.scheme] THEN "" ELSE url.port
Bare(path) == IF path = "/a/" /\ rules.slash THEN "/a" ELSE path
\* Each replacement is a function on the paths it rewrites.
NormalizePath(path) ==
  Bare(FoldLeft(LAMBDA p, rep : IF p \in DOMAIN rep THEN rep[p] ELSE p, path, rules.collapse))
WebKey(url, party) ==
  [kind |-> "web", site |-> <<url.scheme, NormalizePort(url)>>, user |-> url.user,
   path |-> NormalizePath(url.path), query |-> Apply(PolicyFor(url, party), Query(url.query))]
\* opaquePrefix: the payload of data: and the name in blob: are left out.
OpaqueKey(url) ==
  [kind |-> url.kind, site |-> <<>>, user |-> FALSE, path |-> url.path,
   query |-> IF url.kind \in {"data", "blob"} THEN <<>> ELSE <<url.payload>>]
Key(url, party) == IF Opaque(url) THEN OpaqueKey(url) ELSE WebKey(url, party)

\* truncatedDataURI, what is stored as the URL of a data: request.
Stored(url) == IF url.kind = "data" THEN [url EXCEPT !.payload = ""] ELSE url
\* Mutant: the key of the capture is compared.
RekeyNone(req) == req.key
Rekey(req) == IF Opaque(req.url) THEN req.key ELSE Key(req.url, req.party)

-----------------------------------------------------------------------------
(* BodyIdentity: the first rule that is for the URL speaks, whether or not    *)
(* the body carries what it reads.                                            *)

IdentRule(url) == LET hits == {i \in DOMAIN rules.idents : url.path \in rules.idents[i].paths}
  IN {rules.idents[i] : i \in {i \in hits : \A j \in hits : i <= j}}
Identity(url, body) == IF IdentRule(url) = {} THEN NoName
                       ELSE LET r == CHOOSE r \in IdentRule(url) : TRUE IN body[r.reads]
VolatileBody(url) == url.path \in rules.volatile

Observation(url, body) ==
  [url |-> Stored(url), party |-> PartyOf(url), key |-> Key(url, PartyOf(url)),
   digest |-> body.bytes, identity |-> Identity(url, body), read |-> IdentRule(url),
   full |-> url, body |-> body]     \* the last three: history

Init == rules \in {NormalizeRules(c) : c \in Configs} /\ seen = <<>>
\* Two scans: a comparison looks at no more.
Scan == Len(seen) < 2 /\ \E url \in Urls, body \in Bodies \cup {Unread} :
  seen' = Append(seen, Observation(url, body)) /\ UNCHANGED rules
Reload == rules' \in {NormalizeRules(c) : c \in Configs} /\ UNCHANGED seen
Next == Scan \/ Reload
Spec == Init /\ [][Next]_vars

TypeOK ==
  /\ rules \in {NormalizeRules(c) : c \in Configs} /\ Len(seen) \in 0..2
  /\ \A i \in DOMAIN seen : seen[i].full \in Urls /\ seen[i].body \in Bodies \cup {Unread}

-----------------------------------------------------------------------------
(* compareAssets and compareScripts on the two.                              *)
Was == seen[1]
Now == seen[2]
Same == Rekey(Was) = Rekey(Now)
\* scriptIdentity
Comparable(was, now) ==
  IF was.identity # NoName \/ now.identity # NoName THEN <<was.identity, now.identity>> ELSE <<was.digest, now.digest>>
ScriptChanged == Same /\ ~VolatileBody(Now.url) /\
  LET pair == Comparable(Was, Now) IN pair[1] # NoName /\ pair[2] # NoName /\ pair[1] # pair[2]

(* What the rules in force say of two addresses, whichever were in force when *)
(* they were seen.                                                            *)
Governs(url) == {i \in DOMAIN rules.query : Scoped(rules.query[i], url, PartyOf(url))
                   /\ \A j \in 1..i - 1 : ~Scoped(rules.query[j], url, PartyOf(url))}
Means(url, name) ==
  LET q == IF Governs(url) = {} THEN rules.global ELSE rules.query[CHOOSE i \in Governs(url) : TRUE].policy
  IN ~q.dropAll /\ IF q.keep = {} THEN Lower(name) \notin q.drop ELSE Lower(name) \in q.keep
Told(url) == {<<n, Query(url.query)[n]>> : n \in {n \in DOMAIN Query(url.query) : Means(url, n)}}
Alike(u, v) == u.kind = v.kind /\
  CASE u.kind = "web" -> /\ u.scheme = v.scheme /\ u.user = v.user /\ NormalizePath(u.path) = NormalizePath(v.path)
                         /\ u.port = v.port \/ {u.port, v.port} = {"", DefaultPort[u.scheme]}
                         /\ Told(u) = Told(v)
    [] u.kind \in {"data", "blob"} -> u.path = v.path
    [] OTHER -> u.path = v.path /\ u.payload = v.payload
(* Two scans are said to have seen one asset exactly when the rules now in    *)
(* force take their addresses for one, however old the observations and       *)
(* whatever rules they were made under: a change of rules adds and removes no *)
(* asset, and hides none that they tell apart (Rekey).                        *)
AssetsFollowTheRules == Len(seen) = 2 => (Same <=> Alike(Was.full, Now.full))

(* A script is said to have changed only when its body has, unless the rule   *)
(* that reads its version was replaced between the scans by one that reads    *)
(* another; only when its version has, where one rule read both; and always   *)
(* when bytes that both scans read differ and no rule asks to look elsewhere, *)
(* however the rules change meanwhile (scriptIdentity).                       *)
Asked == Was.read # {} \/ Now.read # {}
Replaced == Was.read # {} /\ Now.read # {} /\ Was.read # Now.read
ScriptChangesAreReal == Len(seen) = 2 /\ Was.body # Unread /\ Now.body # Unread =>
  /\ ScriptChanged /\ ~Replaced => Was.body # Now.body
  /\ ScriptChanged /\ Was.read = Now.read /\ Was.identity # NoName => Was.identity # Now.identity
  /\ Same /\ ~Asked /\ Was.body.bytes # Now.body.bytes => ScriptChanged \/ VolatileBody(Now.url)
==================================================================================
