--------------------------------- MODULE Robots ---------------------------------
(* Whether robots.txt allows a scan (robots/robots.go, Scanner.checkRobots):  *)
(* how a file is read, how its rules match a path, and the cache scans of one *)
(* origin share.  A line is [field, agent, rule]; a pattern is cut at its     *)
(* stars, [parts, anchored], and paths and parts are sequences of characters. *)
EXTENDS Integers, Sequences, SequencesExt, FiniteSets

CONSTANTS Answers,        \* what the site may answer: [ok, file], a missing file being empty
          Paths, Agent,   \* paths asked for, and wsaw's own name
          Letters,        \* what paths and patterns are made of
          Checks,         \* scans that ask
          Ttl, FetchLimit, MaxClock,   \* in ticks
          FallbackAllow   \* Options.FallbackAllow

Pattern == [parts : Seq(Seq(Letters)) \ {<<>>}, anchored : BOOLEAN]
Files == Seq([field : STRING, agent : STRING, rule : Pattern])
RobotsAssumption ==
  /\ Answers \subseteq [ok : BOOLEAN, file : Files] /\ Paths \subseteq Seq(Letters)
  /\ {FetchLimit, MaxClock} \subseteq Nat /\ Ttl \in Nat \ {0}

VARIABLES now,            \* the clock
          served,         \* history, served[t]: what the site answers at t
          broken,         \* history: the ticks at which a fetch failed on the way
          cache,          \* the origin's entry: [answer, fetched]
          check,          \* check[c]: [at, since, answer]
          last            \* the last decision: [allowed, at]

vars == <<now, served, broken, cache, check, last>>
Never == -1

-----------------------------------------------------------------------------
(* Parse                                                                     *)

RuleFields == {"allow", "disallow"}
Opens(acc) == acc.groups = <<>> \/ acc.sawRule
NewGroup(agent) == [agents |-> {agent}, allow |-> {}, disallow |-> {}]
ToLast(groups, field, value) == [groups EXCEPT ![Len(groups)][field] = @ \cup {value}]
\* Mutant: a new agent line always joins the group before it.
NeverCloses(acc) == acc.groups = <<>>
StartsGroup(acc) == Opens(acc)
ReadLine(acc, line) ==
  CASE line.field = "user-agent" /\ StartsGroup(acc) ->
         [groups |-> Append(acc.groups, NewGroup(line.agent)), sawRule |-> FALSE]
    [] line.field = "user-agent" /\ ~StartsGroup(acc) -> [acc EXCEPT !.groups = ToLast(@, "agents", line.agent)]
    [] line.field \in RuleFields /\ acc.groups # <<>> ->
         [groups |-> ToLast(acc.groups, line.field, line.rule), sawRule |-> TRUE]
    [] OTHER -> acc
\* What was read of a file after its first n lines.
Reading(file) ==
  LET acc[n \in 0..Len(file)] ==
        IF n = 0 THEN [groups |-> <<>>, sawRule |-> FALSE] ELSE ReadLine(acc[n - 1], file[n])
  IN acc
Parse(file) == Reading(file)[Len(file)].groups

-----------------------------------------------------------------------------
(* Matching                                                                  *)

Empty(rule) == rule.parts = <<<<>>>> /\ ~rule.anchored
\* The length of the pattern as written, its stars and $ included.
RuleLen(rule) == Len(FlattenSeq(rule.parts)) + Len(rule.parts) - 1 + IF rule.anchored THEN 1 ELSE 0
OccursAt(part, path, k) == k + Len(part) <= Len(path) /\ SubSeq(path, k + 1, k + Len(part)) = part
\* Where the scan stands past part i: each part is taken where it occurs first.
FirstAfter(part, path, from) ==
  LET found == {k \in from..Len(path) : OccursAt(part, path, k)}
  IN IF found = {} THEN Never ELSE Len(part) + CHOOSE k \in found : \A j \in found : k <= j
TakePart(parts, path, i, from) ==
  IF i = 1 THEN (IF OccursAt(parts[1], path, 0) THEN Len(parts[1]) ELSE Never) ELSE FirstAfter(parts[i], path, from)
Past(parts, path) ==
  LET past[i \in 0..Len(parts)] ==
        IF i = 0 THEN 0 ELSE IF past[i - 1] = Never THEN Never ELSE TakePart(parts, path, i, past[i - 1])
  IN past
Reach(parts, path) == Past(parts, path)[Len(parts)]
MatchPattern(rule, path) ==
  LET end == Reach(rule.parts, path)
  IN end # Never /\ (rule.anchored => end = Len(path) \/ (Len(rule.parts) > 1 /\ Last(rule.parts) = <<>>))

LongestMatch(rules, path) ==
  LET lengths == {RuleLen(r) : r \in {s \in rules : ~Empty(s) /\ MatchPattern(s, path)}}
                 \cup {0 : r \in {s \in rules : Empty(s)}}
  IN IF lengths = {} THEN Never ELSE CHOOSE n \in lengths : \A m \in lengths : m <= n

\* groupFor: the first group that names the agent, else the last that names "*".
Naming(groups, agent) == {i \in DOMAIN groups : agent \in groups[i].agents}
GroupFor(groups, agent) ==
  LET own == Naming(groups, agent) wild == Naming(groups, "*")
  IN IF own # {} THEN {groups[CHOOSE i \in own : \A j \in own : i <= j]}
     ELSE {groups[i] : i \in {i \in wild : \A j \in wild : j <= i}}

Outweighs(allow, disallow) == allow >= disallow
Allowed(file, path) == \A g \in GroupFor(Parse(file), Agent) :
  LET disallow == LongestMatch(g.disallow, path)
  IN disallow <= 0 \/ Outweighs(LongestMatch(g.allow, path), disallow)

-----------------------------------------------------------------------------
(* Checker: Check, rulesFor, fetch                                           *)

Decides(answer) == IF answer.ok THEN {p \in Paths : Allowed(answer.file, p)}
                   ELSE IF FallbackAllow THEN Paths ELSE {}
Failed == [ok |-> FALSE, file |-> <<>>]
\* A body cut short is read as if it ended there.
CutShort(answer) == {[answer EXCEPT !.file = SubSeq(@, 1, n)] : n \in 0..Len(answer.file)}
Idle == [at |-> "idle", since |-> 0, answer |-> Failed]

Known == {Failed} \cup UNION {CutShort(a) : a \in Answers}
TypeOK ==
  /\ now \in 0..MaxClock /\ served \in [0..now -> Answers] /\ broken \subseteq 0..now
  /\ cache \in [answer : Known, fetched : 0..MaxClock \cup {Never}]
  /\ check \in [Checks -> [at : {"idle", "asking", "told"}, since : 0..MaxClock, answer : Known]]
  /\ last \in [allowed : SUBSET Paths, at : 0..MaxClock \cup {Never}]

Init ==
  /\ now = 0 /\ served \in [0..0 -> Answers] /\ broken = {}
  /\ cache = [answer |-> Failed, fetched |-> Never]
  /\ check = [c \in Checks |-> Idle] /\ last = [allowed |-> {}, at |-> Never]

Fresh == cache.fetched # Never /\ now - cache.fetched < Ttl
Decide(answer) == last' = [allowed |-> Decides(answer), at |-> now]

Hit(c) ==
  /\ check[c].at = "idle" /\ Fresh /\ Decide(cache.answer)
  /\ UNCHANGED <<now, served, broken, cache, check>>
\* The lock is given up for the fetch, so several scans may be at it.
Ask(c) ==
  /\ check[c].at = "idle" /\ ~Fresh
  /\ check' = [check EXCEPT ![c] = [at |-> "asking", since |-> now, answer |-> Failed]]
  /\ UNCHANGED <<now, served, broken, cache, last>>
Told(c) ==
  /\ check[c].at = "asking"
  /\ check' = [check EXCEPT ![c].at = "told", ![c].answer = served[now]]
  /\ UNCHANGED <<now, served, broken, cache, last>>
\* The fetch breaks off: the network, the client's timeout, the scan cancelled.
BreaksOff(c) ==
  /\ check[c].at = "asking" /\ broken' = broken \cup {now}
  /\ \E a \in {Failed} \cup CutShort(served[now]) : check' = [check EXCEPT ![c].at = "told", ![c].answer = a]
  /\ UNCHANGED <<now, served, cache, last>>
\* An answer is kept from now on, a failure like any other.
Kept(c) ==
  /\ check[c].at = "told" /\ cache' = [answer |-> check[c].answer, fetched |-> now]
  /\ Decide(check[c].answer) /\ check' = [check EXCEPT ![c] = Idle]
  /\ UNCHANGED <<now, served, broken>>

\* No fetch outlives the client's timeout.
Tick ==
  /\ now < MaxClock /\ now' = now + 1
  /\ \A c \in Checks : check[c].at # "idle" => now < check[c].since + FetchLimit
  /\ \E a \in Answers : served' = [t \in 0..now + 1 |-> IF t <= now THEN served[t] ELSE a]
  /\ UNCHANGED <<broken, cache, check, last>>

Next == Tick \/ \E c \in Checks : Hit(c) \/ Ask(c) \/ Told(c) \/ BreaksOff(c) \/ Kept(c)
Spec == Init /\ [][Next]_vars

-----------------------------------------------------------------------------
(* What a file says, without reading it in order: a rule speaks to the agents *)
(* named in the unbroken run of agent lines before it (type group).           *)
IsRule(file, i) == file[i].field \in RuleFields
IsAgent(file, i) == file[i].field = "user-agent"
Heads(file, j, i) == /\ j < i /\ IsAgent(file, j)
  /\ ~\E r, k \in j..i : r < k /\ k < i /\ IsRule(file, r) /\ IsAgent(file, k)
LinesOf(file, agent) == {i \in DOMAIN file : IsAgent(file, i) /\ file[i].agent = agent}
\* The lines that address the scan: the agent's own, or else all that say "*".
Addressed(file) == IF LinesOf(file, Agent) # {} THEN LinesOf(file, Agent) ELSE LinesOf(file, "*")
\* All the groups of one agent are one (RFC 9309, 2.2.1).
Governing(file) == {i \in DOMAIN file : IsRule(file, i) /\ \E j \in Addressed(file) : Heads(file, j, i)}

\* A pattern matches when its parts can be laid over the path in order.
Matches(rule, path) == \E at \in [DOMAIN rule.parts -> 0..Len(path)] :
  /\ at[1] = 0 /\ \A i \in DOMAIN at : OccursAt(rule.parts[i], path, at[i])
  /\ \A i \in DOMAIN at \ {1} : at[i - 1] + Len(rule.parts[i - 1]) <= at[i]
  /\ rule.anchored => at[Len(rule.parts)] + Len(Last(rule.parts)) = Len(path)
Means(file, path) ==
  LET hit(field) == {file[i].rule : i \in {i \in Governing(file) : file[i].field = field /\ ~Empty(file[i].rule) /\ Matches(file[i].rule, path)}}
  IN \A d \in hit("disallow") : \E a \in hit("allow") : RuleLen(a) >= RuleLen(d)

\* A $ behind a star: the first occurrence of a part need not be the one the $ asks for.
Greedy(file) == \E i \in DOMAIN file : file[i].rule.anchored /\ Len(file[i].rule.parts) > 1
\* The agent is addressed again after its rules: a second group of its own.
Split(file) == \E i, j \in Addressed(file), r \in DOMAIN file : i < r /\ r < j /\ IsRule(file, r)
(* A file is read as the convention has it, whatever the order of its agents  *)
(* and rules and whatever it has that is not understood (Parse, Allowed), but *)
(* for two kinds of file: patterns with a $ behind a star, and files that     *)
(* address the agent in several groups.  Those the convention puts together,  *)
(* and groupFor takes one, the first of its own or the last of "*": against   *)
(* "Matching follows the usual convention" (robots.go:132).                   *)
FileIsFollowed == LET file == served[0].file
  IN ~Greedy(file) /\ ~Split(file) => \A p \in Paths : Allowed(file, p) <=> Means(file, p)

(* A decision stands on what the site answered, or on a fetch that broke off, *)
(* no longer ago than the TTL and one fetch, however the fetches of several      *)
(* scans overlap and overwrite each other (rulesFor).                         *)
Window == {t \in 0..now : t > last.at - Ttl - FetchLimit /\ t <= last.at}
DecisionIsCurrent == last.at # Never => \E t \in Window :
  \/ last.allowed = Decides(served[t])
  \/ t \in broken /\ \E a \in {Failed} \cup CutShort(served[t]) : last.allowed = Decides(a)
=================================================================================
