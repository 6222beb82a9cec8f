------------------------------- MODULE KeepRules -------------------------------
(* Which results of a series a prune keeps (store/retention.go).  Scans add   *)
(* results, a scan that ran long even behind newer ones; every prune decides  *)
(* from what the prunes before it have left.                                  *)
EXTENDS Naturals, FiniteSets

CONSTANTS Moments,        \* the times at which scans start, from 0
          Tiers,          \* 0 ran to idle, 1 was cut short, 2 failed
          Units,          \* "hourly", "daily", ...
          Period,         \* [Units -> [Moments -> Nat]]: the period a time falls in, in the
                          \* policy's zone; clocks put back make two hours one
          Policies,       \* thinning policies: [last, within, count : [Units -> Nat]]
          Bounds          \* the older policy: [maxAge, maxPerSeries]

KeepAssumption ==
  /\ Moments \subseteq Nat /\ 0 \in Moments /\ Tiers \subseteq Nat
  /\ Period \in [Units -> [Moments -> Nat]]
  \* A later time is never of an earlier period.
  /\ \A u \in Units : \A s, t \in Moments : s <= t => Period[u][s] <= Period[u][t]
  /\ Policies \subseteq [last : Nat, within : Nat, count : [Units -> Nat]]

VARIABLES now, policy, stored, ever   \* ever: history, every result ever stored

vars == <<now, policy, stored, ever>>

Result == [at : Moments, tier : Tiers]
Off == 0

TypeOK == now \in Moments /\ policy \in Policies \cup Bounds /\ ever \subseteq Result /\ stored \subseteq ever

Init == now = 0 /\ policy \in Policies \cup Bounds /\ stored = {} /\ ever = {}

-----------------------------------------------------------------------------
(* selectKeep                                                                *)

\* Listings and rules alike count from the newest result back.
Last(results, n) == {r \in results : Cardinality({s \in results : s.at > r.at}) < n}
Since(results, age) == {r \in results : r.at + age >= now}
IsKeep(p) == p \in Policies

\* applyBounds: both bounds have to allow a result.
KeptByBounds(results, p) ==
  (IF p.maxAge = Off THEN results ELSE Since(results, p.maxAge))
  \cap (IF p.maxPerSeries = Off THEN results ELSE Last(results, p.maxPerSeries))

NewestOf(results, unit) == {r \in results : \A s \in results : Period[unit][s.at] = Period[unit][r.at] => s.at <= r.at}
\* The first n distinct periods, walked from the newest result back.
Reached(results, unit, n) == {Period[unit][r.at] : r \in Last(NewestOf(results, unit), n)}
\* Mutant: the newest result of a period stands for it, however it ended.
NewestWins(r, s) == r.at > s.at
\* A better ending beats a newer start.
Better(r, s) == r.tier < s.tier \/ (r.tier = s.tier /\ r.at > s.at)
\* bucketKeepers
BestOf(results, unit, q) == {r \in results : Period[unit][r.at] = q /\
  \A s \in results \ {r} : Period[unit][s.at] = q => Better(r, s)}
BucketKeepers(results, unit, n) == UNION {BestOf(results, unit, q) : q \in Reached(results, unit, n)}

Bounded(p) == p.within # Off
\* applyKeep
KeptByRules(results, p) ==
  LET recent == Last(results, p.last) \cup IF Bounded(p) THEN Since(results, p.within) ELSE {}
      kept == recent \cup UNION {BucketKeepers(results, u, p.count[u]) : u \in Units}
  IN IF kept = {} /\ ~Bounded(p) THEN Last(results, 1) ELSE kept

SelectKeep(results, p) == IF IsKeep(p) THEN KeptByRules(results, p) ELSE KeptByBounds(results, p)

-----------------------------------------------------------------------------
Tick == (\E t \in Moments : now < t /\ now' = t) /\ UNCHANGED <<policy, stored, ever>>

\* A scan is stored when it ends; its place is that of its start.
Store == \E r \in Result :
  /\ r.at <= now /\ \A s \in ever : s.at # r.at
  /\ stored' = stored \cup {r} /\ ever' = ever \cup {r} /\ UNCHANGED <<now, policy>>

\* A policy that asks for nothing is not applied.
Active(p) == IF IsKeep(p) THEN p.last # Off \/ Bounded(p) \/ (\E u \in Units : p.count[u] # Off)
             ELSE p.maxAge # Off \/ p.maxPerSeries # Off
Prune == Active(policy) /\ stored' = SelectKeep(stored, policy) /\ UNCHANGED <<now, policy, ever>>

Next == Tick \/ Store \/ Prune
Spec == Init /\ [][Next]_vars

-----------------------------------------------------------------------------
(* However often prunes run between the scans, a day that held a clean scan   *)
(* is remembered by a clean scan: in each period a rule reaches, no result    *)
(* ever stored ended better than one that is there still.                     *)
PeriodsKeepTheirBest == IsKeep(policy) => \A u \in Units : \A q \in Reached(ever, u, policy.count[u]) :
  \A r \in ever : Period[u][r.at] = q =>
    \E s \in stored : Period[u][s.at] = q /\ s.tier <= r.tier

(* A rule added to a policy never shrinks what is stored (type Keep), in      *)
(* combination with any others.                                               *)
Within(p, q) == /\ p.last <= q.last /\ p.within <= q.within /\ \A u \in Units : p.count[u] <= q.count[u]
RulesOnlyAdd == IsKeep(policy) /\ Active(policy) =>
  \A q \in {p \in Policies : Within(policy, p)} : SelectKeep(stored, policy) \subseteq SelectKeep(stored, q)
================================================================================
