------------------------------ MODULE Consent ------------------------------
(* internal/consent: the handler that brings one page into the requested      *)
(* consent state and reports what happened.  It probes the page, drives the   *)
(* TCF API where there is one, and otherwise tries the candidate rules in     *)
(* order; every look at the page can fail, and the budget of the interaction  *)
(* can run out between any two of them.  The page reacts to what was clicked  *)
(* in its own time: it records a choice, writes to storage, closes a banner.  *)
(*                                                                            *)
(* A banner that comes late comes before anything was clicked.               *)
(* Selectors, scripts and texts are abstracted to whether a rule matches and  *)
(* whether a step finds its control; the retries of one check are one look.   *)
(* A rule's verify expression is taken to be true to the page.                *)
EXTENDS Naturals, Sequences, FiniteSets

CONSTANTS RuleLists      \* the lists of candidates a scan may have

(* steps, necessary: one entry per step, "must" or "may" (Optional).  A rule
   is of no use to a mode without steps unless it has a fallback. *)
Steps == {<<>>, <<"may">>, <<"must">>, <<"may", "must">>}
Rule == [steps : Steps, necessary : Steps, verify : BOOLEAN, hosted : BOOLEAN]

ConsentAssumption == RuleLists \subseteq Seq(Rule)

VARIABLES rules,         \* the candidates, in evaluation order
          shown, comes,  \* the page shows a banner; it will show one later
          tcf,           \* the page carries a TCF API
          old,           \* the page had keys in Web Storage before
          clicked, choice, stored,   \* what was done to the page and what it did
          budget,        \* the context of the interaction is live
          pc, at, step,  \* where the handler is: place, rule and step
          using,         \* the sequence in use: "steps" or "necessary"
          ran,           \* a step of the rule's own sequence found or affected something
          found, seenTCF, blind,     \* the banner and API seen; the first snapshot failed
          marked,        \* OnInteract was called
          attempted, stale,
          outcome, by    \* the outcome and the mechanism it rests on

page == <<shown, comes, tcf, old, clicked, choice, stored>>
seen == <<found, seenTCF, blind>>
handler == <<pc, at, step, using, ran, marked, attempted, stale, outcome, by>>
vars == <<rules, page, budget, seen, handler>>

Outcomes == {"", "applied", "not-needed", "failed", "unverified", "banner-visible", "necessary-only"}
Conclusive == {"applied", "unverified", "banner-visible", "necessary-only"}
Places == {"inject", "probe", "banner", "snapshot", "tcf", "rule", "steps", "settled", "storage",
           "written", "verify", "gone", "escalate", "closed", "nudge", "end", "done"}

TypeOK ==
  /\ rules \in RuleLists /\ {shown, comes, tcf, old, clicked, choice, stored, budget} \subseteq BOOLEAN
  /\ pc \in Places /\ at \in 1..(Len(rules) + 1) /\ step \in 1..3 /\ using \in {"steps", "necessary"}
  /\ {ran, found, seenTCF, blind, marked, attempted} \subseteq BOOLEAN
  /\ stale \subseteq DOMAIN rules /\ outcome \in Outcomes /\ by \in {"none", "tcf", "rule", "storage"}

Init ==
  /\ rules \in RuleLists /\ shown \in BOOLEAN /\ comes \in BOOLEAN /\ (comes => ~shown)
  /\ tcf \in BOOLEAN /\ old \in BOOLEAN
  /\ clicked = FALSE /\ choice = FALSE /\ stored = FALSE /\ budget = TRUE
  /\ pc = "inject" /\ at = 1 /\ step = 1 /\ using = "steps" /\ ran = FALSE
  /\ found = FALSE /\ seenTCF = FALSE /\ blind = FALSE /\ marked = FALSE
  /\ attempted = FALSE /\ stale = {} /\ outcome = "" /\ by = "none"

-----------------------------------------------------------------------------
(* The page and the clock.                                                   *)

PageShows == /\ comes /\ ~clicked /\ comes' = FALSE /\ shown' = TRUE
             /\ UNCHANGED <<rules, tcf, old, clicked, choice, stored, budget, seen, handler>>

PageRecords == /\ clicked /\ ~choice /\ choice' = TRUE /\ stored' \in {stored, TRUE}
               /\ UNCHANGED <<rules, shown, comes, tcf, old, clicked, budget, seen, handler>>

PageCloses == /\ clicked /\ shown /\ shown' = FALSE
              /\ UNCHANGED <<rules, comes, tcf, old, clicked, choice, stored, budget, seen, handler>>

BudgetEnds == /\ budget /\ pc # "done" /\ budget' = FALSE
              /\ UNCHANGED <<rules, page, seen, handler>>

-----------------------------------------------------------------------------
(* A look at the page: it may fail by its own timeout or an error of the
   page's, and does once the budget is spent. *)
Looks(truth) == {"error"} \cup IF budget THEN {IF truth THEN "yes" ELSE "no"} ELSE {}

Goto(place) == pc' = place /\ UNCHANGED <<at, step, using, ran, stale, attempted>>

(* applyRules goes to the next candidate. *)
NextRule == /\ pc' = "rule" /\ at' = at + 1 /\ step' = 1 /\ using' = "steps" /\ ran' = FALSE

(* What applyRules does with what a rule came to: a conclusive outcome is
   returned, and so is any outcome once the budget is spent. *)
RuleComesTo(o, mechanism) ==
  /\ UNCHANGED <<stale, attempted, marked>>
  /\ IF o \in Conclusive \/ ~budget
     THEN outcome' = o /\ by' = mechanism /\ pc' = "end" /\ UNCHANGED <<at, step, using, ran>>
     ELSE NextRule /\ UNCHANGED <<outcome, by>>

Current == rules[at]
Sequence == IF using = "steps" THEN Current.steps ELSE Current.necessary
AllOptional == \A i \in DOMAIN Sequence : Sequence[i] = "may"

-----------------------------------------------------------------------------
(* handler.apply                                                             *)

(* injectHelpers; a page that cannot be prepared is a failed interaction. *)
Inject ==
  /\ pc = "inject"
  /\ \E look \in Looks(TRUE) :
       IF look = "error" THEN Goto("end") /\ outcome' = "failed" ELSE Goto("probe") /\ UNCHANGED outcome
  /\ UNCHANGED <<rules, page, budget, seen, marked, by>>

(* probe: an API that could not be looked for is taken to be absent. *)
Probe ==
  /\ pc = "probe" /\ Goto("banner")
  /\ \E look \in Looks(tcf) : seenTCF' = (look = "yes")
  /\ UNCHANGED <<rules, page, budget, found, blind, marked, outcome, by>>

(* awaitBanner: the wait ends with a banner, or without one. *)
AwaitBanner ==
  /\ pc = "banner" /\ Goto("snapshot")
  /\ \E look \in Looks(shown) : found' = (look = "yes")
  /\ UNCHANGED <<rules, page, budget, seenTCF, blind, marked, outcome, by>>

(* storageSnapshot: without it, every key the page has counts as new. *)
Snapshot ==
  /\ pc = "snapshot" /\ Goto(IF seenTCF THEN "tcf" ELSE "rule")
  /\ \E look \in Looks(TRUE) : blind' = (look = "error")
  /\ UNCHANGED <<rules, page, budget, found, seenTCF, marked, outcome, by>>

(* applyTCF: the phase is marked, then the CMP is called; it reports the
   choice with or without a TC string, or the rules are tried. *)
ApplyTCF ==
  /\ pc = "tcf" /\ marked' = TRUE
  /\ \/ /\ budget /\ clicked' = TRUE /\ choice' = TRUE
        /\ outcome' = "applied" /\ by' = "tcf" /\ Goto("end") /\ UNCHANGED shown
     \/ /\ budget /\ clicked' = TRUE /\ UNCHANGED <<choice, shown>>
        /\ outcome' = "unverified" /\ by' = "tcf" /\ Goto("end")
     \/ clicked' \in {clicked, TRUE} /\ Goto("rule") /\ UNCHANGED <<choice, shown, outcome, by>>
  /\ UNCHANGED <<rules, comes, tcf, old, stored, budget, seen>>

-----------------------------------------------------------------------------
(* handler.applyRules                                                        *)

HasFallback == Current.necessary # <<>>
Candidate == Current.steps # <<>> \/ HasFallback

(* A rule that offers nothing for the mode is passed over. *)
PassOver ==
  /\ pc = "rule" /\ at <= Len(rules) /\ ~Candidate /\ NextRule
  /\ UNCHANGED <<rules, page, budget, seen, marked, attempted, stale, outcome, by>>

(* runRule and runNecessaryOnly call OnInteract before their first step. *)
Marks(sequence) == TRUE

(* detect: an error is not a mismatch, and only a mismatch makes a
   host-scoped rule stale. *)
Detect ==
  /\ pc = "rule" /\ at <= Len(rules) /\ Candidate
  /\ \E matched \in BOOLEAN : \E look \in Looks(matched) :
       \/ /\ look = "error" /\ NextRule /\ UNCHANGED <<stale, attempted, marked>>
       \/ /\ look = "no" /\ NextRule /\ UNCHANGED <<attempted, marked>>
          /\ stale' = IF Current.hosted THEN stale \cup {at} ELSE stale
       \/ /\ look = "yes" /\ attempted' = TRUE /\ pc' = "steps" /\ step' = 1
          /\ using' = IF Current.steps = <<>> THEN "necessary" ELSE "steps"
          /\ marked' = Marks(using') /\ ran' = FALSE /\ UNCHANGED <<at, stale>>
  /\ UNCHANGED <<rules, page, budget, seen, outcome, by>>

(* runStep: what it clicks, the page will react to. *)
StepActs ==
  /\ pc = "steps" /\ step <= Len(Sequence)
  /\ budget /\ clicked' = TRUE /\ ran' = (ran \/ using = "steps") /\ step' = step + 1
  /\ UNCHANGED <<rules, shown, comes, tcf, old, choice, stored, budget, seen, pc, at, using,
                 marked, attempted, stale, outcome, by>>

(* A step that fails, in the page or in a frame that is not found, is another
   process's or answers with an error, ends the sequence unless it is optional. *)
StepFails ==
  /\ pc = "steps" /\ step <= Len(Sequence)
  /\ IF Sequence[step] = "may"
     THEN step' = step + 1 /\ UNCHANGED <<pc, at, using, ran, marked, attempted, stale, outcome, by>>
     ELSE RuleComesTo("failed", "none")
  /\ UNCHANGED <<rules, page, budget, seen>>

(* runRule: every step was optional and none found anything. *)
RanNothing == using = "steps" /\ AllOptional /\ ~ran

(* The sequence is over: the fallback where the rule has one, an outcome left
   empty where it has none, and otherwise the evidence. *)
StepsEnd ==
  /\ pc = "steps" /\ step > Len(Sequence)
  /\ IF RanNothing
     THEN IF HasFallback
          THEN /\ using' = "necessary" /\ step' = 1 /\ marked' = Marks("necessary")
               /\ UNCHANGED <<pc, at, ran, attempted, stale, outcome, by>>
          ELSE RuleComesTo("", "none")
     ELSE /\ pc' = CASE Current.verify -> "verify"
                     [] ~Current.verify /\ using = "steps" -> "storage"
                     [] OTHER -> "settled"
          /\ UNCHANGED <<at, step, using, ran, marked, attempted, stale, outcome, by>>
  /\ UNCHANGED <<rules, page, budget, seen>>

(* Without verification a sequence claims nothing ... *)
Unverified ==
  /\ pc = "settled" /\ RuleComesTo("unverified", "none")
  /\ UNCHANGED <<rules, page, budget, seen>>

(* ... unless the interaction wrote to Web Storage (storageWrites) ... *)
Written == stored \/ (blind /\ old)

LookForWrites ==
  /\ pc = "storage"
  /\ \E look \in Looks(Written) : Goto(IF look = "yes" THEN "written" ELSE "settled")
  /\ UNCHANGED <<rules, page, budget, seen, marked, outcome, by>>

(* ... and the banner is gone. *)
WrittenAndGone ==
  /\ pc = "written"
  /\ \E look \in Looks(~shown) :
       IF look = "yes" THEN RuleComesTo("applied", "storage") ELSE RuleComesTo("unverified", "none")
  /\ UNCHANGED <<rules, page, budget, seen>>

(* verify: a rule whose check says no failed, one whose check broke is unverified. *)
Verify ==
  /\ pc = "verify"
  /\ \E look \in Looks(choice) :
       \/ look = "error" /\ RuleComesTo("unverified", "none")
       \/ look = "no" /\ RuleComesTo("failed", "none")
       \/ look = "yes" /\ Goto(IF using = "steps" THEN "gone" ELSE "nudge") /\ UNCHANGED <<marked, outcome, by>>
  /\ UNCHANGED <<rules, page, budget, seen>>

(* bannerGone after a verified choice; a banner still there is clicked again. *)
BannerGone ==
  /\ pc = "gone"
  /\ \E look \in Looks(~shown) :
       IF look = "yes" THEN RuleComesTo("applied", "rule")
                       ELSE Goto("escalate") /\ UNCHANGED <<marked, outcome, by>>
  /\ UNCHANGED <<rules, page, budget, seen>>

(* escalateClicks and, where none of them landed, escalateHeuristic. *)
Escalate ==
  /\ pc = "escalate" /\ Goto("closed") /\ clicked' \in {clicked, budget \/ clicked}
  /\ UNCHANGED <<rules, shown, comes, tcf, old, choice, stored, budget, seen, marked, outcome, by>>

(* Mutant: the API's word taken for the banner's. *)
EscalatedOutcome == [yes |-> "applied", no |-> "applied", error |-> "unverified"]

(* escalate's verdict *)
AfterEscalation == [yes |-> "applied", no |-> "banner-visible", error |-> "unverified"]

Closed ==
  /\ pc = "closed"
  /\ \E look \in Looks(~shown) : RuleComesTo(AfterEscalation[look], "rule")
  /\ UNCHANGED <<rules, page, budget, seen>>

(* runNecessaryOnly's last part: the banner may be clicked again, and the
   outcome does not depend on it. *)
Nudge ==
  /\ pc = "nudge" /\ clicked' \in {clicked, budget \/ clicked}
  /\ RuleComesTo("necessary-only", "none")
  /\ UNCHANGED <<rules, shown, comes, tcf, old, choice, stored, budget, seen>>

(* What applyRules says when no candidate is left. *)
NoRule == IF seenTCF \/ attempted \/ found THEN "failed" ELSE "not-needed"

RulesEnd ==
  /\ pc = "rule" /\ at > Len(rules) /\ Goto("end") /\ outcome' = NoRule
  /\ UNCHANGED <<rules, page, budget, seen, marked, by>>

(* Apply: an interaction whose budget is spent is not called applied. *)
Return ==
  /\ pc = "end" /\ Goto("done")
  /\ outcome' = IF outcome = "applied" /\ ~budget THEN "unverified" ELSE outcome
  /\ UNCHANGED <<rules, page, budget, seen, marked, by>>

Page == PageShows \/ PageRecords \/ PageCloses \/ BudgetEnds
Handler ==
  \/ Inject \/ Probe \/ AwaitBanner \/ Snapshot \/ ApplyTCF \/ PassOver \/ Detect
  \/ StepActs \/ StepFails \/ StepsEnd \/ Unverified \/ LookForWrites \/ WrittenAndGone
  \/ Verify \/ BannerGone \/ Escalate \/ Closed \/ Nudge \/ RulesEnd \/ Return

Next == Page \/ Handler

Spec == Init /\ [][Next]_vars

-----------------------------------------------------------------------------
(* Properties.                                                               *)

(* "applied" is earned: the page recorded the choice or wrote it down, and
   where a rule did it the banner is gone.  A scan that could not take its
   first snapshot of Web Storage is set apart, for
   it cannot tell a key that was there before from one the page wrote. *)
AppliedIsEarned ==
  pc = "done" /\ outcome = "applied" /\ ~blind =>
    (choice \/ stored) /\ (by \in {"rule", "storage"} => ~shown)

(* "not-needed" is never said of a page the handler touched, nor of one on
   which it saw a banner or a TCF API. *)
NotNeededIsUntouched ==
  pc = "done" /\ outcome = "not-needed" => ~marked /\ ~clicked /\ ~found /\ ~seenTCF

(* "necessary-only" is said only where the rule's own steps for the mode found
   nothing to act on: a rejection the page accepted is never given up for less. *)
FallbackIsLastResort == using = "necessary" => ~ran

(* The page is never acted on before the phase is marked: what capture counts
   as traffic before consent cannot have been caused by a click. *)
MarkedBeforeActing == clicked => marked
=============================================================================
