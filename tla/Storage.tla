-------------------------------- MODULE Storage --------------------------------
(* Five machines around the store, each on its own: part says which one a     *)
(* behaviour is of, and the variables of the others are Nil.                  *)
EXTENDS Naturals, Sequences, FiniteSets

CONSTANTS
  Sites, MaxImages, MaxCount, None,         \* BrowserImages: its scans, its refreshes
  Clients, Compactors,                      \* ArtifactForms
  Scans, Unreadable,                        \* IndexRebuild
  Openers, Rows, Batch, MaxInARow,          \* SchemaMigration
  Moments, Tiers, Units, Period, Policies, Bounds   \* KeepRules

VARIABLES part,
  images, made, daemon, refresh, cli, inventory, scans, spoiled, struck,
  held, worth, wanted, client, compactor, overlapped,
  object, row, refs, claims, marker, rebuild, report, sweep, early, changed,
  dialect, version, columns, document, named, objects, readable, recorded, opener, raced,
  now, policy, stored, ever

B == INSTANCE BrowserImages WITH Scans <- Sites
F == INSTANCE ArtifactForms
R == INSTANCE IndexRebuild WITH held <- claims
M == INSTANCE SchemaMigration WITH refs <- recorded
K == INSTANCE KeepRules

ASSUME StorageAssumption == B!ImagesAssumption /\ M!SchemaAssumption /\ K!KeepAssumption

imageVars == <<images, made, daemon, refresh, cli, inventory, scans, spoiled, struck>>
formVars == <<held, worth, wanted, client, compactor, overlapped>>
indexVars == <<object, row, refs, claims, marker, rebuild, report, sweep, early, changed>>
schemaVars == <<dialect, version, columns, document, named, objects, readable, recorded, opener, raced>>
ruleVars == <<now, policy, stored, ever>>

Nil == <<>>
NoImages == /\ images = Nil /\ made = Nil /\ daemon = Nil /\ refresh = Nil /\ cli = Nil
            /\ inventory = Nil /\ scans = Nil /\ spoiled = Nil /\ struck = Nil
NoForms == /\ held = Nil /\ worth = Nil /\ wanted = Nil /\ client = Nil /\ compactor = Nil /\ overlapped = Nil
NoRebuild == /\ object = Nil /\ row = Nil /\ refs = Nil /\ claims = Nil /\ marker = Nil /\ rebuild = Nil
             /\ report = Nil /\ sweep = Nil /\ early = Nil /\ changed = Nil
NoUpgrade == /\ dialect = Nil /\ version = Nil /\ columns = Nil /\ document = Nil /\ named = Nil
             /\ objects = Nil /\ readable = Nil /\ recorded = Nil /\ opener = Nil /\ raced = Nil
NoRules == now = Nil /\ policy = Nil /\ stored = Nil /\ ever = Nil

\* A bound: the documents a rebuild finds damaged or of a newer build are among these.
FewUnreadable == \A s \in Scans \ Unreadable : object[s] \in {"absent", "good"}

Init ==
  \/ part = "images" /\ B!Init /\ NoForms /\ NoRebuild /\ NoUpgrade /\ NoRules
  \/ part = "forms" /\ NoImages /\ F!Init /\ NoRebuild /\ NoUpgrade /\ NoRules
  \/ part = "rebuild" /\ NoImages /\ NoForms /\ R!Init /\ FewUnreadable /\ NoUpgrade /\ NoRules
  \/ part = "upgrade" /\ NoImages /\ NoForms /\ NoRebuild /\ M!Init /\ NoRules
  \/ part = "rules" /\ NoImages /\ NoForms /\ NoRebuild /\ NoUpgrade /\ K!Init

Next ==
  \/ part = "images" /\ B!Next /\ UNCHANGED <<part, formVars, indexVars, schemaVars, ruleVars>>
  \/ part = "forms" /\ F!Next /\ UNCHANGED <<part, imageVars, indexVars, schemaVars, ruleVars>>
  \/ part = "rebuild" /\ R!Next /\ UNCHANGED <<part, imageVars, formVars, schemaVars, ruleVars>>
  \/ part = "upgrade" /\ M!Next /\ UNCHANGED <<part, imageVars, formVars, indexVars, ruleVars>>
  \/ part = "rules" /\ K!Next /\ UNCHANGED <<part, imageVars, formVars, indexVars, schemaVars>>
vars == <<part, imageVars, formVars, indexVars, schemaVars, ruleVars>>
Spec == Init /\ [][Next]_vars

-----------------------------------------------------------------------------
(* The image in service is not removed under the browsers to come, and the    *)
(* newest inventory names it, whatever the refresh, the prune command, scans  *)
(* and the end of processes interleave to, but for two things.  An inventory  *)
(* may be spoiled: lost, or recorded by a prune command that had asked before *)
(* a switch; and a prune command that reads a spoiled one removes the image   *)
(* in service, which browserimages.go:22 says is never removed.               *)
ImagesAreTrue == part = "images" => B!TypeOK /\ B!ServiceImageExists /\ B!InventoryIsTrue

(* The last good form of an artifact a result names is never destroyed by a   *)
(* compaction that fails, is stopped, or finds a damaged object it wrote.     *)
EvidenceSurvives == [][part = "forms" => F!TypeOK' /\ F!KeepsEvidence]_vars

(* A rebuild does not put back what retention deleted, nothing is swept while *)
(* the index is half built, and a run that ends has settled or reported every *)
(* scan nothing else touched.                                                 *)
RebuildIsSafe == [][part = "rebuild" => R!TypeOK' /\ R!LeavesPruned /\ R!SparesHalfBuilt /\ R!RunIsThorough]_vars

(* No interrupted upgrade loses a document or leaves a store that no build    *)
(* can open; on a server two upgrades at once do not either.                  *)
UpgradesAreSafe == [][part = "upgrade" => M!TypeOK' /\ M!KeepsDocuments /\ M!StoreStaysOpenable]_vars

(* However often prunes run, each period a rule reaches is remembered by the  *)
(* best result it ever held, and a rule added never shrinks what is kept.     *)
RetentionHolds == part = "rules" => K!TypeOK /\ K!PeriodsKeepTheirBest /\ K!RulesOnlyAdd
================================================================================
