# Formal models of wsaw

wsaw watches websites: it loads each configured page in a browser on a schedule,
handles the consent banner, records what the page stored and requested, keeps the
result, compares it with an approved or a previous one and reports what changed.
This directory holds TLA+ models of its concurrent and long-running parts, the
TLC runs that check them on small instances and the TLAPS proofs of what holds for
every instance. Everything is translated from the Go source; a definition's lines
are in `PROJECT.json` under `map`.

## 1. Inventory

`wsaw run` is one process. `supervise` (`cmd/wsaw/run.go`) starts the notification
worker, the scheduler, the HTTP server and the maintenance loops, and waits for a
signal or for the error of one of them.

    config ──reload──▶ scheduler ──▶ scanner ──▶ browser pool ──▶ capture + consent
                          │              │                              │
                          │              └────────▶ store ◀─────────────┘
                          │                         ▲  ▲ │
                          ▼                         │  │ └──▶ web UI, API, MCP, reports
                 flap suppressor ─▶ dispatcher   prune sweep
                                        │        compact rebuild (maintenance loops, CLI)
                                        ▼
                              webhooks, Teams channels

| component | state it keeps | operations | hard behaviour | what makes it correct |
|---|---|---|---|---|
| scheduler (`internal/daemon`) | jobs with next run, last run, attempt, pending retry; pool tokens; slots per origin; the reload channel | build, advance, carry over, dispatch, run, retry, publish, reload, shut down | scan goroutines decide about jobs a reload may have replaced; restart and crash with only the store left; two limits taken and given back together; grace period | limits never exceeded or leaked; no held-back failure lost; no observation scanned twice or inside its minimum interval; attempts counted; every target scanned again; shutdown ends |
| supervision (`cmd/wsaw/run.go`) | the run context, the error channel | start, signal, component error, wait | parts end in different orders | nothing published is lost at the end |
| flap suppressor (`internal/diff/flap.go`) | map from change to when it was reported | Filter, Prune | called from all scan goroutines without a lock; must forget | each change once a window; bounded memory |
| dispatcher (`internal/notify`) | bounded queue, worker, retry state, counters | Publish, Start, fan out, retry, hold back, drain | queue full, hung or failing endpoints, shutdown during a retry | every event has one counted fate; scans never wait; the message about a scan comes last |
| configuration (`internal/config`) | the merged settings of every target | load, inherit, validate, watch and reload | inheritance levels; bounds that depend on several settings | validation implies what the scheduler assumes |
| scanner (`internal/scanner`) | one scan's result | scan, degrade, persist | partial failure of a scan, cancellation | a result for every scan, whatever failed |
| body sampling (`internal/scanner/bodies.go`) | a ledger in the store | decide, record | scans of one target in parallel | bodies are kept again when due |
| result store (`internal/store`) | result rows, references, claims, baselines; a bucket of artifacts | PutArtifact, PutResult, SetBaseline, delete | index and bucket cannot be written together; several processes share both | a stored result or baseline always finds its artifacts |
| retention (`retention.go`) | tiers and bounds | select, prune, collect, sweep | runs beside scans, in batches, killed in between | never deletes what is referenced, approved, or about to be |
| compaction (`bucketcompress.go`, `compact.go`) | one artifact under a raw and a compressed key | rewrite, switch, delete | readers and pruners in between; killed in between | readable at every instant |
| rebuild and migrations (`rebuild.go`, `rebuildmarker.go`, `store.go`) | a marker, a schema version | rebuild the index from documents, migrate | crash half way; sweep of a half-built index; two processes at once | a half-built index never licenses a deletion |
| maintenance loops (`internal/app`) | due times in the store | prune, sweep, vacuum, refresh the browser image | several processes; a clock that jumps | each pass once a period, none overlapping |
| browser pool (`internal/browser/pool.go`) | browsers, their uses and health | acquire, release, restart, close | crash of a browser under several scans, shutdown while acquiring | no browser leaked or used after close |
| capture session (`internal/capture`) | the recorder, shared with browser callbacks | record, settle, finish | events after the end | the record is complete and consistent |
| consent (`internal/consent`) | the rule being tried | detect, click, verify | frames that come and go | the reported outcome is what happened |
| normalise, diff, robots, confidence, classify | none | pure functions | odd inputs | idempotent, symmetric, total |
| web UI and API (`internal/httpapi`) | watchboard cache, manual scans, sessions | requests | cached state; manual scans beside scheduled ones | what is shown is what is stored |
| share links (`internal/share`, `httpapi/sharing.go`, `artifacts.go`) | the signing key | mint, open, hand out, sign a URL | keys replaced while links are out, artifacts two scans share | a link opens its one scan until it ends |
| container browser (`internal/container`) | labelled containers and images | run, stop, reap, build, prune | processes that die, pids used again | only what a dead process left is reaped |
| certificates (`httpapi/certs.go`) | the pair that is served | read, compare, replace | files replaced one after the other | an expired pair or one that does not match is never taken |
| reports, MCP, metrics, logging | none | rendering | none | out of scope: text |

`PROJECT.json` lists each with its files and status, and under `hazards` the places
where something can go wrong that a test would hardly reach.

## 2. The modules

Three conventions hold throughout. An action is one critical section, statement,
request or handler of the code, with everything it changes. Time is relative: a state
holds how long ago something was, or how long it still is, and saturates at a
horizon no comparison looks beyond. A variable marked *history* is read by properties only.

Five components are checked on their own: the Scheduler, Notifications, ArtifactStore, the
BrowserPool with its abstract specification Leases, and Maintenance. The
others are smaller, and TLC checks them in three *sums*: Storage, Desk and Session (with their
instances MCStorage, MCDesk and MCSession) instantiate several machines, the variable `part`
says which one a behaviour is of, and the variables of the others are `Nil`. The machines of a sum
do not interact; the sum saves starting TLC sixteen times, and each of its properties is about one
part. In a sum a part's type invariant is a conjunct of that part's property. SchedulerProofs,
NotificationsProofs, ArtifactStoreProofs, BrowserPoolProofs, MaintenanceProofs, StorageProofs,
DeskProofs and SessionProofs extend the modules they are named for with theorems and proofs (section 6).

### Scheduler.tla

One action per step of the three kinds of actor. The *process* starts, is told to
stop, is killed, and has a clock. The *loop* of `Run` takes a reload, a tick or
shutdown; while it walks the snapshot of due jobs (`due`), it takes nothing else.
A *scan goroutine* (`pc`, `run`) ends its scan, decides on a retry, requeues under
the lock or finishes, publishes, and gives back its slots in the order of the
deferred calls. Between any two of these a reload may replace every job.

| state | in the code |
|---|---|
| `phase`, `cancelled` | where `Run` is; whether `scanCtx` is cancelled |
| `reload`, `ticker` | the channel of capacity one; `ticker.C` |
| `target`, `job` | `d.jobs`: the settings and the mutable fields of a job |
| `sem`, `inUse` | the pool's semaphore; `originLimiter.inUse` |
| `pc`, `run` | the goroutines of `dispatch` |
| `stored` | `LatestResult` of the store, by the age of its scan |
| `owed`, `lapsed`, `orphaned`, `asked` | history: held-back failures; those among them whose waiting retry a reload removed with the target; keys dropped while scanned; the last recorded start |

Every comparison of the code is between a span and the time since an instant, so a job
carries what is left (`wait`) and what has passed (`age`). Ages saturate at `Horizon`;
`TimesAssumption` says it is no smaller than any span a comparison uses, so saturation
changes no comparison. An outcome is "usable", "failed" or "truncated", which is all a
retry policy tells apart. A failed scan's result claims its start or its end as the time
of the scan, as `failedResult` does, and the store may refuse a result.

### Notifications.tla

From a finished scan to its alerts. Scans filter their changes through the flap
suppressor, in two steps since it has no lock (`FilterReads`, `FilterWrites`; two at once
may also end the process, `MapFault`, as Go's runtime does for concurrent map
access). They queue an event per change and then one for the whole scan. One worker
takes events, asks each notifier that wants it in order, retries, holds back
what the confidence gate drops, and drains when told to stop. `Exit` is the end of
`supervise`, with or without the error of a component.

`settled`, `dropped` and `published` are histories: the counters and log lines the code
keeps per event, as sets. An event is its scan and its subject, since payloads are
rendering. `worker.todo` is the rest of `fanOut`'s list.

### ArtifactStore.tla

What evidence needs to survive: the bucket and the index cannot be written together,
so a scan writes an artifact, then claims it, then commits a row that names it and
releases the claim. Prunes and sweeps read a page of the index, then the claims,
then delete one artifact after another. Any number of processes do all of this at
once, and each step here is one statement, transaction or bucket call of the code.

| state | in the code |
|---|---|
| `object` | the bucket, an artifact with its age: "young" means within `unreferencedArtifactGrace` |
| `claim` | `artifact_claims`, with the age of the claim against the same grace period |
| `results`, `baseline` | the tables of that name; together `liveOwners` |
| `refs` | `result_artifacts`; rows outlive their result, which makes them the work list of the collector |
| `approving` | the result `SetBaseline` has read before its transaction |
| `scan` | what a scan is taking (`item`), has been given a reference for (`names`) or has failed to store (`failed`) |
| `collector` | the local variables of `prune` and `sweep`: the page, what is still named, what is claimed, the cursor `after` |
| `touched`, `raced`, `shared`, `pinned` | history, for the windows `EvidenceKept` names |

Artifacts are numbers in the order of their keys, so a page is a page of the code's
queries, and a cursor moves past what was added behind it. Bodies are shared by
content; a document is its scan's own, is stored without a claim and is protected by
its age alone. What is abstracted: all scans are of one series, so there is one baseline;
the policy condemns any subset of the stored results (what it should condemn is in KeepRules).
`Legacy` are rows of an older wsaw whose document could not be read when the references were
derived (`refsUnderivable`); they name their own document only and make bodies uncollectable
until they are pruned. The rebuild and its marker are in IndexRebuild, the two spellings of
an artifact in ArtifactForms. A batch of condemned rows is one step. A crash of a process is
each of its scans and collectors stopping (`LoseScan`, `StopCollector`), all of them or some.
An artifact does not age while a scan in flight holds it: the grace period is 24 hours and a
scan has a hard timeout of minutes; this is the one assumption about time.

`EvidenceKept` does not hold without exception, and its text names the exceptions, each a
window the code leaves open. An artifact may go missing when it was removed (a) while a
scan had found it in the bucket and not claimed it yet, or had taken it after the
collector's page was read, or (b) when the commit of another scan had released the claim
on it; and a baseline may lack evidence when it was approved after its result had gone.
Everything else that can happen, with collectors stopped anywhere and results pruned and
approved in between, keeps the evidence.

### BrowserPool.tla, an implementation of Leases.tla

`Leases` is what a scan relies on: at most `Size` scans run in a browser at a time, no two in the same
one, a browser that cannot separate scans is replaced after its first, and no scan runs once the pool
has shut. `BrowserPool` is the code: the slots channel, one mutex whose critical sections are the
actions, and between them everything slow. A client's `at` is where its goroutine is in `Acquire`, the
lease or `Release`; `has` is the browser in its hands. `Switch` retires idle browsers without taking
slots, `Close` takes every slot before it closes what is idle. A launch that fails may leave its
container and profile ("halfLaunched"), and the removal of a browser that ends may be refused
("notRemoved"): the pool counts neither. The refinement mapping says a scan has a browser while its
context is open and that the pool has shut when `Close` has all slots.

### The other modules

| module | models | state, in short |
|---|---|---|
| Maintenance | the loop of prune, sweep and vacuum, its receipts in the store and those of the commands beside it, reloads through channels of one, restarts and crashes | when each job is due, the schedules in force and offered, the age of the last receipt and of the one the loop counts from |
| BrowserImages | a refresh makes, checks and switches to an image, prunes older ones and records an inventory, beside `wsaw browser prune`, scans and restarts | the runtime's images, the image in service, the newest inventory; history `struck`, what a command that went by a spoiled inventory removed from service |
| ArtifactForms | one artifact plain, packed or both, while it is stored, fetched, removed, handed over by redirect and compacted, any request of which may fail with or without effect | the two objects, what each client and compaction is at |
| IndexRebuild | `wsaw store rebuild-index` and its verification with the marker, beside scans, prunes and sweeps | documents, index entries, reference rows, the marker |
| SchemaMigration | two processes open and upgrade one store on SQLite, PostgreSQL or MySQL, killed between any two statements | recorded version, columns, where each document is |
| KeepRules | which results of a series a prune keeps, over many prunes between scans | the stored results and all there ever were |
| Capture | browser events, the readers of bodies and the session around one page | the recorder's fields, the stage of the session |
| Consent | the handler on a page that changes under it: TCF, rules, escalation, verification | the page, the handler's place, its outcome |
| BodySamples | the ledger that decides when bodies are kept, for two scans in one or two processes, retries, reloads, a rebuild | ledger rows, the lock, what each scan has seen |
| Robots | robots.txt read line by line, matched, fetched and cached | the file a site serves, the cache |
| ScanDesk | scans asked for in the UI: budget, cooldown and acceptance beside the scheduler | presses, the rolling budget |
| Drift | a comparison with a baseline or the previous scan when scans see less than the site; confidence bands | what each scan could see, the report |
| AssetKeys | the key of an asset under the rules of a target, and the comparison of results keyed under different rules | two scans and the rules then and now |
| Containers | containers and profiles, the processes that start, stop and reap them, pids that are used again | who is alive, what is left |
| Reload | the steps of a SIGHUP, and the reloader of the certificate pair while files are replaced | file, disk, what app, scheduler and listener go by |
| Shares | links, their keys and lifetimes, and what an open link hands out: a page, which compares with another scan of the series, and artifacts, copied or by signed URL | keys in file and daemon, links, requests, signed URLs |
| Settings | retries, intervals and body sampling written at three levels, what validation refuses and what an accepted file resolves to | the file |

Several are pure algorithms checked against a reference definition over bounded inputs:
Robots against the merged groups and the longest match of the convention (`Governing`, `Means`; the
code departs from it where `Split` and `Greedy` hold), AssetKeys
against "two addresses are one asset when the rules say so" (`Told`, `Alike`), KeepRules
against the best result of each period, Settings against what the file says (`Says`).

## 3. The runs

| run | asks | bounds and why they are enough |
|---|---|---|
| `scheduler_retry` | types; is a held-back failure ever lost except with its target, a key scanned twice at once, or sooner than its minimum interval; are attempts counted; across retries, reloads, restarts and crashes | one key, two goroutines; lists with three attempts on one origin, with a cron schedule and two attempts on another, and without the key; an origin of one slot; a scan of up to one tick against a minimum interval of two; a crash at every step. `FewOverlaps` stops where a key that was removed and re-added while it was scanned runs twice, which `OneRunPerKey` exempts |
| `scheduler_live` | are failures settled, is each key scanned again, does shutdown end; is the pool's limit kept | two keys for one slot, no jitter and scans shorter than a tick: with a pool that is always full the later key starves (see the hazard at `daemon.go:286`), and that is load, not a defect of the loop |
| `notify_deliver` | has every event one counted fate at each notifier; does a scan's message come after those of its changes; was what is suppressed reported within the window | two overlapping scans that find one change, a queue of one so that it overflows, a webhook and a channel that holds back, two attempts, a window of two ticks |
| `notify_live` | is every event settled and does a stopping process drain | one scan with two changes, three events for a queue of one |
| `store_two` | does what a stored result or the baseline names stay in the bucket, but for the windows above | two scans that share one body with each other and with a stored legacy result, a prune or a sweep at every step, refused deletions and stops anywhere; a page of two, so that verdicts of a page are stale when used; one of the two scans may be approved, the other stands for those that are not. More collectors are the proof's business |
| `store_live` | is what interrupted scans, expired results and refused deletions leave cleared | one collector that alternates between prunes and sweeps |
| `pool` | does the pool keep the promise of Leases, count what it holds, keep no outdated browser, leave nothing behind but what failed launches and refused removals do, and serve every waiter | two goroutines, two slots, two browsers, one switch of the image, a limit of two scans per browser or one |
| `maintenance` | do passes keep their distance, does the last reload come into force, is no schedule put off for ever | intervals of two ticks for all three jobs, so that they fall due together; the sweep is also run by command, at any step |
| `storage` | five machines: BrowserImages, ArtifactForms, IndexRebuild, SchemaMigration, KeepRules | three images; two clients beside a compaction; two documents, one of which may be unreadable (`FewUnreadable`); two upgrades of two rows; four hours of which the clock repeats one |
| `session` | four machines: Capture, Consent, BodySamples, Robots, and every robots.txt of up to four lines out of eleven | two requests and one body in the queue; lists of two rules; two scans of a series with every second to keep its bodies; a site that changes its file while two scans ask |
| `desk` | seven machines: ScanDesk, Drift, AssetKeys, Containers, Reload, Shares, Settings | two presses and a budget of one; three assets each asking for the next; two processes and two pids; two certificates and four files; one link, two keys; files of up to four settings |
| `rebuild_documents` | a violation, see section 5 | two documents |

The runs of Notifications, the pool and the sums set `CHECK_DEADLOCK FALSE`: the processes,
scans and clocks modelled there end and stay ended. The others check deadlock.

## 4. Fairness

`Scheduler!Fairness`: time passes, and a goroutine that can go on does (weak). A scan is
bounded by its hard timeout and by cancellation, which is why `ScanReturns` is fair.
The cases of the loop's `select` have strong fairness: Go chooses at random among the
ready ones, so a case that is ready again and again is taken, even if others are
too. Nothing obliges a user to reload or to stop. `HeldBackIsSettled` and `KeepsWatching`
exempt behaviours in which lists are applied for ever (`ReloadedForEver`): every reload
derives an overdue start anew, so a scan can be put off for as long as they go on.

`Notifications!FairSpec`: only the scans are fair. `WorkerRuns`, the weak fairness of the
worker, the exit and the clock, and of `Drain` by itself, since `select` may not prefer the
queue for ever, is the antecedent of `EventsAreSettled` and `DrainCompletes`.

`ArtifactStore!Fairness`: a pass under way goes on (weak), both kinds of pass start again and
again (the maintenance loops), a removal that is tried again and again succeeds in the
end (strong, because each pass may find it refused), scans end and a day passes (weak).
`LeftoversAreCleared` has an antecedent. The index is not empty for good, since a sweep
refuses to judge by an empty one; and passes are not cut short for ever (`CutShort`:
a stop that is not at the same time the last step of a pass).

`BrowserPool!Fairness`: launches, checks, scans and closes are bounded by timeouts, so a
client that holds a slot goes on (weak); the runtime serves the receivers of a channel in
their order, so neither a waiting scan nor the close is passed over for ever (strong).
Nobody has to call `Switch` or `Close`.

`Maintenance!Fairness`: time passes, the loop goes on when it can, and an ended process is started
again (weak). Its `select` is fair among ready cases, and a process that runs is not ended sooner than
`MinUptime` after it started, which has to exceed the startup delay: a daemon restarted faster than
that never sweeps. Nobody has to run a command (`CommandRuns`); where one is run again and again, a
process that restarts between its receipts may put its own pass off for ever.

## 5. Disagreements found

One is a run with `expect: violation` and an entry of `findings`: `rebuild_documents`. The README
says a result document is never collected, even when no index entry points at it
(`README.md:1335`); where every stored result's references are known `collectable` licenses it like
any other object, and a sweep deletes it once it is old. `retention.go:1218` counts such documents
in a field nothing sets.

The models contain the following behaviours too, which a doc, a comment or common sense speaks
against; properties name them as exceptions where they would otherwise fail.

Scheduler and notifications
- a scan that fails in the grace period is held back for a retry that the ending process
  never runs (`daemon.go:408`, `531`); "A target the reload removed has its outcome published as final"
  (`CHANGELOG.md:891`) is so for a run in flight, while a failure whose retry waits is dropped
  unpublished (`lapsed`); a target removed and added back while it is scanned starts
  again inside its minimum interval (`schedule.go:275`; `orphaned`); a scan longer than its
  interval is joined by a second one (`validate.go:325`); reloads more frequent than the startup
  delay put a scan off for ever (`daemon.go:135`);
- what is published in the grace period reaches a worker that has ended (`notify.go:421`);
  after the error of a component nothing waits for the drain (`run.go:214`); two scans in the
  unlocked suppressor both report one change (`daemon.go:522`), and it forgets only when the
  process ends (`flap.go:80`).

Store
- a collector asks who names an artifact, then who claims it; a scan that commits in between
  is in neither answer (`retention.go:1665`). `PutArtifact` claims what it found in a later
  statement (`baseline.go:417`); the commit of a scan releases the claims of others on the same
  bytes (`claims.go:82`); `SetBaseline` reads before its transaction (`baseline.go:55`);
- a reader of an artifact under compaction may be told it is absent (`bucketcompress.go:108`), and two
  overlapping compactions, or one and a removal, may lose it; a cancelled rebuild clears its
  marker with the index half built, and the marker of a killed one stops counting after a day;
- on SQLite two upgrades at once may replay a migration that cannot be (`sqlite.go:168`);
- "it never removes the image in service" (`browserimages.go:22`, and `:326` of a prune command) does not
  hold after the newest inventory was lost or is not true, which a prune command that began before a
  switch brings about (`browser_prune.go:153`): the next command goes by it (`cli.misled`, `struck`);
- "the next sweep falls due an interval after the last one recorded here" (`store/maintenance.go:17`),
  but the loop reads receipts when a schedule is set and not again: one that a command leaves later,
  or that could not be read, is not counted from (`Overlooked`);
- the "newest" fallback of `applyKeep` is unreachable.

One scan
- a redirect of a request in flight changes its phase (`recorder.go:185`); an event between
  `finishBodies` and `requests` leaves a body unexplained (`bodies.go:310`); a deadline while cookies
  are collected marks a complete scan as timed out;
- a banner can be left with outcome "applied" on a blind first look (`consent/handler.go:325`), and
  the last error of a verification outlives a look that succeeded;
- a sampled body whose row failed while it ran counts as kept after a rebuild
  (`bodysamples.go:361`); a retry that robots.txt forbids never settles;
- `$` behind `*` in robots.txt is matched at the first occurrence only (`robots.go:208`), a failed fetch
  is cached for the full time. The groups of one agent are not merged, as RFC 9309 has it: the first
  that names the agent governs, or the last for `*` (`robots.go:169`; `Split`).

Around the scans
- two presses, or a press and the scheduler, may scan a target at once (`api.go:803`); "retrying
  must finish inside the target's own schedule" (`validate.go:328`), but only the waits are summed
  and only those of settings the target writes itself, so attempts that take long, or retries
  written at another level, may go on when the next scan is due; a cap that is not written lets sums
  of delays overflow;
- a denied asset is not always said (`diff.go:824` against its early return), removals of cookies
  are never withheld, and an identity rule that changes makes scripts appear changed;
- "no Chrome process and no profile directory is left behind" (`pool.go:391`), "removed on every
  exit path, including a failed launch" (`browser.go:619`), but a launch that fails only closes its
  allocator and leaves container and profile (`browser.go:201`; "halfLaunched"), and a removal that
  is refused is logged and not tried again (`browser.go:623`; "notRemoved"). A container in another
  runtime is never reaped;
- a link shows "a page with that scan and nothing else" (`README.md:910`), but that page lists what
  changed against the baseline or the previous scan, removed subjects included (`sharing.go:331`;
  `x.beside`);
- a signed URL outlives its link by the time of one signature, and a replaced key goes on opening
  links until the daemon takes the new one (`README.md:919`);
- a browser whose switch falls between check and hand-out is handed out (`pool.go:48`).

## 6. Proofs

Each proof module extends one specification and proves its theorems for every value of the
constants that satisfies the specification's named assumptions.

| module | theorem | states |
|---|---|---|
| SchedulerProofs | `RestIsClean` | a stopped process has left no goroutine, no snapshot and no debt |
| | `TypeCorrect` | `Spec => []TypeOK` |
| | `SlotsAreBounded` | `Spec => []SlotsBounded` |
| | `OriginsAreBounded` | `Spec => []OriginsBounded` |
| | `HeldBackIsKept` | `Spec => []HeldBackHasSuccessor` |
| | `OneRunAtATime` | `ScansAreShort => (Spec => []OneRunPerKey)` |
| | `IntervalsAreKept` | `ScansAreShort => (Spec => MinIntervalKept)` |
| | `AttemptsStayCounted` | `ScansAreShort /\ PoliciesAreBounded => (Spec => []AttemptsAreCounted)` |
| NotificationsProofs | `TypeCorrect` | `Spec => []TypeOK` |
| | `EventsAreAccounted` | `Spec => []Accounted` |
| | `WholeScanComesLast` | `Spec => []WholeScanLast` |
| | `SilenceIsEarned` | `Spec => []SilenceFollowsReport` |
| ArtifactStoreProofs | `EvidenceStays` | `Spec => []EvidenceKept` |
| BrowserPoolProofs | `TypeCorrect` | `Spec => []TypeOK` |
| | `LiveStaysTrue` | `Spec => []LiveIsTrue` |
| | `IdleStaysCurrent` | `Spec => []IdleIsCurrent` |
| | `CloseLeavesNone` | `Spec => []NoneOutlivesClose` |
| | `KeepsItsLeases` | `Spec => LeasesAreKept`: BrowserPool implements Leases |
| MaintenanceProofs | `TypeCorrect` | `Spec => []TypeOK` |
| | `PassesAreSpaced` | `Spec => RunsAreSpaced` |
| StorageProofs | `ServiceIsSpared` | `Spec => []ImagesAreTrue` |
| | `EvidenceIsKept` | `Spec => EvidenceSurvives` |
| | `RebuildsAreSafe` | `Spec => RebuildIsSafe` |
| | `UpgradesKeep` | `Spec => UpgradesAreSafe` |
| | `RetentionKeeps` | `Spec => []RetentionHolds` |
| DeskProofs | `BudgetIsKept` | `Spec => []DeskHolds` |
| | `NothingIsMissed` | `Spec => []DriftIsReported` |
| | `LiveBrowsersAreSpared` | `Spec => []BoxesAreAccounted` |
| | `LinksEnd` | `Spec => []SharesHold` |
| | `SettingsAreSound` | `WaitsFit => (Spec => []SettingsWork)` |
| | `AssetsAreTold` | `Spec => []AssetsFollowRules` |
| | `ReloadsAreWhole` | `Spec => ReloadIsSafe` |
| SessionProofs | `ScansAreHonest` | `Spec => []CaptureIsHonest` |
| | `OutcomesAreEarned` | `Spec => []ConsentIsHonest` |
| | `SamplesAreKept` | `Spec => LedgerIsTrue` |
| | `RobotsFollowed` | `Spec => []RobotsAreFollowed` |

### The scheduler

The argument has layers, each used by the next. `AtRest` is needed first: `Start` replaces
the jobs, which keeps `due \subseteq Listed` and pays every debt only because nothing is
left when a process starts. `TypeOK` is then inductive. `SlotsBounded` is not: the
number of goroutines is bounded only because it *is* the number of tokens
(`SlotsCounted`: `sem = Cardinality(Busy)` and no more than the capacity), so that is the
invariant proved. In the same way `OriginsCounted` equates `inUse[o]` with the runs that
have taken a slot of `o` and not given it back, which survives a reload because a run
remembers the origin it took. `HeldBackHasSuccessor` is inductive given types: a reload
carries a waiting retry over or removes it with the target, which is the one way to lose
a debt (`lapsed`), and a goroutine that has yet to decide keeps the debt covered until it does.

### The spacing of scans

Nothing in the scheduler marks a key as being scanned: that a key is scanned once at a time is a
consequence of the minimum interval. These three theorems therefore have the
hypothesis `ScansAreShort`: a scan, which its hard timeout bounds, takes less than the minimum
interval of any listed target. The defaults satisfy it (45 seconds, 5 minutes), the run does
(one tick, two), and the code does not enforce it: a configuration that breaks it is outside these
theorems. `PoliciesAreBounded` says that some number bounds the attempts of all retry
policies, which holds because they are machine integers.

`OneRunPerKey` is far from inductive. What is, for a key no reload has dropped while it was scanned,
is `Spaced`: there is at most one run of it (`Single`), whose job has no retry waiting and counts its
age from the start of that run or later (`InCharge`); what dispatch is about to start is due and has
no run (`Ready`); and a job believes its last run no longer ago than it was (`Dated`). A key with a
run in flight is then not due: its job is no older than the run, the run is no older than `ScanTime`,
and the minimum interval is longer. `Loaded`, `Walking`, `Timely` and `Recorded` tie the settings to a
list that was loaded, the snapshot to the loop, the runs to `ScanTime`, and what the store recorded,
from which a restart starts, to the start of the scan. `MinIntervalKept` follows from the same
invariant. `AttemptsAreCounted` adds `Counted`, which says where the attempt of a job past its first
is: in a waiting retry, or in the one run in flight.

### Notifications

`Accounted` and `WholeScanLast` say what has become of an event; what makes them inductive is
where an event is. `Recorded` ties `published` to what the goroutines of the scans have sent.
`Apart` puts an event in one place: once in the queue, or with the worker, or refused. `Fated`
says that what is settled is in none of them and is settled once at each notifier, and that a
notifier whose event is nowhere has had it. `InOrder` says that nothing of a scan stands behind
the scan's own event, in the queue and beyond it, which holds because a goroutine queues that
event last (`Unpublished`, and the first part of `InOrder`) and there is one worker.
`SilenceFollowsReport` is inductive with the types. A step that moves no event is dealt with once,
by `MailRests`.

### The store

`EvidenceKept` speaks of one instant, and a collector acts on what it read at earlier ones. The
invariant says what those stale answers are still worth: whatever lives and is on the page was
named when the references were read, or has been touched since (`RowsRead`); a fresh claim was there
when the claims were read, or has been touched since (`ClaimsRead`); and a stored result whose
references are unknown was noticed (`UnknownRead`). Then what a page condemns and somebody needs
was touched by a scan in the meantime or had its claim released by the commit of another, which are
the windows the property exempts (`CondemnedRaces`). The other half is what a scan relies on until
it commits: what it was given is claimed or the claim was released by another (`Claimed`), and is in
the bucket or was lost to such a race (`InHand`); its document is new and nobody else's
(`NewDocuments`, the reason documents need no claim). Every collector step is one of two kinds, and
each is proved once: it thins the store and leaves the verdicts of others standing
(`CollectorMoves`), or it reads (`CollectorReads`); a scan's step grows the store (`ScanMoves`) or
commits (`Stored`). The theorem is for any number of scans, collectors, bodies and any page size,
which is what the run's single collector cannot show. The types it needs are `Shape`, the
part of the module's `TypeOK` that does not speak of the place of a cursor.

### The pool

Three counters have to be true together. `Tokens`: what is in the channel, what `Close` has taken and
one for each client that is past the channel are `Size`. `Counts`: `live` is the number of browsers
that somebody has (`Kept`), and each of them is in one place (`Apart`, `Once`), one client's hands,
the idle stack, what a switch retires or what `Close` closes. `Closing` says how far `Close` is, and
once it has every token nobody is past the channel, so what is still there was left by a failed launch
or a refused removal, or is about to be closed by a switch (`NoneOutlivesClose`). `IdleIsCurrent` is
inductive with the types, because `put` compares generations under the lock under which `Switch`
empties the stack. `Fresh` is for the refinement: a browser that cannot separate scans and is about to
serve one has served none.

The refinement (`LeasesStep`) takes the actions one by one. `Open` implements `Grant`, the two ways
a scan ends implement `Yield`, the end of a browser process implements `Replace`, the step in which
`Close` takes what is idle implements `Shut`, and everything else stutters. `Grant` needs that fewer
than `Size` browsers serve, which is `Tokens` once more: the client itself has a token and serves
nothing yet (`FewerThanSize`).

### Maintenance

`RunsAreSpaced` compares a step with how long ago two passes were: the one the loop counts from
(`counted`), which is its own last one or whose receipt it read when the schedule was set, and the one
that left the last receipt (`since`). These are the same but for what the loop overlooks
(`Overlooked`), so the work is in the first. The invariant says that the time until a pass is due
makes up for what has not passed: `Spaces(k)` has what is left plus the uptime at least the startup
delay, and what is left plus `counted` at least the interval. A tick takes one from the first summand
and adds one to the second, up to a horizon no interval exceeds (`HorizonBounds`, by
`FiniteHasGreatest`); a schedule computed anew establishes it (`DueType`), and so does the end of a
pass, for which the process must have been up for the delay when it began (`Warm`).

### The parts of Storage

StorageProofs proves the property of each part of the sum from an inductive invariant of its
machine: `ImagesInv`, `FormsInv`, `RebuildInv`, `SchemaInv`, `RulesInv`. That a step belongs to the
machine of its behaviour is `StorageStep`; the five theorems then follow each from its part. The
only assumption, `StorageAssumption`, is what the machines assume of their constants.

### The image in service

A prune command acts on an inventory it read earlier, while the loop may switch to another image
and record it. What protects the image in service is that a plan spares the newest image, the one
it takes for in service and the configured one (`PlanSpares`), and that whoever could have become
the image in service since is one of these: `InService` says for each place of the command what the
daemon serves, or a daemon that starts now would, in terms of what the command has read. It says
nothing of a command that read a spoiled inventory (`cli.misled`): that one takes any other image for the
one in service, and what it removes is `struck`. Two
refreshes during one command would break it. `Calm` and the guard of `Due` are where the code's
times enter: a refresh is hours away from the last one, a command gives up after minutes.
`InventoryIsTrue` is `Named`, which holds from the record of one refresh to the switch of the next.

### The two forms of an artifact

A compaction writes the packed form, reads it back and only then removes the plain one, and
what makes that safe is who else is at work. `Alone` says that a compaction that overlapped
nothing has the artifact to itself, among compactions and among removals; `Sound` that one form
is good while it deals with the other, the plain one until the packed one is verified and the
packed one from then on. A request never destroys a form a result names, because what is being
removed is wanted by nobody and nobody is about to store it (`Claims`). The run shows it for two
clients and one compaction at a time, the theorem for any number.

### The rebuild

A rebuild reads first and writes later, beside scans, prunes and sweeps that do not wait for it.
`Marked` says who may sweep meanwhile: a run that writes has its marker up, and a sweep beside it
was under way before or found that marker too old; ageing a marker and starting a sweep keep this,
and it is all `SparesHalfBuilt` needs. `LeavesPruned` compares the write with answers of two
earlier steps, so `InHand` says what those answers are still worth: for the document in hand, as
long as no scan, prune or sweep has touched it, that it exists, can be read, and has an entry or no
references. `Holding` is the part that concerns `PutResult`: a scan still to be stored does not
look pruned. `RunIsThorough` speaks of the end of a run; `Thorough` is its form on the way:
`Surveyed` holds of every scan from the survey on, and `Judged` of every scan the walk has passed.
A step of a scan, prune or sweep puts its scan into `changed` and leaves the others alone
(`Touches`), so it is dealt with once (`TouchKeeps`); a step of the walk either goes on with its
document (`GoesOnKeeps`) or lets go of it and owes its judgement (`DropKeeps`).

### Upgrades of the schema

The documents need an invariant over the walk of each process: a walk that has not failed leaves
none behind it (`Walked`), its page steps over none (`InPage`), it has written the object before it
empties the row (`Written`), and the column is dropped only when nothing is in it (`Emptied`). That
a page is the first `Batch` of the rows in key order, all of them and each once, is `PageHolds`; it
rests on `Enumerated` (a finite set of numbers can be put in order), proved by a least counterexample
and not by the induction theorems, and on the pigeonhole in `OnceEach`. Another process at the same
rows is harmless because documents only leave, objects and finished work only stay (`Grows`), and
every part of the invariant survives that (`WalksOn`, `ServesOn`).

The schema needs `Earned(v)`, what the statements up to version v leave behind: the record has
earned its version, a process at version v the one before (`Climbs`), on MySQL also the statements
it has run (`Stated`), and who has the store open all of it (`Full`). `OneMigrates` is the part for
SQLite, where the record must match the columns exactly for the drop of a column to be replayed, and
holds until two migrations meet, which `StoreStaysOpenable` leaves out there. `SchemaAssumption`
asks for finitely many rows with positive numbers for keys, and positive bounds.

### What retention keeps

A prune decides from what earlier prunes left, so "the newest n periods" are counted among fewer
and fewer results. `ReachedStill` is the reason nothing is lost by that: a period a rule reaches
among all results there ever were is reached among any part of them that still has a result of it,
because the newest result of every newer period that is left can be mapped, one to one, to that of
the same period among all. `PeriodBest` then says that the best of the period is kept. A rule added
adds: `Last`, `Since` and the buckets grow with their number (`MoreIsKept`), and an active policy
keeps something of its own (`ActiveKeeps`), so the fallback to the newest result, which would not
grow, is never taken. The assumption on the clock, `KeepAssumption`, says that a later time is
never of an earlier period. It holds in every zone that puts its clocks back within the day, and it
is needed: where clocks went back across midnight (Newfoundland until 2011) a day comes back after
the next one has begun, and a daily rule may have pruned its best result by then.

### The parts of Desk

DeskProofs does the same for the seven machines of Desk: `DeskInv`, `DriftInv`, `BoxesInv`,
`ReloadInv`, `SharesInv`, `SettingsInv` and `AssetsInv` are inductive, `SumStep` gives a step to its
machine. `DeskAssumption` is what the machines assume of their constants: the hour and the minimum
rest are numbers and the presses finitely many (ScanDesk); a site asks for finitely many assets,
none of which is behind its own request, and no asset is a domain (Drift); `None` is nobody's name
(Containers); the lifetime of a certificate is a span, and each file names a path (Reload);
lifetimes are numbers (Shares); what may be written is a natural number, and the defaults and the
word are not 0 (Settings); query rules are a sequence, and a body that was read has a digest
(AssetKeys).

### Typed addresses

The budget forgets whom it let in an hour ago, and a press acts on what it was told several steps
before. `Budgeted` speaks of every window of an hour at once, those that are over and the one that
is not: in each, at most `Limit` presses were let in, because whoever was let in less than an hour
ago is still in the budget, and the budget is never fuller than the limit. `RestIsKept` says what the look at
the store is worth when the scan begins: whatever the press knew of has rested since, and `knew`
does not grow by what others store meanwhile, which is the gap the property leaves open.

### What a comparison says

`NothingSlipsIn` speaks of the latest scan and needs more, that the hosts of whatever the next scan
may be compared with are accounted for (`Familiar`); `HostsAreSaid` is the step, by the three ways a
comparison can end. `RemovalIsReal` rests on `AskedIsObserved`: if everything on the way to an asset
is still asked for and none of it was lost or declined, the asset was observed. Otherwise there would
be a first asset on the way that was not, by depth (`Least`), and what asks for it was observed and
had loaded. The gap has to be looked for along the whole chain of initiators for this, which is what
`removalUnprovable` does and its mutant does not. `BandAgrees` is arithmetic: the cap for a degraded
scan is below the band "medium", and the penalty for a failed consent leaves less than "high" asks
for.

### What browsers leave behind

A container's label names a pid, and a pid says nothing about who has it. `Labelled` ties the label to the
process that made the container, `PidsApart` says that no two live processes have one pid, `HoldsOwn` that a
process holds what it made, and so an owner that is not alive was not using it. `Known` is the other half:
what is there and in use by nobody was lost in one of the ways the code tells of. The steps are
of four kinds, each proved once: nothing changes hands (`QuietKeeps`), a box goes
(`BoxGoes`), is made (`MakesKeeps`) or is let go of (`LosesKeeps`).

### A reload, and the certificate

`InForce` says what the process goes by at each step of a reload: what the scheduler goes by, except between the
two adoptions; the path the scheduler was given, except until the certificate is loaded again. That
a certificate is replaced only by one that matches and has not expired is a property of one step
(`TriedServes`); the invariant adds who holds the reloader's lock and that the pair compared is the
one at the path in force.

### Links

`Shown` says what was read through a link: the page of its scan, beside it what changed against one
other scan of the series at most, or an artifact that its scan names. A request keeps its link and its
artifact until they are read. What a link lets out was decided at an earlier instant, under a key and
a clock that have moved on. `Serving` says what that decision is still worth: the link was good when
it was shown, which was at most `SignLimit` ago, and what is being signed ends before the link.
`InTime` and `ReadInTime` bound what has been signed and read by the end of the link and by the
instant its key was replaced in the daemon, and `KeysMoveOn` keeps the order of the two replacements
of a key, in the file and in the daemon.

### Settings

`SettingsInv` says no more than what a level may hold; the work is in what an accepted file resolves
to. `ScheduleIsOne` goes through the levels. `ShorthandHolds` does so for `storeBodies`, which stands
for two settings of body sampling that the other level may write or leave to be inherited.
`RetriesFit` compares two sums of waits (the attempts themselves are not judged, section 5), the one
validation made with one name to spread them by and the one of another key. TotalDelay and Delay are
recursive functions, and what they yield is found in three moves that the other proofs of recursive
functions make too: there is a function that satisfies the recursion (`Recursion`, for any step from 2
onward), so `CHOOSE` finds one; and what holds at 2 and is handed on by a step holds at every number
(`Onward`, of which a counterexample would have a least one, `Least`). `BaseIsCapped` is the doubling,
which reaches the cap before it leaves the word, and `TotalsAreClose` the two sums side by side:
neither wraps, and one exceeds the other by less than a tenth. This needs `WaitsFit`: the longest wait
there may be, as often as there may be an attempt, is a duration. The code does not check that. With
nanoseconds in 64 bits it holds up to 292 years of waiting, and in the instance of the run (`11 * 4 *
60 < 10 * 512`); where it does not, a sum wraps, turns negative and passes for one that fits any
interval.

### Keys of assets

`AssetsInv` says of every observation that it is `Faithful`: it names the address and the body
it is of, and an opaque key hangs on no rule. Whichever rules were in force when a scan was stored, it
is keyed by those of today (`KeyedAgain`), and two such keys are equal exactly when the rules
tell the addresses alike (`SameKeys`), by the first rule that is for an address (`FirstGoverns`),
the parameters it keeps (`PolicyMeans`, `SameQueries`) and the default port (`SamePorts`). What is
read out of a body is not read again, since the body is not kept; that is why
`ScriptChangesAreReal` has the exception `Replaced`.

### The parts of Session

SessionProofs does the same for the four machines of Session and for the robots.txt file that a
behaviour of part "file" reads: `CaptureInv`, `ConsentInv`, `LedgerInv`, `CacheInv` and `FileInv`.
`SessionAssumption` is what the machines assume: a recorder keeps at least one record and one body in
its queue, requests and workers are finitely many, and the modes and endings are those of the code
(Capture); the lists are sequences of rules (Consent); a window and an age are numbers and there is a
first attempt (BodySamples); a site answers with files made of lines, and the limits are numbers
(Robots).

### The recorder and the session

`Counted` ties the counter of requests in flight to the records themselves, which every handler of an
event changes in its own way, redirects and repeated endings included. `WaitTells` is what is left of
the wait once it has ended: only a scan that left without an error and without reaching a cap left a
quiet network. `ReadersLeft` says that nobody reads a body once the pool was waited for, and
`BodiesTold` what that is worth: when the records are copied, each owes nothing or its reason is
there, but for those that came late (`late`), the gap section 5 names. `PhaseEnds` carries that what
the interaction caused is never counted as before it.

### The consent handler

The page changes under the handler, so nothing it saw stays true by itself. `PageIsActedOn` lists what the
page cannot take back: it does nothing of its own accord, and nothing is done to it before the
phase is marked and something was found. `SeenSoFar` says what must have happened for the handler
to be where it is, and `OutcomeIsGiven` what an outcome rests on. "Applied" after a blind first look is exempt
(section 5).

### The ledger of body samples

`OneInTransaction` is the lock: whoever decides has seen every row there is. `AttemptsAreKnown`
follows an attempt from its decision to its result, and `RowsAreTrue` says of a row that is open
that it is pending, was merged from a document by a rebuild, or is too old for a retry to
come. From these, one success settles an observation for good and a retry keeps its place.

### Robots.txt

The cache: `FetchesAreYoung` says that what a fetch brought was said while it lasted, `CacheWasSaid` the same of
what is cached, whichever of several overlapping fetches stored it last, and `DecisionWasSaid`
bounds the age of a decision by the TTL and one fetch.

The file: `FileMeans` compares the reader with the convention for every file, of any length, and every
path. `ReadSoFar` is what is known after n lines: the groups so far are those of the lines so far
(`Saw`, `Holds`), they come in order (`InOrder`), an agent that follows a rule is of a later group
(`Parted`), and only such an agent opens one (`Joined`). The convention speaks of the rules of all the
groups that are addressed to the agent (`Governing`), the code of one of its groups; if no rule stands
between two lines that name the agent they are of one group (`SameRun`), and where one does the file
is `Split`, which the property exempts. For a pattern, `Laid` lays its pieces out over the path one
behind the other; taking the first occurrence of each (`FirstEnd`) ends no later than any other layout
does, so the reader finds one whenever there is one. The exception is a `$` behind a star (`Greedy`),
where the first occurrence may not be the last, and there the code departs from the convention.
Longest match is the maximum over the rules that match (`Longest`).

### What is only model-checked

Liveness under fairness and everything about `ENABLED` are out of the prover's reach:
`HeldBackIsSettled`, `KeepsWatching`, `ShutdownCompletes`, `EventsAreSettled`, `DrainCompletes`,
`LeftoversAreCleared`, `NobodyWaitsForEver`, `LastReloadApplies` and `SchedulesAreKept`. Every
safety property of a passing run is a theorem. `DocumentsAreKept` of IndexRebuild is not one of
them: it is violated (section 5).

The reading of robots.txt and the sums of waits need induction over data. The theorems of the
library do not help, since they take the induction formula as a parameter; both are proved
by unfolding the recursive functions that the models are written with and by a least counterexample.
What the model folds with an operator of the library (the replacements of a path in AssetKeys) the
proofs take as it is: the two sides compared apply the same fold.

## 7. What is not modelled, and the plan

Rendering (reports, messages, pages, logs, the watchboard), read-only queries, and external
programs (Chrome, Docker, the SQL servers, buckets) stay out. Within the modelled parts the text
of errors and the contents of results are left out. `PROJECT.json` says for each component
what is missing; the larger gaps are the loaders the consent handler inventories, the severities,
durations and storage of a comparison, and the HTTP server's own start and stop.

What a proof could still add: that ScanDesk and the scheduler keep one key from being scanned twice
in ways section 5 does not list, which needs the two composed, and the tail of a comparison (severities,
durations, storage) once it is modelled.
