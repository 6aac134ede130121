# A TLA+ model of codex-token-usage

`codex-token-usage` is a plugin of a proxy host. The host calls it for every
request: `scheduler.pick` chooses the credential ("auth") a request runs on,
`usage.handle` reports what a finished request consumed. The plugin keeps all it
knows in one SQLite file, which several plugin processes may share, and in
process-wide caches. Its core is the scheduling: which credentials are
restricted (banned after 429, invalid after 401/402/403), how many requests each
may run at once, and which of the remaining ones is next. Around it are the
upgrade of old databases, the privacy of stored API keys, the summaries of the
dashboard, and the lifecycle that starts and stops all of this.

The modules here model that, TLC checks them on small instances and TLAPS proves
what can be proved for every instance.

## The system

| Component | Source | State | Operations | Talks to |
|---|---|---|---|---|
| Account-protection reservations | `account_protection.go`, `reservation_db.go` | table `account_protection_reservations`; `pickMu`; `reservationCleanupAt` | `pickProtectedAuth`, `releaseProtectionReservation`, `applyAccountProtectionState` | picks, usage callbacks, dashboard; other processes through SQLite |
| Protection caches | `account_protection.go` 100-240, 688-812 | usage index, configured plans, each with a generation and a background refresh | `loadUsageIndex`, `startUsageRefresh`, `configuredPlans`, `configure`, `stop` | reservations (plan limits, token demotion) |
| Restriction snapshots | `scheduler_state.go`, `plugin_lifecycle.go` 78-192 | per provider: snapshot, generation, pending count; wake channel of the refresh worker | `codexForPick`, `publishCodexOrCurrent`, `beginRestrictionWrite` / `finishRestrictionWrite`, `invalidateProvider`, `refresh` | picks, recorders, summary maintenance |
| Provider revisions | `provider_revision.go`, triggers of `migrations.go` | `store_state.scheduler_revision_*`; the revisions the process observed | `reconcileProviders`, `stabilizePrivacySnapshot` | snapshots of every process on the file |
| Restriction lifecycle | `main.go` 1776-1823, 2119-2665, 2667-2968, 3818-4464 | tables `autoban_bans`, `invalid_auths`, derived from `usage_events` and `quota_trigger_runs` | record, recover, probe, release, expire, backfill, reconcile, remove | usage callbacks, dashboard, quota trigger, maintenance, picks |
| xAI account states | `xai_accounts.go`, `xai_error_parser.go` | table `xai_account_states` | record, lift, probe | as above |
| Candidate selection | `scheduler_rotation.go`, `scheduler_affinity.go`, `scheduler_mixed.go`, `scheduler_filter.go` | rotation cursors, session bindings | `prepareSchedulerRequest`, `pickRotated`, `pickOrBind`, `pickMixedAuthOnce`, `chooseProtectedCandidate` | picks |
| API-key privacy | `privacy.go` | fingerprint secret (file, database, memory), quarantine markers | bind, rewrite, mark, reconcile, load | store opening, revisions, picks |
| Usage recording | `main.go` 2043-2117 | table `usage_events` | `recordUsage` | reservations, restriction lifecycle, summaries |
| Lifecycle and ABI | `plugin_lifecycle.go`, `abi_panic.go`, `main.go` 395-673 | lifecycle gate, stopped flag, operation context | init, register, reconfigure, shutdown, every call | all |
| Background managers | `main.go`, `model_price_update.go`, `summary.go`, `diagnostics.go` | goroutines, cancel function and schedule each | configure, run, stop | store, snapshots |
| Summary cache | `summary.go` | one entry per key in memory and in `summary_cache` | `summary`, `summaryFresh`, `summarySync`, `refresh` | dashboard, usage |
| Store and migrations | `main.go` 1161-1346, `schema.go`, `migrations.go` | database handle, schema version | open, close, repair, migrate | all |
| Auth sources, import | `codex_auth_source.go`, `xai_auth_source.go`, `auth_import.go` | cached listing of credential files | list, convert | plans, aliases, restriction lifecycle |
| Reporting, pricing, dashboard | `reporting.go`, `pricing.go`, `summary*.go`, `dashboard*.go` | - | queries, HTML | - |

What is hard: picks run concurrently, in several processes, under a deadline of
750 ms, and decide on state that other picks, callbacks and recorders change;
reads of the clock, of the tables and of the caches are separated by lock waits
from the decisions that use them; callbacks are lost or repeated and do not name
the reservation they end; maintenance reads first and updates later; several
processes open a file of an old version at once; a shutdown meets every
goroutine at any point; a process can die anywhere. `PROJECT.json` lists these
hazards line by line under `hazards`, with the properties that cover each.

What makes each component correct, in a sentence:

* reservations - no account holds more unexpired reservations than its limit, in
  any interleaving; a refusal is honest; every reservation ends; no lock leaks;
* caches and managers - a refresh that outlives its configuration changes
  nothing of the next; nothing runs on the store after shutdown; shutdown ends;
* snapshots and revisions - no pick filters with a snapshot that lacks a change
  it had to see; an unknown cache is repopulated; none moves backwards;
* restriction lifecycle - a released ban stays released until newer evidence; a
  credential restricted throughout a pick is never offered; what a crash lost is
  restored from the log; the steps of maintenance agree with each other;
* selection - rotation is fair, the best available candidate is returned, a
  refusal means that everything was tried, a session moves only for a reason;
* privacy - a marker committed before a pick is in the quarantine that pick uses;
* summaries - an entry is never taken for newer than it is;
* migrations - an upgrade is all or nothing, loses no restriction and keeps the
  best of several rows.

## Modules

| Module | What it is |
|---|---|
| `AccountProtection` | the reservation protocol: picks, callbacks, cleanup, crashes |
| `ConcurrencyBudget` | the abstract specification it implements: a leased counting semaphore per account |
| `SchedulerState` | restriction snapshots, the refresh worker, provider revisions |
| `PrivacyRevision` | the privacy quarantine: opening the store, stabilised refreshes, what picks filter with |
| `CurrentView` | the abstract specification both implement: a pick is served one view, no older than what it has to see |
| `Restrictions` | the two restriction rows of a credential and the logs they are derived from |
| `Selection` | filters, rotation, affinity, protected and mixed picks, delegation to the host |
| `StoreMigration` | the upgrade of old files, secret, rewrite of identities, reconciliation of the quarantine |
| `Lifecycle` | the gate, init, configure, shutdown, all managers, the refreshes of the protection caches |
| `SummaryCache` | the cache of summaries; `Lifecycle` extends it and composes the two |
| `MC...` | small instances of each |
| `...Proofs` | theorems for every instance: AccountProtection, SchedulerState, PrivacyRevision, Selection, Restrictions, Lifecycle (with SummaryCache) |

How they fit together. `Selection` is the whole of a pick in one process, with
the reservation as one step; `AccountProtection` is that step in detail, and lets
the choice be any that `Selection` could make. `SchedulerState` says which
snapshot a pick filters with, `Restrictions` what the rows in it mean and how
they change, and `PrivacyRevision` which markers are loaded; in `Selection` all
three may change between any two steps. `StoreMigration` is what happens before
a store is open, `Lifecycle` who may use it.

### AccountProtection and the code

A pick goes `StartPick` (reads the plans, the aliases, the clock and the usage
index), `TakePickMu` (line 385), `BeginImmediate` (395, on the handle of
`reservation_db.go`), `Decide` (402-459), then `CommitGrant` or `CommitReject`
(432, 462), or `PickFails` / `PickTimesOut` from anywhere. All statements of one
transaction are one step: it holds SQLite's writer lock, so no other writer
comes between, and all of them use the time read at line 378. That time is the
interesting part: it can be older than rows that other picks committed while
this one waited for the locks.

`rows` is the committed table, `draft` what the open transaction would commit.
`Twins` are credentials that share an alias (the same auth id in two files):
`Counted` models the alias sets - a shared alias is dropped when both credentials
are in the request and kept when only one of them is - and `CallbackMatches` what
a callback's identity can match. `Limits[a]` is a set because the plan of an
account is a cached value that may change between two picks; `Capacity[a]` bounds
it. `demoted` stands for the token thresholds (a soft preference computed from
the usage index), the choice within the best priority for rotation and affinity.
Plans, usage index and rotation are otherwise arbitrary: what is checked holds
whatever they return.

`UsageCallback` and `StrayCallback` are the transaction of `recordUsage`: the
oldest unexpired matching reservation goes, whichever request it belonged to.
`SummaryCleanup` is the dashboard's own DELETE. `requests` is what the host
really runs, which the plugin does not see. `Crash` kills one process.
In `Decide` the row is built with the next id; SQLite's AUTOINCREMENT gives an id
only once, so ids order the rows of one second.

### SchedulerState and the code

Each process has `cache` (`codexSnapshot`), `pending` (`codexPending`), `wake`
(the capacity-one channel) and `observed` (`providerRevisions.observed.Codex`).
Three abstractions keep it small:

* a snapshot is the revision at which its first query ran (`asOf`): it reflects
  every change committed before that point, and possibly later ones;
* a generation is only compared for equality with the value read earlier, so it
  is the set `current` of readers whose value is still the current one;
* the age of a snapshot is fresh, stale (TTL or earliest reset passed, within the
  grace period) or expired, and `Age` moves it at any time.

A pick is `ReadRevision`, `Reconcile`, `TakeSnapshot` or `NoSnapshot`, then
`ReadGeneration`, the two queries and `PublishOwn`, `UseCurrent` or
`StateChanged` (`retrySchedulerStateChange` runs the whole of it once more). `EndPick`
is every way out, errors and the deadline included. The refresh worker is the
loop of `plugin_lifecycle.go`; a `Maintainer` is summary maintenance, which calls
the same `refresh` from another goroutine. A writer records a restriction
(begin, commit, finish) or lifts one (commit, then tell the cache, or fail before
it does). `need` is history: the revision the pick has to see.

The xAI half of the same structures has one query instead of two and is
otherwise the same protocol. The privacy revision has a protocol and a module of
its own.

### PrivacyRevision and the code

One process on a file whose markers anybody may change (`CommitMarker`). The
markers are read by one SELECT, so what a process loaded is abstracted to the
revision at which it did (`quarantine`, `loaded`, `view`); revision 0 is a file
without markers, and also what a process without a snapshot filters with.

A pick is `ReadRevisions` (which takes `store.mu` for the handle, hence waits for
an opening under way), `Reconcile`, and, when the revision moved, `LockRefresh`,
`Reread` under `privacyRefreshMu` and the refresh; then `Prepare`, possibly
`BeginOpen`, and `Choose`. An opening is by a worker or by such a pick, holds
`store.mu` throughout and refreshes under the same second lock. The refresh is
`stabilizePrivacySnapshot`: `ReadBefore`, `LoadMarkers`, `PublishMarkers`, then
`ReadAfter` when the revision is still that of `ReadBefore`, else `Retry`, up to
`MaxAttempts`. `Fail` is every error, deadline and exhaustion in it, with the
deferred unlocks. The published markers stay when a refresh fails after
publishing: the revision is not observed then, so the next pick refreshes again.
`need` and `found` are history: the revision when a pick began, and which picks
found the store open.

### Restrictions and the code

One file-backed Codex credential: `ban` is its row of `autoban_bans`, `invalid`
its row of `invalid_auths`, `usage` and `runs` the rows of the two logs, `file`
its credential file. Both tables are keyed by the credential, and no statement
relates two of them, so several credentials would be copies side by side. An
action is one SQL statement or transaction; everything between two of them
interleaves with everybody else.

A callback is `RecordUsage` (the row of the log, committed first), then by the
meaning of the answer `BeginWrite`, `CommitWrite` (the upserts of 429, of
401/402, and of the repeated 403 that `ForbiddenReached` counts over both logs),
or `ClearInvalid` and `ClearBan` (a success, one UPDATE per table), or `GivesUp`
where any of them fails. The quota trigger does the same in another order:
`StartTrigger` removes replaced invalidations and expired bans and decides whether
to probe (`Probed`), the answer changes the state before `RecordRun` logs it, and
`TriggerReconciles` / `TriggerLifts` end the round.

A maintenance round is `Round` followed by the phases of
`runSummaryMaintenanceMode` in its order (`Phases`): backfill of a ban from the
log, of 402s from both logs, reconciliation with quota snapshots, recovered
invalidations and bans, replaced files, missing files. Each backfill and each
lift is a read and a later write. `StartMaintenance` is
`summaryMaintenanceManager.run` with its skipped and light rounds (`Revision`,
`manager`), `RefreshDashboard` the full round of the dashboard. A listing that is
not authoritative removes nothing. `Restart` forgets what was in memory.
`pending`, `owed` and `stale` are the announcements that `SchedulerState` models
in detail: writes announce before and after, lifts some time afterwards
(`AnnounceLift`). The pick is the one that populates an empty cache with the two
SELECTs. `throughout` and `quiet` are history.

A time is a second; the ban without quota headers lasts `Fallback`. What an
answer means to `classifyCodexBan` and its neighbours is its `kind`; the JSON it
is parsed from is left out. A `scene` names who takes part in a behaviour and
which answers come: it keeps the product of actors in reach.

### Selection and the code

`Prepare` is `prepareSchedulerRequest`: the route decides which providers may
serve the request (`Allowed`), inactive candidates, those off the route and those
of quarantined providers are dropped, and dropping any forces the plugin to
choose (`Forced`). `Filter` removes restricted candidates: a row that names a
credential file matches by the aliases of that file, any other by all aliases of
a candidate (`Matches`, `Strict`, `Broad`). A pick that has nothing to remove and
nothing to protect is delegated to the host.

`Choose` is `pickSchedulerCandidate`; `LookUp`, `Reserve` and `Saturate` are
`pickProtectedAuth` and what the mixed pick does with its refusal. `LookUp` is what
it does first under `pickMu` and the writer lock: the reservations are read (`full`,
`sunk`) and the session is looked up (`bound`). The decision is a step of its own,
because lookup and bind are two sections of the affinity mutex: the `Choose` of
another mixed pick takes neither lock and may rebind the session in between.
`pickMu` is the guard that no other pick is at `decide`. Bind and commit are one step:
the commit touches no binding, a `Choose` reads no reservation, and a commit that fails
after the bind is a case of `Reserve`. `Rotate` is
`pickRotated` with its cursor, its pruning every `PruneEvery` picks and before an
insertion into a full map; `PickOrBind` is the affinity under its mutex,
`Evicted` the sampled eviction. `ProtectedChoice` is `chooseProtectedCandidate`
with the candidate found bound, demotion and priority in the code's order; unless it
returns the bound one it looks at the bindings a second time. A failed reservation
leaves the binding it made. The key of a binding is the provider of
the route and the session; a cursor has a third part, the suffix of protected
picks, which is dropped when the request has a session, as in
`splitSchedulerSelectionKey`. The model name, part of both keys, is part of the
route. `Turns` stands for 2^64, a multiple of every tier's size so that the wrap
of the counter does not add an unfairness no run of the program will see. `full`
keeps what earlier tiers were found to be, for the properties; `turn` and `last` are
history.

### StoreMigration and the code

A row has a table, a provider as it is spelled, an identity, and what ordering
and force depend on. An identity is the API key itself, its v0 fingerprint, its
v1 fingerprint under a secret, or the "legacy" form that a v0 fingerprint of an
unknown key gets. `tx` is the one IMMEDIATE transaction of
`migrateSQLiteStore`: it works on a copy, `CommitUpgrade` publishes it, `Fail`
and `Crash` discard it. Its stages are the code's, each skipped from the version
on that already had it: the secret is found, created or refused (`BindSecret`,
`CreateSecret`, `WriteSecret` - the file is created exclusively and then
written, so a crash leaves it empty; only fingerprints in the usage log and in rows of
a table's own provider make an existing one required, `StoredV1`), resets are
normalised except those of xAI accounts, which always were in seconds, reservations
discarded, providers canonicalised with the best row of each identity kept
(`KeepBest`, the ROW_NUMBER of version 6), identities rewritten row by row in any
order and merged where they meet (`With`, the `sourceWins` functions), markers
and version written. Afterwards, and on every opening of an upgraded file, the
binding is verified, and `LoadMarkers`, `BeginReconcile`, `CommitReconcile`
reduce the quarantine. `Rank` is the order of both merges. Open processes log
usage, reserve, and release bans; the operator changes the configured keys and
the secret file.

The DDL of a version is its number. Columns that only break ties are the row's
number; the columns kept from a losing row (none that a property sees) are left
out.

### Lifecycle, SummaryCache and the code

The gate is a `sync.RWMutex` whose pending writer (`gate`) waits for the readers
inside and holds back those that come. The host's `init`, `configure`
(`plugin.register` and `plugin.reconfigure`) and `shutdown` are writers, every
other method is a reader; a call reads the stopped flag and takes the operation
context as it enters. `ConfigureWork` and `ShutdownWork` are the code's lists of
steps in their order: cancel a manager, wait for its goroutines, start it again,
invalidate the snapshot, close the store. The managers' goroutines wake, open the
store, read, publish and end their rounds, and notice a cancelled context only at
those points. The two caches of the account protection have a generation, a
refreshing flag and the generation of what they hold; their refreshes (`tasks`)
may be abandoned by a stop, which waits a tenth of a second, and then go on under
the next configuration.

`SummaryCache` is one key of `summaryPrecomputeManager`: `entry` in memory,
`saved` in the table. A summary that is computed contains the commits made so
far (`data`), a statement of its own names their number (`revision`). The three
kinds of requests look the key up, compute, remember and save in the order of
their functions; the loop and the one asynchronous refresh do so under
`refreshMu`. `Lifecycle` conjoins its actions with the calls and goroutines that
perform them.

The host is assumed to make its lifecycle calls from one thread, in sequence,
with a watcher that may reconfigure meanwhile. The comparison of the store's
handle in `usageRefreshCurrent` is left out, since the handle changes only with
the generation. `scenes` list the calls of each thread, the managers that are
enabled and those whose startup grace or interval ends.

## Runs

| Run | Question | Instance |
|---|---|---|
| Reservations | hard limit, locks, durable cleanup, honest refusals, refinement of the semaphore | two processes with a pick each, two accounts of different priority that share an auth id, limit 1, TTL 2, cleanup interval 2, two insertions, repeated and unreserved callbacks, requests that overrun the TTL |
| Requests | the limit holds for the requests, not only for the rows; every reservation ends; every pick returns | one process, two concurrent picks, an account whose limit varies between 1 and 2, TTL 2, four insertions, no request outlives the TTL, fairness |
| Snapshots | what picks filter with, across restarts and reconfigurations; observed revisions; no snapshot is replaced by an older one | four casts: a pick, the worker and maintenance beside a writer of another process; two picks beside a writer of either process; a pick beside both writers; two changes |
| SnapshotsLiveness | overlapping writes keep the cache unknown; the worker repopulates and renews it; refinement of the current view | pick, worker, two writers of this process, one change, fairness |
| QuarantinePicks | what picks filter with, what an observed revision means, refinement of the current view, and that picks return | two picks, a worker that opens the store, three changes of the markers, two attempts, restarts, fairness |
| Restrictions | releases, the two reads of a pick, repeated rounds, recovery of what a crash lost | one credential, a callback, the trigger, eight scenes of few actors, threshold 2, two seconds, two log rows, one probe, one incident, fairness |
| Selection | bounds of the maps, fairness of rotation, the right candidate, honest refusals, sessions, delegation | two picks at a time, three in all, five candidates (three Codex, two of them with one e-mail address, one xAI, one other) in two tiers, limit 1, two cursors, one binding, six scenes |
| StoreMigration | atomic upgrade, no restriction lost, order of merging, secrets, reservations | two processes, two keys, two secrets, five databases of versions 1, 2 and 4, two incidents, one write |
| Lifecycle | silence after shutdown, refreshes and their generation, revisions of summaries, shutdown ends | three threads of the host, six scenes, all managers in some of them, fairness |
| FirstPick | a pick observes the quarantine changes before it (violated) | a pick, a worker, one change |
| MixedSessions | a session moves only when its credential is full (violated) | one session on a mixed route, four candidates offered, limit 2, one pick at a time, no changes |
| RestrictionsReplaced | a credential is invalid until its file is replaced (violated) | one 401, one replacement, the maintenance manager |

Why the bounds are enough. *Reservations*: the hard limit needs two picks, one of
them with an old clock; the clock runs over cleanup interval, deadline and TTL,
so expiry, late cleanup and stale decisions all occur (a pick starts only up to
`Horizon`; the pick deadline is one second, 750 ms rounded up). Twins need two
accounts; with one unit each, every confusion of the two shows. The requests'
limit needs a third row to have a callback release another request's
reservation, and a fourth for a changed limit. *Snapshots*: two changes are
needed for a snapshot to be older than the one observed, one more process only to
commit a change that announces itself through the revision alone; two picks, or a
pick and two refreshers, are what a publication race needs. *SnapshotsLiveness* has
one change, of two writers, but lets everybody move in one behaviour. *Quarantine*: two
attempts are enough to succeed late and to give up, three changes let both happen
to one pick while the other waits with an older revision. *Restrictions*: two
rows of the logs are the evidence and what outdates it, two seconds an earlier
and a later one; the scenes bring together every pair of actors whose statements
can interleave on one row. The 403s need both logs, which is one row of each.
*Selection*: two Codex credentials of different tiers, and others beside and
below, are what a saturated tier, a demoted account and a bound lower credential
need; one binding and two cursors make every map full; the third pick sees what
the second left behind. Two Codex credentials of one tier on a mixed route, with two
sessions for one binding, are what it takes to overtake a pick: an eviction takes the
binding, and another pick of the session binds a demoted account before the first
one decides. *StoreMigration*: the databases hold the row pairs that
meet in different order (by spelling, by form, by both), a quarantine that
becomes resolvable, and fingerprints of a secret nobody recorded; two incidents
are a crash and a change of keys or secret, or a crash of each process.
*Lifecycle*: each scene brings together the goroutines that share something; two
configurations and a shutdown are what an abandoned refresh can outlive.
`MaxReservations`, `Horizon`, `MaxRevision`, `MaxEvents`, `MaxPicks`,
`MaxChanges`, `MaxIncidents`, `MaxWrites` and `MaxVersion` only bound the state
space; the theorems hold for every value of those of their modules. The two
processes of Reservations are interchangeable, and a symmetry set says so; no run
that checks liveness uses one.

Deadlock is checked where the system goes on for ever: once its horizon is
reached a reservation instance still has the dashboard's cleanup, snapshots age,
privacy workers retry, stores close and open again. In Restrictions,
RestrictionsReplaced, Selection, MixedSessions and Lifecycle (`CHECK_DEADLOCK
FALSE`) a behaviour may really end: every call has been made and every bound is
used up.

### Fairness

*Reservations*: time passes; a request ends, because the host bounds it; a pick
whose context has expired returns, because everything it can be blocked in
(`contextMutex.lock`, `BeginTx`, each statement, `Commit`) takes that context.
Nothing is assumed of how soon a lock is obtained or that a transaction succeeds.

*Snapshots*: the worker's goroutine runs, the store gets opened, a restriction
write returns (its `finish` is deferred). The worker's queries are strongly fair:
each attempt may fail, but it retries without end (100 ms to 5 s), and a database
whose every answer is an error is out of scope. Summary maintenance is left out
of the liveness run: a maintenance refresh that begins during the worker's takes
its generation away, and if it then fails itself nobody asks the worker again
until the next pick does. The code relies on that pick; the property is about the
worker alone.

*Quarantine*: goroutines run, and `sync.Mutex` does not starve a waiter (its
starvation mode hands it over), hence strong fairness of `LockRefresh`. Neither
lock is waited for under a deadline, so `PicksEnd` rests on every holder letting
go, which the bounded attempts and the deferred unlocks provide. Nothing is
assumed of queries: they may all fail.

*Restrictions*: the maintenance manager looks every interval whether to run a
round and takes the steps of a round it runs. Rounds fail finitely often
(`MaxIncidents`). Callbacks, the trigger, the dashboard, the administrator and
the clock owe nothing.

*Lifecycle*: a writer takes its next step, and what was cancelled notices it: a
call with a cancelled context is refused by its next statement, a goroutine ends
its round and exits. A call, a round or a load that nobody cancels may last for
ever.

## What the runs found

* **FirstPick** - the change log says a process observes quarantine changes before its
  next pick. The first picks of a process may not: `prepareSchedulerRequest` runs
  before the pick opens the store, with no snapshot yet, and is not repeated after
  the opening has loaded the markers. Picks that find the store open are current
  (`OpenPicksAreCurrent`).
* **MixedSessions** - the change log says a session is moved only when its credential
  reaches the hard limit. On a mixed route the binding is looked up tier by tier;
  a tier that is full has already dropped it when the pick comes to the tier of
  the credential. A second mixed pick of the session can also bind it between the
  lookup and the bind of the first. `SessionMovesForAReason` states what does hold.
* **RestrictionsReplaced** - the README says a 401 protects until the file is
  replaced. A 401 that belongs to a request from before the replacement and is
  committed after a round has cleared replaced invalidations stays: the manager
  takes the revision at the end of its round for processed, and light rounds do
  not clear. It ends with the next change of a file, a success, the trigger, the
  dashboard, or a restart.

Not violations, but worth knowing; the models contain them:

* a request that outlives the TTL of its reservation is no longer counted
  (`RequestsWithinLimit` is checked without such requests);
* of two credentials that share an auth id, one that is offered alone counts the
  reservations of the other (it refuses too much, never too little);
* a pick fails when a refresh begins during it and another one during its single
  retry, although no restriction changed;
* a pending reconfiguration holds back new picks until a running management
  request returns, and cancels nothing;
* a maintenance UPDATE lifts whatever restriction it finds, also one written after
  the read that justified it; upserts take the last callback, whatever its time;
* backfill restores the ban of a 429 whose statement failed, but does not touch an
  active ban that resets later. If a success between the two 429s should have lifted
  that one and its statement failed as well, the same round lifts it a few phases
  later, and ends without a ban although the newest answer is a 429 still to reset.
  `MaintenanceSettles` excepts it as `Outlived`; the attempt to prove the property
  without the exception showed it, since it takes three log rows, one more than the run
  has;
* a forced synchronous summary is named after a revision it may lack.

## Theorems

`AccountProtectionProofs` proves, from `ConstantsAssumption` alone and for any
number of processes, picks, accounts and rows:

* `TypeCorrect` and `LocksNeverLeak`, with `DraftOK`: the types need that a granted
  draft has an id within bounds, which needs that only the writer is decided;
* `HardLimitHolds`. `HardLimit` is not inductive: a commit replaces the table by
  `draft`. The invariant `SafetyInv` adds that the draft of an open transaction is
  within the limits *now* (`DraftWithinLimit`). Three facts carry it: what a pick
  counts includes all the rows of the account it chooses (`InFlightCoversOwn`); a
  count with an old clock is an upper bound of a count with the present one
  (`LiveShrinks`), so the stale clock errs on the safe side; and rows do not change
  while a transaction is open, because the writer lock is held by the pick that
  is deciding (`LocksHeldByPick`).
* `CleanupsAreDurable` and `RejectionsAreJustified`, by `TransactionInv`: what a
  decided pick holds is described by what it read, `draft` being the rows the cleanup
  left and the one the pick inserts, and nothing of it changes until the commit
  (`DecisionKept`). The inserted row outlives every recorded cleanup, because a
  pick that commits in time has a clock at most a deadline old and the TTL is longer;
* `ProtocolIsABudget`: the reservations implement `ConcurrencyBudget`. A commit that
  inserts is an `Acquire` below the capacity, a callback that deletes a live row a
  `Release`, a tick the expiry of leases, and everything else, crashes, rollbacks
  and cleanups included, changes no count (`CleanupIsUnseen`);
* `RequestsStayWithinLimit`, from two more assumptions: every callback is that of a
  reserved request (`~StrayCallbacks`), and the host ends a request before the TTL of
  its reservation (`Overrun = 0`). Without either the code promises less: a second
  callback releases the reservation of a request still running, and one that runs on
  is not counted. Rows and requests are not paired, since a callback takes the row
  that expires first, seldom its own. What is inductive is `Covered`: for *every* time
  t to come, the rows of an account that outlive t are at least as many as its
  requests that may still run at t. A commit adds one to both sides, and to the
  requests no later than to the rows (`CommitCovers`); a callback takes one request,
  and either the rows lose none that outlive t, or every row that counts outlives t
  and the request did so too (`CallbackCovers`); crashes and lost callbacks only leave
  rows behind. At t = now, `HardLimitHolds` bounds the rows. A twin with the same
  auth id breaks this, because its callback may take a row of the other: the theorem
  is stated for accounts that share none, and `IsolatedRequestsStayWithinLimit` for
  each account that shares none, whatever the others do.

`SchedulerStateProofs` proves, again from `ConstantsAssumption` alone and for any
number of processes, picks, refreshers, writers and revisions, the types
(`TypesHold`) and every safety property the Snapshots runs check: `WritesFailClosed`,
`ObservedReflected`, `PicksFilterWithCurrentState`, the action property
`SnapshotsAreMonotone` and the refinement `PicksSeeACurrentView`. The pending count
needs types and types need the count (it bounds `pending`), so the two are proved
together: `PendingStep` first, by counting the writers inside their window, then
`TypeStep`. None of the other properties is inductive; their invariant is `Revisions`:

* `Bounded` and `ClosedIsEmpty`: nobody has seen an uncommitted revision, and a
  process whose store is closed has neither a snapshot nor a reader under way;
* `ReadersAhead`: a reader that still holds the current generation read at or
  after everything its process observed or serves. This makes publications move
  forward, and it is why bumping the generation on every event is needed;
* `PicksCaughtUp`: once a pick has reconciled (or its own process wrote since it
  read the revision: `Owed`), the cache and every reader that could still publish
  are as new as what the pick needs. A pick that has read revision v with
  nothing written since relies on `Reconcile` comparing v with what is observed;
  one that lost a race with a writer of its own process relies on the pending
  count until that writer announces, and on the new generation afterwards.

`PicksSeeACurrentView` maps the protocol to `CurrentView`, step by step: reading the
revision is a `Begin` (also the second time, after a retry), the three ways to a
snapshot are a `Serve`, a committed change is a `Change` that the picks of the same
process have to see and others need not, an end or a restart is a `Leave`, and
whatever happens to caches, generations, counts and the wake channel is invisible.
That a served snapshot lies between what the pick has to see and what is committed
is `FiltersWithCurrentState` and `Bounded` after the step.

A process may observe an older revision than it observed before, when two picks
reconcile out of order; the proof shows this costs an extra invalidation and
never a stale filter.

`PrivacyRevisionProofs` proves, from `ConstantsAssumption`, for any number of picks,
openers, attempts and changes, the safety properties of QuarantinePicks and the
types: `TypesHold`, `ObservedLoaded`, `QuarantineMonotone`, and `PicksSeeACurrentView`, the
refinement of the same abstract view by the picks that found the store open (the
others are the finding of FirstPick); `OpenPicksCurrent` is what it says of one state. Its
invariant is that of a critical section with data: `LocksHeld` (who is inside the
refresh holds `privacyRefreshMu`, an opening holds `store.mu` as well and excludes
every reader), `RefreshInOrder` (what the holder read first, loaded and published
lies in this order, between what is observed and what is committed) and
`PicksCovered` (a pick needs no more than the revision it read until it has
reconciled, than the snapshot until it filters, and than its view afterwards). That
`Reconcile` may skip the refresh when the revision it read is the observed one follows
from `RefreshInOrder`: what is observed is never newer than the snapshot, also after
a refresh that failed behind its publication.

`SelectionProofs` proves, from `SelectionAssumption`, for any candidates, tiers,
requests, rows and number of picks:

* `MapsStayBounded`: by `Bounded`, which adds that the domains are finite. A map
  grows only by a key that was removed or made room for (`WithoutOneHasRoom`), and
  `Oldest` and the samples of `Evicted` are never empty when the map is full;
* `HostChoosesOnlyUnfiltered`, `BestAvailableIsReturned` and `SaturatedPicksTriedAll`
  from one invariant, `PickInv`, stated for each pick: every candidate that passed
  the filters and is not considered any more was found full, and a pick from which
  nothing was removed still has what the host sent. The filters themselves appear
  nowhere in it, which is why changes under a pick cost nothing;
* `SessionsMoveForAReason`, from `Bounded`, `OriginInv` and `HeldInv`. A pick considers
  only what its request offers and its route allows (`OriginInv`), so a candidate it
  passes over was excluded by the request, or by the pick for a reason the property
  names. `HeldInv` is what a pick knows at its decision: on a route of one provider the
  session, if it is still bound, is bound to the candidate the pick found. All picks of that provider are protected
  while protection is on, so they queue for `pickMu`, and none of them can bind between
  the two sections (`NobodyElseBinds`); on a mixed route one can, and the property
  says so (`Overtaken`). `Bounded` is for evictions, which only a full map asks for;
* `CursorsRotateFairly`, by `RotationInv`: those of a tier that had a turn are the ones
  just before the cursor, modulo the size of the tier (`Served`). The next place is
  free until all had their turn (`PlaceIsFree`), and moving on moves every place back
  by one (`PlacesMoveBack`). This needs `TurnsAssumption`: where the counter starts
  again from 0, its range is a multiple of the size of any tier. In the code the range
  is 2^64, which no process reaches; the model lets it wrap at a small common multiple,
  which TLC checks for the scenes. It also needs that a request offers finitely many
  candidates (in `SelectionAssumption`).

`RestrictionsProofs` proves, from the assumptions of the module, for any number of
callbacks, any scenes, threshold, horizon and bounds: `TypesHold`,
`ReleasedStaysInactive` and `PicksSeeRestrictions`. The types of a backfilled row
need that the latest row of a log exists, which is where well-founded induction is
cited (`GreatestExists`, `LatestIsARow`). `IInv` is `Shaped`, `ReleasedIsInactive`
and `NothingMissed`: as long as no change was announced to a pick, a ban in force
now is one the pick has read, and once both tables are read, a credential
restricted ever since the pick began was seen in one of them. What carries it is
that every insertion announces itself before and after (`Inserts`), while a lift
need not: lifting ends the restriction, or leaves that of the other table, which
was there before the pick read it.

`RoundsSettle` proves `MaintenanceSettles`, by `Settling`: phase by phase, what the
phases that are over have established and the later ones keep. A backfilled ban is
recorded already when it is recorded again (`BackfillIsSettled`); the reconciliation
with quota snapshots lifts it only on a probe of the same second (`LowQuotaIsATie`),
a later success only if it is outlived (`RecoveredIsOutlived`), a missing file only
where the property does not ask for it. An invalidation dated by a 402 the round has found
is neither recovered, replaced nor missing (`FoundedStands`). The read of a lift still
holds at its write (`StillWanted`), because anybody else's step ends the quiet
(`OthersDisturb`).

`LifecycleProofs` proves the safety properties of `Lifecycle` and of the
`SummaryCache` it composes, from their assumptions (`CacheAssumption`,
`ScenesAssumption`, and that `None` is neither a thread nor an entry), for any
threads, calls, managers, ages and number of commits:

* `RefreshesStayInGeneration`, by `TasksKeepTheirGeneration`: there is at most one
  refresh of each cache and generation, none of a generation to come, and one of
  the current generation only while the protection is live. A stop and a
  configuration both begin a generation no refresh belongs to (`NewGeneration`),
  which is all that an abandoned refresh needs;
* `EntriesCoverTheirRevision`, by `CacheInv`: it says of what requests and refreshes
  hold on their way to the cache what the property says of the entries
  (`Trustworthy`). The revision is read before the data, so commits in between make
  an entry newer than its name; an answer taken from the cache keeps its own
  revision when it is queued for a refresh;
* `ShutdownLeavesNothing`, by `GateInv` and `StopInv`. `GateInv` is the mutual exclusion of
  the gate: who is inside, and that the list of steps a writer has still to take
  (`Todo`) is a tail of its call's work. `StopInv` says that whatever a stopped plugin
  still has - a live manager, a goroutine, an open store, a snapshot - some step
  left in the list of the writer deals with, and that the list is in an order in
  which no step brings back what an earlier one has removed (`Ordered`).
  `ShutdownIsOrdered` follows from the list of stops by concatenation; readers
  cannot start anything once the flag is set, because they check it inside the gate.

`StoreMigrationProofs` proves every property of `StoreMigration`, for any number of
processes, keys, secrets, rows, crashes and changes of the configuration, and for any
files to start from that satisfy `DatabasesAssumption`: rows are numbered, identities
carry a secret where their form has one, and the file is as its version leaves it
(bound, protected and marked since 3, in seconds since 4, canonical and merged at 6).
TLC evaluates that assumption on the five databases of the run. The invariant `IInv`
says of the file that it is untouched or `Sound`, and the same of the copy of a
transaction, stage by stage (`Staged`), so that `Fail` and `Crash` cost nothing:

* `UpgradesAreWhole`: each stage keeps the forms the stages before it established, and
  a commit is reached only with all of them (`FinishRewriteStep`);
* `TheBestRowIsKept` by `Kept`: every row that still says something of a credential is
  one of the original rows but for its name, and the best of those is among them. It is
  kept because a row goes only when a better one of the same key stays (`Pruned` by the
  rebuild of the tables, `RenamingKeeps` by a merge), and the order of both is strict
  and total (`OutranksIsAnOrder`, `BestExists`), so the order of rewriting cannot matter;
* `NoRestrictionIsLost` adds `Marked`: a restriction whose only name is the fingerprint of
  an unknown key has a marker. During the upgrade `Rewriting` says so of the rows
  still to be rewritten, because the markers are written first. A reconciliation
  works with markers and keys read before its transaction; `Covers` says that they
  still cover every restriction that needs one, since in between legacy names are only
  resolved, never made;
* `FingerprintsMatchTheSecret` and `ReservationsSurvive` need of it that a process past its
  verification holds the secret of the file (`PlaceOK`), and that a transaction
  of an upgrade re-reads the version under the lock (`UpgradeOK`).

Liveness under fairness, `ENABLED`, and what a recursive definition computes are
beyond the prover and stay with TLC. No module uses a RECURSIVE operator. Every safety
invariant and action property of a passing run is stated by a theorem; only
model-checked are the liveness properties: `SlotsComeBack`, `PicksEnd`,
`UnknownIsTemporary`, `StaleIsRefreshed`, `LostBanIsRestored`, `RecoveryIsNoticed` and
`ShutdownEnds`.

## Plan

Models: the rows of `xai_account_states`, whose recording and lifting repeats
`Restrictions` with one table; retention.

## Not modelled

* Parsing and formatting: classifying error bodies, reading credential files and
  host listings, importing credentials, HTTP, HTML, the C boundary's buffers.
* HMAC and the recognition of a key by its shape: an identity is a form and a key.
* Floats: prices, quota percentages and the aggregation of summaries, and the
  columns of `usage_events` that feed them. No property here depends on them.
* The repair of a corrupt database file, file permissions and paths: file I/O
  without state shared with the rest.
* What retention deletes and what the health monitor measures: one DELETE and one
  PRAGMA. Their goroutines are in `Lifecycle`.
* The recording of xAI account states, see the plan; the xAI half of the snapshot
  cache, which is that of Codex with one query.
