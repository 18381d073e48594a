# Verification of Arepo's research pipeline

Arepo reads prediction markets (Polymarket) and turns them into research that must stand up later: it scans the
open markets, ranks the ones worth a look, freezes cohorts of them, follows what happens to every frozen entry,
serves all of it through a web API, and mails alerts and digests. The jobs are short processes that cron starts
on GitHub runners; they share one database and may overlap, hang, be killed or be started twice. The API is one
process whose coroutines share caches. Most of what can go wrong lies between two of those, or between a process
and its own crash, and that is what most of the modules here are about; the others are about computations whose
results depend on a long history. Paths below are relative to `src/backend/astrolabe/` unless they begin with
`src/`.

Contents: 1 inventory, 2 modules and their correspondence to the code, 3 runs and bounds, 4 fairness, 5 proofs,
6 findings, 7 what is not modelled, 8 plan.

## 1. Inventory

| part | state it keeps | operations | talks to | what is hard about it |
|---|---|---|---|---|
| scheduler: lease, watchdog (`scheduler/state.py`, `tick.py`) | a lease row per job group | acquire (select, then insert or conditional update), release, deadline, kill | database; started by cron | two ticks on one expired row; death at any statement; a release by a tick that was overtaken |
| scheduler: jobs, bookkeeping | a row per job: last attempt, last success | visit due jobs in order, book each, exit code | every job below | a job fails, or its bookkeeping; a tick cut short; skips booked as successes |
| scheduler: retention, archive (`retention.py`, `archive.py`) | deletes old scans and microstructure | read references, choose candidates, archive, delete | cohorts, scans, object store | a cohort frozen between the read and the delete; a reader in the middle of its queries |
| discovery: enumeration, eligibility (`bounded_discovery.py`, `scan_service.py`, `eligibility.py`, `clients/gamma.py`) | a report with a completeness verdict, the analysed markets | keyset walk, windows and bisection, gate, enrichment, ranks | Gamma and CLOB APIs | markets come and go while pages are fetched; pages fail; cursors repeat |
| discovery: scan lock, refresh (`scan_store.py`, `refresh_cli.py`) | a lock row, stored scans, the market cache | lock, scan, record, refresh the cache, unlock | discovery, storage | the lock is read and written without a condition; a run dies holding it |
| discovery: board of signals (`signal_service.py`, `trajectory.py`) | none | latest scan, its rows, their histories; scopes, sorts, trajectories | API, retention | three reads of a store that changes; a history cut at a limit |
| evaluation: research cohorts (`research_engine.py`, `research_repository.py`, `discovery/cohort_from_scan.py`) | cohorts and entries, write-once | due check, pick a scan, freeze | scheduler, scans | scheduled and manual freezes of one period; look-ahead |
| evaluation: forward tracking (`research_tracking.py`) | a row per entry and horizon | plan, fetch in batches (tick) or token by token (command), commit | CLOB API | overlapping passes, of which the command's last any time, the close during a fetch, the rollback of a whole batch |
| evaluation: pre-close (`research_preclose.py`) | a row per entry | select, load, ask one by one, commit once | CLOB API | rows stale by the commit; answers after the close |
| evaluation: weekly cohort (`engine.py`, `ranking.py`, `tracking.py`, `repository.py`) | a list of entries, forward prices, resolutions, verdicts | rank a batch, freeze, track | CLI, Gamma and CLOB APIs | check-then-write against a concurrent freeze; a list filled by many batches, whose runs read it statement by statement and commit at the end |
| evaluation: replay, statistics, screen (`research_replay.py`, `research_service.py`, `research_analysis.py`, `historical.py`, ...) | none | result states, scores, verdicts, deduplicated headline, screen of a past date | the frozen rows, price histories | two readers with separate rules over one record; hindsight |
| digest (`digest/`) | a delivery row per user and window, its snapshot | due window, snapshot, claim, send, book | mail provider, preferences | death after the provider accepted; retries against the provider's memory of a key |
| alerts (`alerts/`) | deliveries and history | eligible users, cooldown, send, record | mail provider, preferences | the cooldown is checked, the mail sent, then recorded |
| lab messages, commands (`lab/service.py`, `api/routes/lab.py`) | a row per message and command | create, fetch, re-fetch or not, report, cancel, expire | an agent on a Mac, a host | requests overlap between read and commit; answers are lost |
| lab administration (`lab/admin.py`) | users, an audit | verify, suspend, grant, revoke, delete, rate limit | mail provider, accounts | rules about the set of owners, checked before the commit |
| hardware keys (`lab/security_keys.py`, `accounts/stepup_gate.py`) | keys, challenges, step-ups, devices, recovery codes | register, authenticate, trust, lock, recover, gate | browsers | ceremonies in two requests, several lifetimes, several browsers |
| order-book stream (`clients/clob_ws.py`) | books, a connection | connect, subscribe, apply, fail, back off, stop | venue | repeats, silence, sessions that break |
| clients (`clients/clob_rest.py`, `gamma.py`, `data_api.py`) | none | bounded retries, batches | venue | one batch of several fails |
| opportunity board (`opportunity/`) | a cache, a row per day | build, rank, select, freeze the day | market service, data API | stale-while-revalidate with locks that are dropped; trades that fail for some markets |
| market service (`service/`) | the universe, a memo of discovery | choose a source, revalidate, filter, sort, page | storage, live APIs | a scan publishes itself in two steps; ties in sorts |
| research cache (`api/research_cache.py`) | answers under a version | get, compute once, evict | database | a version read before the rows; a lock dropped with a waiter |
| ingest, replay, analytics (`ingest/`, `replay/`, `analytics/`) | none, or files | normalise, replay, compute | everything | incomplete payloads; series with gaps |
| storage (`storage/`) | the schema with its version and indexes, the market table | check, upgrade, build indexes, upsert, import | every process, before its work | several migrate at once, some of an older release; indexes built outside the transaction; death between statements |
| accounts (`accounts/`) | users, preferences, saved markets | sign-in (library), update, delete | mail provider | an account that goes while others act on it |
| workflows (`src/.github/workflows/`) | none | start ticks, digests, backups | everything | overlap, time-outs, queued runs |
| frontend (`src/frontend/`) | the browser's | pages over the API | API | reads only, save for forms |

What makes each of them correct:

* **lease** - at most one tick works in a group; nobody takes or frees a live lease; a refused tick had a rival,
  and a dead tick blocks its group no longer than a lease.
* **bookkeeping** - a failed or unfinished job is not skipped until it has succeeded, the exit code is honest.
* **scan** - a scan that calls itself complete has every market that was open throughout; eligible markets are
  analysed or recorded as excluded; it ends whatever the venue does. Scans do not overlap while none has died,
  and the cache does not go back to an older one.
* **cohorts** - one cohort per cadence and period, never from a scan of an earlier period than the tick's own;
  the scans that cohorts cite, and the newest complete one, survive retention.
* **forward, pre-close** - each observation belongs to the time it is filed under, is written once or finalised
  for good, and every horizon and market gets one in the end if passes keep coming.
* **weekly cohort** - after any batches the list holds the strongest signals seen, as long as no run commits over entries that changed after it had looked; a frozen week never changes.
* **storage** - a process that passed the migration has every table and column of its release; once nobody builds,
  every index serves, except those on which a process failed, until an upgrade has gone through them alone.
* **replay, statistics, screen** - the readers of one record agree; a market's call is never exchanged for a
  later one, whichever stored scan is frozen when; nothing after a cutoff is read; no edge is reported that the model cannot have.
* **digest, alerts** - no second email per user and window, or per user, market and cooldown, beyond exactly
  stated gaps; emails show what was stored.
* **messages, commands** - the board says only what has happened on the Mac; a message is handed out until
  somebody reports on it, a command at most once and in order.
* **administration, keys** - somebody can administer the site; who acts as an owner has proved it lately.
* **stream, clients, ingest** - a book is the venue's; a batch asks for every token once; a price stays with its
  outcome.
* **caches, boards** - an answer is as current as the cache says; one computation per key; what a row says and
  what stands beside it agree; pages partition a list; a frozen day stays; a backtest never peeks.

## 2. Modules and how they correspond to the code

Conventions. An action is a stretch of code between two points where another process or coroutine can be seen to
have acted: a statement sent to the database, a commit, a request to the network, an await that suspends, a clock
that is read. What an ORM session read stays in variables of the process until its commit writes it. A process
may die before every action. Histories (variables only properties read) are marked `history` at their
declaration. A scan is named by its start, an entry by its token, a quote by when it was taken. One unit of a
clock is any amount of time; only the order of the constants matters. Operators that no action uses and whose
comment calls them mutants are plausible mistakes: substituted for the definition below them they make a property
fail, which shows what the property depends on. `PROJECT.json` maps each definition to the lines it stands for.

Jobs and records:

| module | code | state and actions |
|---|---|---|
| `ExclusiveSection` | what callers of a lease rely on | `owner[g]`, a clock, when a section was last left; `Enter`, `Leave`, `Pass` |
| `TickLease` | `scheduler/state.py` acquire and release under `tick.py` `run_tick`, `_install_watchdog` | lease rows; each tick's program counter, captured `now`, start; select, insert or update, work, cleanup, release, its failure, death |
| `SchemaMigration` | `storage/migrate.py` preflight, check, upgrade, `_ensure_fk_indexes_concurrently`; `bootstrap` | tables and columns, the version, the advisory lock, each index absent, invalid or valid and who builds it; processes of several releases between their statements, failures, a build that outlives its client |
| `SchedulerTick` (extends `ExclusiveSection`) | `run_tick._job`, `_due_by_interval`, `record_attempt`, `_run` | the jobs a tick still has to visit; gate, run, read and commit of the booking, bookkeeping that raises, exit, cut short |
| `Discovery` | `clients/gamma.py` `_request`, `paginate_keyset`; `BoundedDiscovery.discover`, `_windowed_fallback`; `CompleteScanService.discover`, `run_scan`, `_rank`; `eligibility.py` | the query under way (window, cursor, pages, tries), windows to come, what both paths found, verdict, result; the venue lists and closes markets at any time |
| `ScanLock` | `scan_store.py` acquire_lock, release_lock, record_scan; `refresh_cli.run_refresh`; `upsert_markets` | the lock row, stored scans, cache; each run between lock, scan, record, cache and unlock, with the session a failed write leaves broken |
| `CohortFreeze` | `freeze_cohort_from_scan`, `_freeze_due_cadences`, `get_or_create_cohort`, `run_retention` | scans, cohorts; freezers (scheduled and by hand) and pruners between their reads and their commits |
| `ForwardCollect` | `collect_due_forward` with the repository calls it makes | observation rows; passes between count, decision, fetch (one batch for a tick, token by token for `research-forward`) and commit; only a tick has a deadline |
| `PreClose` | `collect_preclose` | pre-close rows; passes that select, load, ask market by market and commit once, writing changed columns only |
| `WeeklyCohort` | `update_rankings`, `freeze_week`, `collect_forward_prices`, `record_resolutions`, `evaluate_all`, `ranking.py`, the runner of `service.py` | the week, its entries with slots, forward rows, resolutions, verdicts; the session of a rank run (the rows it holds as it read or wrote them, what it inserted, updated and deleted), which places one signal per step over what others have committed by then and writes at its one commit; freeze and track commands between their read and their commit; each may be lost before it |
| `ResearchScores` | `research_predictors.py`, `execution.py`, `replay_stats.py`, `research_analysis.py` | operators: predictors, outcomes with flats, costs, baseline and ablation tables, what an edge still lacks |
| `ResearchReplay` (extends `ResearchScores`) | `research_replay.py`, `research_service.py`, the entries of `cohort_from_scan.py` | stored scans, cohorts frozen from any of them at any time, forward rows that grow; result states, breakdown, headline and sample as functions of them |
| `HistoricalScreen` (extends `ResearchScores`) | `historical.py` | price histories, the activity order, today; the screen of a fixed cutoff as a function of them |

Deliveries and people:

| module | code | state and actions |
|---|---|---|
| `DigestDelivery` (extends `ExclusiveSection`) | `DigestService.run_due`, `process_user`, `create_snapshot`, `send`; `digest/scheduling.py` | one user's delivery rows; runs between query, snapshot, claim, request and booking; the provider's emails |
| `Alerts` | `AlertService.process_board`, `UserAlertService.process_board` | users and preferences, runs with the recipients they loaded, deliveries; consider, send, retry, record, die |
| `LabMessages` | `lab/service.py` create, cancel, fetch, record_message_state; their routes | message rows; requests that read and then commit without a condition; the Mac's inbox |
| `LabCommands` | `create_command`, `fetch_commands`, `record_result`, `expire_stale`, pruning | command rows, row locks of open transactions (a create waits for the rows that another holds; pruning deletes the rows it sees), fetches that live on after their caller gave up |
| `Members` | `lab/admin.py`, `api/routes/lab_admin.py` | users, audit, deletions; requests between their guards and their commit, sign-up, verification, own deletion and change of address, the users router's PATCH and DELETE |
| `StepUp` | `security_keys.py`, `lab_webauthn.py`, `stepup_gate.py` | keys, challenges, step-ups, devices, codes, failures; ceremonies of several browsers, the enforcement mode |

What is read and served:

| module | code | state and actions |
|---|---|---|
| `SignalBoard` | `signal_service.py`, `trajectory.py`, the readers of `scan_store.py` | stored scans; a request between its three queries while scans are stored, kept and pruned |
| `ExploreCache` | `MarketService` source selection, `_load_explore_universe`; `sources.py`; the two commits of `run_refresh` | scan key and table, the cached universe, its lock, requests that suspend at each read |
| `ExploreList` | `MarketService.list_markets`, `categories.py` | the loaded universe, one query walked page by page with a new `now` each time, a universe replaced in between |
| `ResearchCache` | `api/research_cache.py` | entries by age, a fair lock per key, requests; rows that open and commit out of the order of their ids |
| `BoardCache` | `opportunity/cache.py` | boards, lock objects, build slots, coroutines; get, background refresh, rebuild, evict |
| `OpportunityScore` | `analytics/flow.py`; `opportunity/scoring.py`, `hypothesis.py`, `service.py` | the indicators; a board whose trade requests answer or fail one by one, cards, priorities, views |
| `DailySnapshot` | `opportunity/snapshot.py` | a table of frozen boards keyed by date; runs between the look-up and the insert |
| `Backtest` | `backtest.py`, `zscore.py`, `anomaly.py`, `player.py` | a recording that grows frame by frame; the events of the backtest as a function of it |
| `BookStream` | `clients/clob_ws.py` | the venue's book, messages under way, the connection, the deduplication window, the book kept |
| `ClobRequests` | `clients/clob_rest.py` | one batched call with its retries |
| `MarketRecord` | `ingest/normalize.py` | a page of raw records and what it becomes, or the exception that escapes |
| `Orders` (used by `SignalBoard`, `ExploreList`, `WeeklyCohort`, `MarketRecord`) | the code's `sort` by keys without ties, and comprehensions | `InOrder` puts a set in order by the rank of its elements, `Kept` filters a sequence; they stand where something is proved of the result |

Composition. `ExclusiveSection` is the abstract specification of a database lease: an owner per group, entered
only when nobody is inside. `TickLease` implements it, step by step (property `ImplementsSection`, theorem
`LeaseImplementsSection`), and the two modules whose processes run under such a lease, `SchedulerTick` and
`DigestDelivery`, build on it, not on the rows. `ForwardCollect` and `PreClose` deliberately do not: their passes
run in two groups and from a command of their own, so they overlap. `CohortFreeze` lets freezers and pruners
overlap for the same reason. Where a module needs the writer of the rows it reads, it has that writer in outline:
`ResearchReplay` of freezes and collectors, `SignalBoard` of retention, `ExploreCache` of scans.

External parts, modelled from how the code uses them: the venue's keyset contract (a page holds the next items
after the cursor, and is empty only at the end), its order-book messages, quotes and their time stamps, the mail
provider (one email per idempotency key, remembered for a while), the Mac agent and its inbox, fair asyncio locks
and semaphores, the WebAuthn verification, the network and the runners.

Choices a reader should know of:

* The keyset walk is modelled with pages of any size up to the limit, because the code draws no conclusion from a
  short page. `EventOf` may put a market in an event that the verification path does not list, since that query
  filters on the event's date: so neither path alone has to have everything.
* The recursion over windows is a set of pending windows visited from the left; the windows are disjoint and
  ordered, so that is the depth-first order of the code. Window ends are integers; a half-open window of the code
  is one here.
* In `Discovery`, priority and strength of a market are one order; the gate is a conjunction of facts of the raw
  record, whose reasons (and the funnel's counters) are left out.
* Prices, strengths and scores are integers (points or percent) where a property compares them, with the code's
  rounding replaced by rounding down; floating-point error is not modelled.
* The reconstructed screen sorts a price history by time before it filters it by the cutoff, so `HistoricalScreen`,
  whose histories are in order, cuts each at the place where its last trade up to the cutoff stands.
* A quote's price in the collectors, an email's wording and a snapshot's content are left out; which scan they
  come from is kept.

## 3. Runs, what they show, and their bounds

Twelve runs: seven pass and five show a disagreement (section 6). A passing run takes the components of one
subject together: its `MC` module extends them, gives each its constants, and chooses at the start, by the
variable `part`, the one that moves; the others rest in their first state. So the state space is the sum of the
parts', not their product, which is right because parts of a run share no state. A part is left out of a run by
the constant `Parts`, as the configurations of the findings do.

| run | part | asks | bounds, and why they are enough |
|---|---|---|---|
| `MCQueues` | ticks | `MutualExclusion`, `RefusalJustified`, `ImplementsSection` | 3 ticks, 2 groups, lease 2, deadline 1, kill 2, clock to 5: a third tick meets the row that a dead one left and another has taken over; the second group shows rows do not interfere |
| | commands | `CommandsHonest`: handed out once, in order, and the board tells | 2 owners, 1 machine and target, 3 commands, 2 kept: a superseded, an expired and a pruned one beside one under way, and an abandoned fetch that commits late |
| | schema | `SchemaSettles` | 3 processes of 2 releases, 4 migrations, an index for an old table and one that comes with a new table: a rival that drops what is being built, a leftover, a lone repair |
| `MCJobs` | ticks | `FailureShows`: in the exit code, and the job stays due | 3 ticks over jobs of intervals 1 and 3, clock to 3: a failure, a skip and a catch-up in a row |
| | board | `LostTradesCostOnlyTheFlow` | 2 markets, each with one of 4 analyses, 2 facts and 3 pages of trades (or a failure); 4 views |
| | cache | `OneBuildPerKey` | 3 coroutines, 2 keys, 1 board kept, 1 slot, lifetimes 1 and 2, uptime to 5: a lock is dropped by an eviction while two tasks wait |
| | backtest | `NoPeek` | 3 kinds of frame (whole, empty, without a trade), 7 frames: history 3 and a horizon of 2 with gaps anywhere |
| | daily | `SnapshotFrozen` | 3 runs over 3 dates |
| | signals | `TrajectoryReachesRow` | 2 markets, 3 kinds of row, complete and incomplete scans at times to 4, histories of 2 rows, retention 3: the latest scan may be pruned while it is read |
| | explore | `ExploreFresh` | 2 requests, 2 scans, interval 1, hard age 2, clock to 4, every mode, both environments; reads that take no time (`MaxRead` 0), so the bounds are exact |
| `MCReads` | scans | `NoOverlapWithoutCrash`, `CacheNeverOlder` | 3 runs, lease 2, limit 1, clock to 5: a lock expires, two runs find it so, one of them had read it before |
| | research | `CachedAnswersCurrent`, `SingleFlight` | 3 requests over 2 keys, 1 entry kept, 2 rows that may commit out of order |
| | list | `PagesPartition` | 4 markets with ties and missing values, every filter and sort, pages of 2, a day that passes between pages: one market crosses each bound of the closing filter |
| `MCUpstream` | scan | `CompleteMeansWhole`, `EligibleAccounted`, `ScanEnds` | 3 markets in the range, 1 beyond, 2 events, page 1, guard 2, 1 retry, windows [0,1) and [1,4) with floor 1: the whole range overruns the guard, so windows are walked, bisected and given up; one market lies on each side of a cut |
| | stream | `BookFaithful` | 3 changes of a book of two levels, 3 messages under way, a window of 3 keys: a change and its reversal between two equal snapshots |
| | books | `BooksWhole` | up to 4 tokens of 3, batches of 2, 1 retry: repeats, an empty name, a full and a short batch |
| | records | `OutcomesAligned` | markets with 3 lists of unequal length and every kind of bad number; trades, histories and books likewise |
| `MCCohorts` | freeze | `ProvenanceKept` | a scheduled and a manual freezer, one pruner, period 2, window 3, deadline 1, clock to 4: a scan that grows old enough to prune while a freezer holds it |
| | replay | `VerdictsAgree`, `MomentumNeverBeaten`, `HeadlineKeepsFirstCall` | 2 markets, 3 screens (the price speaks, the book speaks against it, neither), 2 scans, 2 cadences, 2 cohorts, quotes with and without book, hours to 2: the older scan may be frozen after the newer |
| | screen | `NoLookAhead` | 2 tokens of 2 markets, 2 prices, days to 3 around a cutoff at 1 |
| | list | `SlotsHoldTheStrongest` | 2 rank runs given any of 4 signals (both sides of a market, two others), a list of 2 slots: a full list whose weakest entry goes, an upgrade, runs that overlap at every signal |
| | record | `FrozenRecordKept` | 2 rank runs of one market, 2 tracking runs, 1 horizon: a week that freezes while it is ranked and is tracked by overlapping commands |
| `MCOutcomes` | forward | `QuoteInWindow`, `EveryHorizonRecorded` | a collector in ticks and one by hand, 2 entries (one closes between the horizons, one after), 2 horizons, deadline 2 for the ticks, clock to 3: a tick's quote up to its deadline late, one by hand from after the close |
| | preclose | `FinalIsPreClose`, `EveryMarketFinalised` | 2 collectors whose passes last any time, markets closing at 1 and 2, clock to 2 |
| | messages | `Truthful`, `EveryMessageSettles` | 1 message, 2 requests at a time: messages do not interact, overlap of three requests adds no new pair |
| `MCPeople` | digest | `RepeatsOnlyForgotten` | 3 runs, 2 scans, windows of 2 and a provider's memory of 2 (the daily digest), 1 retry, deadline 1, clock to 5: three windows, a run that dies between acceptance and booking, and one that straddles the end of its window and mails it again |
| | alerts | `OneAlertPerCooldown` | 1 user and the operator, 1 market, 2 runs, cooldown 1, 1 retry, clock to 3: the cooldown elapses, and a late email may be followed sooner |
| | stepup | `UnlockedByProof` | 2 browsers, 2 keys, 1 recovery code, 1 device beyond trust, lifetimes 1 and 2, clock to 2, every mode |
| | members | `OwnerRemains` | 2 owners and 1 more person, every action, 1 action and 1 email per hour, 1 account (any) that requests outside the administration endpoints meet |
| `Starvation`, `ScanOverlap`, `DigestWeekly`, `LastOwner`, `Contrarian` | one part | one documented claim each, refuted | the bounds of the run they belong to; in `DigestWeekly` a window longer than the provider's memory |

Deadlock is not checked: every part has finite histories (processes that are done, a clock at its bound), so
the last state of a run is where it should stop. The clock bounds are in the guards of the advance action; the
other bounds are named constants in guards as well. Symmetry is used over interchangeable processes and keys, in
runs without liveness only.

Every property is tested against a mutation of the code it depends on, listed under "mutants": for instance
offset paging instead of the cursor breaks `CompleteMeansWhole`, an unconditional update of the lease row breaks
`MutualExclusion`, dropping the lock of an evicted key even when it is held breaks `OneBuildPerKey`, a dense
series instead of the frame-aligned one breaks `NoPeek`, a key of the deduplication without its time breaks
`BookFaithful`, and deduplicating the headline by the newest call breaks `HeadlineKeepsFirstCall`.

Several invariants are conditional because the code is:

* `NoOverlapWithoutCrash` and `CacheNeverOlder` hold until a scan has left its lock behind; after that the
  unconditional write lets two scans in (finding `ScanOverlap`).
* `QuoteInWindow` bounds how late a quote may be only where a tick took it: `research-forward` has no deadline, so a
  quote it files may be from any time after the one it states, after the close too.
* `RepeatsOnlyForgotten` is what is true of every frequency: emails of one window are as far apart as the provider's
  memory and none is later than a run that began in the window. That is one email for the six-hourly and the
  twice-daily digest (`AtMostOneEmail` proves it). A daily window lasts the 24 hours that the provider remembers, so
  a run that begins before its end and sends after it may mail an accepted, unbooked delivery a second time; a weekly
  one may be mailed again each time the provider has forgotten (finding `DigestWeekly`). The frequency of a user
  stays what it is in the model.
* `OneAlertPerCooldown` speaks of the time a run takes when it begins, which is what the cooldown is reckoned with
  and what the delivery is dated by: a run that sends late may be followed by an email that is closer than the
  cooldown, by as much as the first one was late. It names its other gaps: runs that overlapped, an email that
  arrived without being recorded, an account deleted with its deliveries.
* `OwnerRemains` names every way to lose the last owner but overlapping requests (finding `LastOwner`): an owner
  deletes their own account, changes its address, which unverifies it, or patches or removes themselves through the
  users router (`/api/users`), which knows nothing of the last-admin rule; or an active superuser whose address is
  not verified does that to an owner. Requests of that router and of one's own account are single steps in the
  model; one that meets an administration request counts as an overlap.
* `HeadlineKeepsFirstCall` lets an older scan that is frozen by hand after a newer one (`research-freeze-from-scan
  --scan-id`) take over the markets it calls: the headline goes by the start of the scan, not by when the cohort was
  stored. Cohorts that `research-freeze` screens live are left out: no workflow runs it, and it stores a direction
  only for signals that are strong enough, so that entries differ from those of a scan.
* `SlotsHoldTheStrongest` holds until a rank run commits although another committed after it had looked at the
  entries. Nothing in the database stops two such runs (`models.py:117` makes only a token's entry unique): they may
  overfill the list, enter both tokens of a market, or leave out a signal that the other run's entries outlived.
* `FrozenRecordKept` holds but for a rank run that had read the week as open before the freeze committed, and for an
  evaluation that another evaluation overtook: both write verdicts over what they read.
* `FailureShows` speaks of jobs that were begun when they were due: a failure of a job that was started early may be
  skipped afterwards, since its interval counts from the last success.
* `CachedAnswersCurrent` allows exactly the rows that committed behind a higher id, `SingleFlight` excepts keys
  whose lock was dropped under a waiter, and `ExploreFresh` gives a read that raced a scan's two commits the hard
  maximum age, as the comment in the code claims, and two reads more: one before the entry is dated and one while it
  is renewed. (The second was missing from the bound until its proof failed; with `MaxRead` 0 a run cannot tell.)
* `SchemaSettles` excepts an index on which a process failed, until an upgrade that no other joined has gone
  through the list: a rival that finds the failed build's index by `IF NOT EXISTS` leaves it, and says it is built.
* `CommandsHonest` lets two owners who command one target at once be served in either order, and a fetch
  overtaken by another request about the same command be told of late.
* `TrajectoryReachesRow` stops where a market has more snapshots than one read takes: the history is cut from its
  oldest end (`scan_store.py:199` takes the first rows in ascending order), so from then on a trajectory ends in
  the past. And it speaks of a latest scan that is complete or inside the retention window: the live surfaces serve
  the newest scan of any completeness, retention spares the newest complete one, so an incomplete latest scan that
  has outlived the window may be deleted between the queries of a request.
* `PagesPartition` holds of one universe, and with a closing filter only while no market crosses one of its bounds:
  every request counts the days from a `now` of its own, so a market that enters or leaves the filter between two
  pages shifts what follows it.

## 4. Fairness

Safety parts assume none. Liveness is checked in four parts, and a part's fairness is about its own steps:

* scan (`MCUpstream`) - weak fairness of the scan's own steps: a process that runs keeps running. The venue is
  not fair and may fail every request; `ScanEnds` rests on the retry bound, the page guard and the bisection
  floor.
* forward and preclose (`MCOutcomes`) - weak fairness of the clock and of the steps of a pass that has begun: it
  goes on unless it is cut off. Nothing is assumed of when passes begin: that they do so for ever is the premise of
  the two properties, written in them (`PassesComing`, `LooksComing`), because the scheduling does not ensure it. The
  gate of both jobs is fifteen minutes (`config.py:165-166`), so is the cadence of the cron
  (`scheduler-collect.yml:10`), and a skip renews the interval, as finding `Starvation` shows; only the irregular
  delays of the runners, a dispatch with `--force` or a command let a pass through. What is checked is what the
  passes do, given that they come: none of them leaves a pair out for good. Passes are cut off freely until the part
  becomes calm; the properties speak of the time after it, because passes cut off for ever record nothing. Rival
  passes that roll each other back are not calmed: that the loser finds the rest next time is the point.
* messages (`MCOutcomes`) - weak fairness of running requests and of the Mac, strong fairness of what needs a
  free handler: the pool of handlers is the model's, the API itself takes any number of requests. Calm as above.

## 5. Proofs

The theorems hold for every value of the constants that meets the assumptions. They are in seven modules, one for
each subject (`Queues_proofs`, `Jobs_proofs`, `Reads_proofs`, `Upstream_proofs`, `Cohorts_proofs`, `Outcomes_proofs`,
`People_proofs`), and in `Counting`, which has what they say of finite sets, ranks and sequences. Most follow one
argument: an inductive invariant is stated in the component's module, a lemma per action shows that the action keeps
each conjunct, and the property is a consequence. What is proved of a component, and what its invariant knows that
the property does not say:

| component | proved | why the invariant is more than the property | assumptions |
|---|---|---|---|
| `TickLease` | exclusion, justified refusals, live leases kept, implementation of `ExclusiveSection` | exclusion follows from rows only with `HoldingExact` (who is inside holds exactly the row it was granted), `Timely` (no process outlives the watchdog) and `RowsOwned` (rows expire within a lease of the time their holder read) | deadline <= kill <= lease (`TimesAssumption`); the refinement maps the owner to the tick inside |
| `LabCommands` | a machine is handed its own commands, once and in order, and the board is honest (`CommandsHonest`) | the rows that an open fetch has updated stay locked to the end of its transaction, also when its caller gave up (`OwnAndCommitted`, `FetchesSound`); a create supersedes what is pending, so the newest of a target is the pending one (`NewestPending`), and what was handed out before has lower ids (`HandedInOrder`) | a target belongs to one machine |
| `SchemaMigration` | the schema and the indexes settle; an upgrade alone among the indexes repairs them all | what is under construction is in one hand (`BuildsExact`); an index that does not serve yet is still on somebody's list, since a process that drops one builds it next and one that gives up marks all it leaves (`IndexesOwed`, `LeftOversKnown`); nobody disturbs what a lone process left behind it (`AloneRepairs`) | releases only add elements and append to the list of indexes; an index is on a table of its release |
| `SchedulerTick` | honest exits for any groups; with one group, what is owed is not skipped and no success moves back (`FailureShows`, `LastSuccessMonotone`); the ticks only take steps of `ExclusiveSection` | a tick without a failure has booked every job it began but the one it is at (`BegunAreBooked`); the booking under way is newer than all others (`BookingsPast`), and an owed job is due for whoever works next (`OwedAreDue`). These two need that no other group books the job: the group "all" shares its jobs with the others | the jobs of a tick are a sequence |
| `BoardCache` | one build per key | a coroutine that builds, or waits, does so on the lock the key has now (`LocksByKey`, `LocksHeld`), on a queue without repetitions (`QueuesExact`): an eviction may drop only a lock that nobody holds | the fresh lifetime is less than the hard one |
| `SignalBoard` | trajectories reach their rows | the three reads of a request are of one store that moves on: the scan it read, or a later one that retention may not touch either, is still there, unless it was incomplete and old (`ReadsLatest`), scans are kept in order (`KeptInOrder`), its rows are of that scan (`RowsSeen`); a filtered, sorted list has only what was put in (`Kept`, `InOrder`) | limits are positive |
| `OpportunityScore` | a market whose trades were lost keeps its card, and no card claims more than the analysis of its market unless a family of trades fired (`LostTradesCostOnlyTheFlow`) | the cards are those of all markets with a signal, each from the trades that came for it, and stay so because no request is open and no other view asked for (`CardsOfAll`). What the trades were does not matter: their indicators are of families apart from the signal's own, and more families never lower the confidence, through two products, a rounded quotient and a cap | finitely many markets; qualities are natural numbers |
| `DailySnapshot`, `Backtest` | a frozen day stays; nothing recorded later changes a signal, or a verdict once given | what precedes a frame is the same in every longer recording | `HorizonIsAhead`: the code refuses any other horizon |
| `ScanLock` | no overlap and no older cache while no scan died | the write has no condition on what was read, so exclusion rests on time: a call stays within its limit (`CallsTimely`), hence the row of the one that scans has not expired (`RowIsHolders`), and nobody who finds it so writes | limit < lease |
| `ResearchCache` | one computation per key; cached answers miss only rows behind a higher id | who computes holds the lock of the key or was left with a dropped one (`LocksOwned`, `CallsHold`); a version covers the rows that had committed when it was read, so an answer computed later covers them too (`AnswersSound`) | finitely many askers and keys |
| `ExploreCache` | stated bounds on what an answer misses | a read in progress began when the key it compares was current (`ReadersHold`, `ReadsCurrent`), the entry was such a read and was renewed only while the key stood (`EntryCurrent`) | bounds are natural numbers |
| `ExploreList` | pages have every match once and in order | the pages so far are a prefix of one list, unless the universe was replaced or time moved a market across the closing filter in between (`PagesSoFar`) | finitely many markets |
| `Discovery` | completeness of a complete scan, nothing vanishes | a walk has everything up to its cursor (`PassedKept`), and a market not found yet is in a window still to come (`NothingDropped`); bisection covers because the halves share their cut | fallback windows cover the range; ids are positive |
| `BookStream` | from a snapshot on, the book kept is the venue's as of the last message | there is a history of the venue's books that bears out every message under way (`VenueHistory`), the book kept is the one of a time in it, and every later change is still to come (`ComeTo`); a snapshot that would be dropped as a repetition is of the book that is held (`RepeatHarmless`) | none on the memory for repeats |
| `ClobRequests`, `MarketRecord` | a batch asks for each token once or says why not; an outcome keeps its name and its price | what was asked is a prefix of the tokens without repeats; fields are taken by place before outcomes without a token are dropped | batches are not of size 0; pages are lists |
| `CohortFreeze` | provenance, newest scan, one cohort per period, no back-fill | a pruner acts on references it read long ago: `PrunersAware` says what it may still delete is older than its window, `FreezersCurrent` that a freezer's scan is from its tick's period, and the two meet only because a period and a deadline fit in the window | `WindowAssumption`: period + deadline <= retention window |
| `ResearchReplay` | readers agree, the headline exchanges a call for an older one only, the model is never counted better than its momentum | frozen entries are those of stored scans (`FrozenFromScans`); from there the three are about functions: rounding and thresholds are the same on both sides, and cohorts of one origin hold one scan's calls, so that a new pick of an equal origin shows the same call | screens and quotes are of the stated types |
| `WeeklyCohort` | frozen weeks stay; the list holds the strongest | after the freeze only trackers write, and what one read is still so when it commits (`FreezeIsLast`, `SettledAtWinner`, `VerdictsStand`). The list is proved one signal at a time (`SlotsInv`): what a run sees, the committed rows with its own changes over them, is at every step a list as the property wants it for the signals it has placed, and its commit turns the rows into what it sees, unless another run has committed since it looked | strengths are integers, signals differ in their order |
| `HistoricalScreen` | no look-ahead | a trade after the cutoff does not move the place where a history is cut and comes last behind it; the first price at a day once reached is not read from a later trade | a history of at least one price |
| `ForwardCollect` | every quote in its window, rows written once | a pass commits what it decided at a `now` it read long before: `PassTimely` bounds how long for a tick, `PlansSound` keeps that what it plans was due at that `now`, on the right side of the close, with quotes taken since | horizons, closes and the deadline are natural numbers |
| `PreClose` | the final price is from before the close, closed rows stay closed | a pass carries quotes whose own timestamp precedes the close, and a row it loaded is still there when it commits (`PassSound`); without the latter an update could write columns of a row that is gone | closes are natural numbers |
| `LabMessages` | truthful board, cancel, final states | reports in flight must be true when they land (`ReportsTrue`) and lone handlers' reads still current (`Alone`) | none |
| `DigestDelivery` | one snapshot, honest history, settled rows, emails of a window as far apart as the provider's memory, one only in a short window; its runs only take steps of `ExclusiveSection` | a run that is about to send must be known to be alone (`RunsTimely`), to hold an unsettled row (`RunsSound`) and to send within its window (`MailsSound`) | one lease; for one email only `ShortWindow`: period + deadline <= the provider's memory (six-hourly, twice daily) |
| `Alerts` | between runs that tell of the same market the cooldown is over, reckoned from their beginnings, but for the stated gaps | runs that did not overlap come in turn (`RunsInTurn`); every email was recorded or is the one in a run's hand (`EmailsAccounted`), which was looked for after all earlier records were written (`PairIsFresh`) | the operator is not a user |
| `StepUp` | who is let through has proved it lately | a step-up or a trust that is not spent is that of the browser's last proof, with its lifetime (`ProofsHeld`) | lifetimes are natural numbers |
| `Members` | the last owner is lost in the stated ways only | who has a request past its guards is still an owner and takes nothing away from themselves by it (`AskerRemains`) | some founder |

What is proved is not always checked again: `LiveLeaseKept`, `NewestKept`, `OneCohortPerPeriod`, `NoBackfill`,
`EmailsShowSnapshot`, `SentWasMailed`, `SettledStays`, `WriteOnce`, `ClosedStays`, `CancelHonoured`, `FinalStays` and
`LastSuccessMonotone` are theorems about every instance and in no run's list. `CancelHonoured` and `FinalStays` hold
until two writing requests have overlapped: each request reads, decides and commits without a condition, so
overlapping ones may undo each other, and the properties say exactly how far the handlers' checks reach.

What the proofs needed of the models. Sorting and filtering are `Orders`' where something is proved of the result:
what the library's `SortSeq` and `SelectSeq` compute is defined by recursion. The theorems on induction take an
operator as a parameter, which the prover cannot instantiate; `Counting` has two that take a set instead, from a
minimal counterexample: a nonempty set of numbers has a least one (`LeastNumber`), and a set of subsets of a finite
set has them all if it has the empty one and, of every other, either that one or not the one without some element of
it (`SubsetInduction`). From these come that every rank is taken (`EveryRankTaken`), that a sorted sequence has each
element once (`SortedAgain`), that the fold over a set that takes its elements off one at a time exists (`TakingOff`).

Every safety property that a run checks and finds to hold is also a theorem. Model-checked only: the liveness
properties (`ScanEnds`, `EveryHorizonRecorded`, `EveryMarketFinalised`, `EveryMessageSettles`), since fairness and
ENABLED are beyond the prover used; and the refuted
claims of section 6. No module with a theorem reaches a recursive operator.

## 6. Findings

| run | what the code does | what it says |
|---|---|---|
| `Starvation` | `run_tick._job` books a gated skip with `ok=True`, which moves the time the gate measures from; frequent ticks keep an overdue job skipped | "does only what is DUE" (`tick.py:3`), retention "roughly once a day" (`config.py:203`) |
| `ScanOverlap` | the lock row is written back without a condition on what was read | "prevents overlapping scans and recovers a crashed scan's stale lock" (`scan_store.py:4`) |
| `DigestWeekly` | the retry window is measured from the last attempt, which each retry renews; a daily window is as long as the memory, so a run over its end is enough | retries stay "inside Resend's 24-hour idempotency window" (`digest/service.py:304`) |
| `LastOwner` | the other owners are counted before the commit, without a lock: two owners who revoke each other at once leave none | "You can't revoke the last remaining admin." (`lab/admin.py:268`) |
| `Contrarian` | trades of every outcome are judged by the price and move of the lead token | "buying when the price is low (< 0.5) or buying against a recent downward move (and vice versa)" (`analytics/flow.py:162`) |

Read in passing and not given a run of their own: a failed cache upsert leaves the shared session unusable, and
the release of the scan lock on it raises (`refresh_cli.py:70`; the path is in `ScanLock`, where the lock then
stays for its lease); a response without its item key counts as an empty last page (`gamma.py:407-412`), so an
upstream that renames the key yields an empty scan that is complete; a market the normaliser rejects is counted
in no bucket of the funnel, which promises that the counts reconcile (`scan_service.py:136`); the list of due
digest users is cut at a limit before failed ones are set aside; a time stamp beyond what a date can hold raises
an error that the guard of `normalize_trades` does not name (`ingest/normalize.py:473`, the raise is in
`MarketRecord`); `preflight` passes by a schema whose version is current without a look at its indexes, so one
that a dead process left invalid waits for a process that calls `upgrade` itself (`migrate.py:338`, in
`SchemaMigration`); the users router's PATCH and DELETE have no last-admin rule, audit row or rate limit
(`accounts/router.py:71`, in `Members`); `stop` is forgotten when `run` begins after it (`clob_ws.py:439`, in `BookStream`).

## 7. Not modelled, and why

* Volatility, order-book and series statistics, walk-forward splits, calibration bins, the bootstrap, portfolio
  sizes: floating point over series, without a threshold that other parts act on.
* Storage: the import from SQLite (one command, by hand, that adds what is missing), how the DDL of a column is
  put together, and SQLite itself: the model is of PostgreSQL. Isolation levels: a commit is one step, a read sees committed rows; PostgreSQL's read committed gives no more,
  and no module relies on more.
* Sign-in (a library), saved markets and preferences (single-row writes; the preferences that alerts and digests
  read are inputs of those modules).
* The snapshot upsert of the Lab, signatures, archive backends, backup scripts, object stores: one write or pure
  input and output, except that archiving precedes deleting.
* The detail page of one market, health summaries, outcome surfaces: reads of what the modules above produce.
* Research resolutions and superseded cohorts: not yet, see the plan.
* Frontend: reads of the API; its forms reach services above.

## 8. Plan

Proofs: what TLC alone says is liveness; its safety core, that a scan's measure falls or that a calm pass leaves
nothing due behind, can be stated as an action property and proved.

Models: research resolutions beside `ForwardCollect`; re-opened and superseded cohorts in `CohortFreeze`;
the import from SQLite if it ever runs unattended. A check of all runs and mutants
takes a while, so new components join the run of their subject.
