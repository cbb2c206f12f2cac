# Verification of Apanel: streams, alerts, notifications, accounts and the data behind them

Apanel monitors Chinese stocks. A **Market Data Hub** stores what providers publish, a **Backend**
computes indicators and states after the close, evaluates alert rules and sends notifications, a
**frontend** shows watch tables. This directory holds TLA+ models of the parts in which several
requests, tasks or processes share rows, keys or files, the TLC runs that check them on small
instances, and TLAPS proofs of the safety properties for every size.

## 1. Inventory

| Component | State it keeps | Operations | What is hard, what must hold |
|---|---|---|---|
| Hub daily-bar sync (`market-data-hub/app/services/sync.py`, `repositories/`) | `daily_bars`, adjustment states, generation and invalidation columns of `analysis_streams` | reserve, sample revision, fetch, recheck, fenced upsert, rebase, complete | provider I/O runs between transactions; no older or mixed data may win |
| Stream control and demand (`analysis_control.py`, `analysis_demand.py`) | `demand_generation`, row locks | mark demand changed, lock, capacity, currency test | writers of configuration race publishers |
| Analysis publication (`analysis_service.py`, `indicator_service.py`) | `indicator_snapshots`, watermarks, `dirty_from` | materialize: nothing to do, partial, cut-off, forced, stale | a reader that finds the stream current must read exact data |
| State timeline (`state_service.py`, `states/engine.py`, `state_event.py`) | `state_events`, `current_indicator_states`, sequence, generation | seed, calculate, publish, page | incremental equals one pass; live news once; pagination |
| Bootstrap and readiness (`data_bootstrap_service.py`, `data_readiness_service.py`) | Redis lock per symbol, `history_depth`, `bootstrap_completed_at` | enqueue, deduplicate, deepen, publish, stamp | lost or skipped messages; the pipeline is the recovery path |
| EOD pipeline, tasks, locks, reconciliation (`tasks/`, `analysis_recovery.py`) | Redis leases, Celery retries | run steps, retry, renew, scan pending | tasks overlap, stall and die between steps; nothing starves |
| Alert rules (`alert_service.py`, `alert_replay.py`, `alerts/`) | `alert_rules`, `alert_instances` | create, edit, evaluate, catch up, trigger | one notification per live entry, none for restated history |
| Notification outbox (`notification_service.py`, Feishu) | `notifications` | enqueue, dispatch, recover, retry | at least once, no concurrent POST, bounded attempts |
| Watch tables (`watch_table_service.py`) | tables, columns, stocks | edit, reorder, detail | shared limit of 100 securities; cells of one publication |
| Authentication and setup (`auth_service.py`, `installation_setup.py`, `cli.py`) | users, invitations, refresh sessions, setup row, token file | log in, rotate, log out, register, first administrator | reuse detection against concurrent rotation; advisory locks |
| Calendar (`trading_calendar_*.py`, Hub `calendar.py`) | `trading_calendar` | annual import, validation, backfill | two writers that know nothing of each other |
| Quotes, dividends, security master | their tables | fetch with isolation, refresh, reconcile a snapshot | one bad record, abandoned requests, shared source calls |
| Formulas, settings, secrets, health, migrations, UI | | | floating point, cryptography, probes, DDL, rendering |

Interactions. An edit of a table or rule advances the demand generation of the streams it touches
and enqueues a bootstrap; pipeline and bootstrap call the Hub over HTTP and then publish under the
row lock of `analysis_streams`; the Hub invalidates the same row in the transaction that changes
bars; readers take a shared lock and refuse a stream that is not current; the pipeline evaluates
alert rules on what was published and hands new outbox rows to the dispatcher, which shares them
with the recovery scan and with manual retries; the reconciliation re-runs what a crash left behind.

`PROJECT.json` lists every component with its status and every hazard with its source line and the
properties that cover it.

## 2. Modules

| Module | Models | Checked by |
|---|---|---|
| `AnalysisStream` | one stream: provider, Hub requests, stream row, tasks, publication | `MCFence`, `MCAnalysisStream` |
| `StateTimeline` | events and current row of one state target | `MCAlertEvaluation`, `MCReads` |
| `EventPaging` (extends `StateTimeline`) | a client that pages through the events | `MCReads` |
| `AlertEvaluation` (extends `StateTimeline`) | one alert rule evaluated over that timeline | `MCAlertEvaluation` |
| `NotificationOutbox` | rows, locks, delivering workers, webhook | `MCNotificationOutbox` |
| `ScheduledTasks` | Beat, workers, the Redis lease, pipeline steps, reconciliation | `MCScheduledTasks` |
| `HistoryReadiness` | bootstrap messages and the pipeline's readiness of one stock | `MCMonitoring` |
| `Monitoring`, `TableLayout` | table and rule handlers lock by lock; the order of columns and stocks | `MCMonitoring` |
| `TableDetail`, `YieldColumn` | one read of a table statement by statement; its price and yield cells | `MCReads`, `MCTableDetail` |
| `QuoteRefresh`, `SecurityMaster` | Hub requests with isolation and their client; sources of the security list | `MCReads` |
| `TradingCalendar` | annual import, validation, backfill | `MCReads`, `MCTradingCalendar` |
| `Configuration` (extends `Monitoring`), `Reads` | these components side by side, with their properties | `MCMonitoring`, `MCReads` |
| `RefreshSessions`, `SessionFamilies` | token rotation with its locks; what it promises | `MCAccess` |
| `AccountRows`, `Accounts` (extends `AccountRows`) | rows, file and locks of accounts; setup, first administrator, invitations, registration | `MCAccess` |
| `AnalysisStreamProofs`, `NotificationOutboxProofs`, `ScheduledTasksProofs`, `RefreshSessionsProofs`, `AccountsProofs`, `AlertEvaluationProofs`, `MonitoringProofs`, `ReadsProofs` | theorems, section 4 | tlapm |

`MCReads`, `MCAccess`, `MCMonitoring` and `MCFence` hold several scenarios; the initial state picks one
and only its variables change. `MCFence`, `MCAccess` and `MCMonitoring` extend the module most of their
scenarios run and narrow its `Next` (bounds, one task at a time, a set of operations). The other
components of `MCReads` and `MCMonitoring` are instances in `Reads` and `Configuration`, with variables
of their own; `MCReads` and `MCMonitoring` extend them with a second instance of some, over other
constants and the same variables, and `ReadsProofs` and `MonitoringProofs` extend them with the theorems,
so that both speak of the same properties. Operators that no action uses (`NoFence`, `AlwaysClean`,
`OnlyOnce`, ...) are faulty variants of the operator that follows them: substituted for it they violate
the property that `PROJECT.json` pairs them with, which shows that the property notices.

### AnalysisStream

State: the provider's feed (external), `bars` and `revision_hash`, the columns of the
`analysis_streams` row under their own names, the demanded requests, one snapshot per day, the days
of the valid timeline, and per task its Hub request (`sync`) and itself (`job`). Days are
consecutive open days, 0 stands for NULL.

* A bar is the provider's edition of the record and the corporate-action revision it was computed
  under: enough to tell older from newer and mixed from pure histories. A snapshot is the bars up to
  its day and the requests it was computed for, because a row is a function of exactly these.
* A Hub request is `ReserveSync`, `SampleRevision`, `FetchBars`, `RecheckRevision`, `PersistBars`
  (fenced upsert, rebase or nothing), `CompleteSync`; everything else interleaves, `SyncFails` may
  end it anywhere, an abandoned task does not stop its request.
* `materialize` is one action because it is one transaction under the row lock; its outcomes are
  `AcknowledgeDemand`, `Materialize` and, for errors, crashes and lost leases, `JobEnds`.
* Tasks overlap without any lock, which is what a lost lease allows.

### StateTimeline, EventPaging, AlertEvaluation

One reading per day (side of the threshold, edition), all events including retired ones, the current
row. `Publish` follows `StateEventRepository.publish`: anchors before the range, kind of each change,
comparison with the old suffix, retirement, numbering, restatement flag, generation. `edge_mode`
chooses between a crossing and a continuous state. `EventPaging` adds a client whose requests
interleave with publications. `AlertEvaluation` adds the rule (STATE or VALUE), its instance with
watermark, last sequence and status, and the evaluation as one step, since it holds the rule row
until its single commit: first evaluation, evaluation of a new day, catch-up of missed days,
re-evaluation of a restated day, an unavailable observation, and the edits of the owner.

### NotificationOutbox

Rows, the holder of each row lock, workers with the row as they claimed it and the cached outcome,
and what the webhook received. Time is two sets that grow by themselves: rows past the recovery
window, failures past their backoff. Commits fail before or after being applied, connections drop
during the POST, workers crash anywhere, a failed POST may have been received.

### ScheduledTasks and HistoryReadiness

`ScheduledTasks` runs the pipeline steps symbol by symbol under one Redis lease with token, heartbeat
and expiry; messages are redelivered after a crash and retried after a failure; the reconciliation
collects the pending symbols, oldest first and at most `Limit`, and runs the same pipeline for them.
What a step stores is reduced to days: last bar, watermark, evaluated day. `HistoryReadiness` follows
one stock's demand for depth: the change commits and the message is sent or lost; a message that
finds the symbol's lock is skipped; `ensure_ready` is the same sequence of steps in a message and in
the pipeline, which then synchronises, publishes and stamps. The adjustments still to do are a set
worked off in the order of the setting. One observed day, on which the stock trades; the weekly forced
repair is left out.

### Monitoring, TableLayout, TableDetail, YieldColumn

`Monitoring` runs each handler as a transaction whose row locks (account, rule, stream rows in key
order, foreign-key share locks on users) are separate steps, beside a rule evaluation and a
publication, with the database's deadlock detector. `TableLayout` is what the edits do to positions;
a handler is one step there because it holds the account lock, and where a row is shown is the number
of rows that come before it. `TableDetail` serves one read:
columns, shared stream lock, snapshots, states, cells. `YieldColumn` does the same for price and
yield, which take no lock, with UTC and Shanghai dates half a day apart.

### QuoteRefresh, SecurityMaster, TradingCalendar

`QuoteRefresh` has the Hub's chunks, bisection of a chunk the provider refuses, batch write and then
single writes, the client's timeout that leaves the request running, the task's retry, a Hub restart.
`SecurityMaster` has callers as coroutines, the shared flight of a blocking source call in a thread
that cannot be cancelled, one deadline per flight, fallback, the plausibility limit in total and per
market and type, and reconciliation. A list is a function from symbols to segments (market and type);
display names, which AKShare lends to the primary's symbols, are not modelled. `started` of a flight is
history: no caller waits for it beyond `started + Timeout` (`BudgetIsTheFlights`).
`TradingCalendar` has the import transaction, the Hub's unlocked read and the flush of changed
columns, and the validation loop of two tasks.

### RefreshSessions, SessionFamilies, Accounts

`RefreshSessions` splits each request at its locks: resolve the family, family advisory lock, token
row, user row, commit. Any token ever issued may be presented. `SessionFamilies` says the same
without locks or transactions: a family has one exchangeable token, an exchange replaces it, a closed
family stays closed. `Accounts` splits registration, setup and the command line the same way and adds
the token file, which no rollback undoes.

## 3. Runs

| Run | Instance | Shows |
|---|---|---|
| `fence` | race: 2 tasks over 2 days; rebases: one task at a time over 3 days, with and without an authoritative source | bars never regress or mix revisions, only an authoritative source deletes, a current publication is exact |
| `publish` | 2 days, 2 tasks, 1 demand change, forward-adjusted with rebases | `dirty_from` never lies, watermarks only advance |
| `reads` | nine scenarios, see below | what is read belongs together and is complete |
| `outbox` | 2 rows (1 malformed), 2 workers, 2 faults, 1 manual retry | SENT was received, no concurrent POST, no overwritten outcome, bounded attempts, every notification settles |
| `access` | sessions: 4 tokens, 2 requests; setup: web, command line and token rotation; registration: 2 invitations, colliding names | total revocation, refinement of `SessionFamilies`, one administrator, delivered token, distinct names, no wait cycle |
| `monitoring` | capacity (1 user, limit 2, 3 securities, an evaluation), order (2 users, shared streams), demand (columns of a stock, a publisher); columns; stocks; contention and history of bootstraps | limit, no deadlock of handlers, covered demand, edits that do what was asked, a clean pipeline run prepares the stock |
| `alerts` | 3 days, 3 changes, 3 publications, both kinds of rule | events are numbered by date, live once, and what one pass over the readings gives; triggers follow dates, live entries are announced, corrections are silent |
| `tasks` | 2 days, 2 symbols (1 suspended on the second), 1 fault, 1 edit | the lease protects unless it stalls; every traded symbol is published |
| `timeline`, `recovery`, `calendar`, `status_column` | | **violations**, section 5 |

Scenarios of `reads`: `paging` (3 days, window 2, 1 event per page), `table` (5 columns, 3 edits, 2
publications), `yield` (2 securities, 3 days, 3 writes), `isolation` (4 symbols in one batch),
`refresh` (2 attempts, a lost answer), `flight` (2 callers, 3 source calls of 2 seconds in 3 seconds,
providers that close before the last request), `universe` (2 symbols in 2 segments, 3 syncs), `calendar`
(a seeded day, a new year of 2 days, imports, 2 tasks over these days), `gap` (1 task that may also begin
with days after them and leave days before its window that have no row). Gaps in conflict occur in both.

Bounds. A correction before, at and after a cutoff, and a gap, need three days. Fences and locks compare
two parties, so two requests, workers, writers or handlers show a race; the deadlocks looked for are
cycles of two. A batch of four with one bad member is halved twice. A history of seven days, two of them
left by an earlier membership, with demands below the minimum of two bars, above it and beyond seven, can
have a gap longer than the overlap of one day. `Limit` 1 with two rows or symbols makes a scan leave
something behind. `MaxAttempts`, `MaxRetries`, `CommitTries` 1 or 2 let each budget run out.
`MaxEdition`, `MaxSync`, `MaxDemand`, `MaxGeneration`, `MaxChanges`, `MaxWrites`, `MaxEdits`,
`MaxCommits`, `MaxId`, `MaxTime`, `MaxFaults` and `MaxManual` bound counters in the guards. Deadlock is
checked in `tasks`; the other instances stop when these bounds are used up. Symmetry is used for tasks,
handlers, requests, tokens and invitations of runs without fairness.

Fairness. `outbox`: time passes, Beat starts a recovery scan every five minutes (`tasks/schedule.py`),
and a running worker proceeds because each of its waits has a timeout. `tasks`: the day closes and
ends, a key with a TTL expires, Beat sends the reconciliation every ten minutes, and a worker that
runs a task proceeds (WF of `Progress`, which includes its failure branches only while faults are
left). Faults, edits, manual retries and single end-of-day messages are never fair: a lost message is
a legal behaviour. `HistoryReadiness` is checked without fairness: its property speaks of every run
of the pipeline that meets no fault.

Refinement. `RefreshSessions` states `FamiliesKept`: under the mapping of committed rows to
`current`, `seen`, `closed` and `barred`, every step of rotation, replay, logout, login, expiry and
crash is a step or a stutter of `SessionFamilies`. Without the replay check it is violated.

## 4. Proofs

All theorems hold for every number of days, tasks, requests, rows, users, symbols and sessions, from
the assumptions named in the modules (`ConstantsAssumption`, `OutboxAssumption`, `LeaseAssumption`,
`BoundsAssumption`, `SymbolsAssumption`, `NamesAssumption`, `RowsAssumption`, `TimelineAssumption`,
`MonitoringAssumption`; `PagingAssumption`, `TableAssumption`, `YieldAssumption`, `CalendarAssumption`,
`QuoteAssumption`, `MasterAssumption`, `HistoryAssumption`, `LayoutAssumption`). They type the constants, keep markers such
as NULL apart from real values, and say that the symbols and securities of the database are finitely
many. What they say of settings is what the code validates: a page holds at least one event
(`api/indicator_state.py:107`), batches at least one symbol (`core/config.py:85` of the backend,
`core/config.py:71` of the Hub), a source call has some time (`providers/akshare.py:55`), a bootstrap wants at least one bar (`core/config.py:89` of the
backend), and a refresh without symbols is skipped (`tasks/jobs.py:290`). The last eight are
definitions: the theorems that need them take them as hypotheses, and TLC evaluates them in
`Assumptions` of `MCReads` and `MCMonitoring` for every instance; the others it evaluates in the run of
the module that extends theirs.

Every proof follows the same plan: an invariant strong enough to be kept by each action alone, one lemma per
action, and the listed results as consequences.

* **Publication** (`AnalysisStreamProofs`): `CurrentPublicationIsExact`, `CleanPrefixStaysExact`,
  `WatermarksOnlyAdvance`, `PublicationInvariant`, `TypeCorrect`. `CurrentIsExact` is not inductive: it
  says nothing while a rebuild is outstanding, and that is when the rebuild starts in the middle.
  `PublicationInv` adds that snapshots before `dirty_from` are exact, that `latest_bar_date` and the
  watermarks bound bars and rows (so clearing `dirty_from` at the last bar is justified), that an
  acknowledged demand generation was computed, and that an untouched source has no bars.
* **Fence** (`AnalysisStreamProofs`): `NoRegression`, `RevisionsNeverMix`, `DeletionIsAuthorised`,
  `FenceInvariant`. `FenceInv` says that generations in flight are distinct and that, while no newer one
  is reserved, what a request sampled is what the tables still hold: only the holder of the newest
  generation writes, and a reservation makes all others stale at once. It also orders editions and
  revisions, which makes the recheck pin every fetched row.
* **Outbox** (`NotificationOutboxProofs`): `SentWasDelivered`, `PostsAreSerialised`, `OutcomesKept`,
  `AttemptsBounded`, `DeliveryInvariant`, `OutboxTypeCorrect`. `DeliveryInv` connects a claim with its
  row: a worker with its connection holds the lock and the row is still the one it claimed; without it
  the row may have moved on but never back to PENDING; an outcome in hand counts exactly one more
  attempt.
* **Tasks** (`ScheduledTasksProofs`): `LeaseIsKept`, `RunnersExcludeEachOther`, `WatermarksStayOrdered`,
  `PublicationsOnlyAdvance`, `TasksTypeCorrect`. A job that runs and never stalled holds the key under
  its own token, so a second runner needs a stall. `TasksInv` says that no job works on a day to come
  and that a job about to publish a symbol has seen that symbol's bar of its day; this orders bars,
  publication and evaluation and keeps each of them from going back.
* **Sessions** (`RefreshSessionsProofs`): `RevocationStaysTotal`, `SessionsNeverDeadlock`,
  `SessionsImplementFamilies`, `SessionsTypeCorrect`. `SessionsInv` ties each request to the locks of
  its step and says that what it read under them is still true; a family has at most one live token, and
  one as long as nothing of it was revoked; two rotations never carry the same new token. The refinement
  is proved step by step: the commit of a rotation, login, replay, logout, expiry and crash is each a
  step of `SessionFamilies` or a stutter. A token row is locked only under its family's lock, and who
  holds a user row waits for nobody, so there is no cycle of waits.
* **Accounts** (`AccountsProofs`): `OneAdministratorOnly`, `SetupClosesForGood`,
  `AcceptedTokenWasDelivered`, `LoginNamesStayDistinct`, `InvitationsMakeOneAccount`,
  `WritersNeverWaitInCycle`, `AccountsTypeCorrect`. `AccountsInv` says what a transaction that passed a
  check may rely on until its commit: no administrator while it holds the setup lock, its invitation
  still PENDING, its identifiers free while it holds their locks. Identifiers are locked in sort order,
  so the one waited for grows along a chain of waits.
* **Timeline and alerts** (`AlertEvaluationProofs`): `EventsAreNumberedByDate`, `EventsAreLiveOnce`,
  `TriggersAreNumberedByDate`, `NoLiveEntryIsMissed`, `CorrectionsStaySilent`, `AlertsKeepTheTimeline`,
  `TimelineTypeCorrect`, `AlertsTypeCorrect`. `TimelineInv` says that no event is newer than the
  watermark or numbered above the stream's sequence and that the current row is of the watermark's day.
  `AlertInv` adds that an instance's cursor is not ahead of the stream's and what it consumed not newer
  than its watermark (`CursorInv`), that announced numbers are below the rule's counter and the
  announced days of the current version behind its watermark (`NumbersInv`), and that what is stored of
  a day was first announced with the same readings unless it is marked restated (`PublishedInv`);
  without the last, `CorrectionsStaySilent` does not follow from any single evaluation.
  `AlertsKeepTheTimeline` shows that a rule never disturbs what it reads: every behaviour of `AlertSpec`
  is one of `Spec`.
* **One pass** (`AlertEvaluationProofs`): `IncrementalIsOnePass`. The specification's reference is one
  recognition over all readings from the first valid event on. `OnePassInv` adds to `TimelineInv` that
  readings after the watermark are covered by the dirty date, that the events up to the last clean day
  are those of that pass, and that the current row is the outcome of the last event. The invariant
  compares at the last clean day, not at the watermark: while a correction is outstanding the rest of
  the timeline is what a rebuild will replace. A rebuild keeps the events before its start and appends
  the changes it computes from a seed. That the status it compares each day with is the one the whole
  pass has there is an induction over days; it is made without the induction theorems, from the least
  day on which the two would differ: the day before it they agree, so the transition is the same.
* **Paging** (`AlertEvaluationProofs`): `PagesAreOneTimeline`, `PagingInvariant`. While the version of
  the stream is the one the client holds, its pages are exactly the events of the window up to its
  cursor. A publication that keeps the version keeps the events and the default window
  (`VersionOfWindow`), because the version depends on the payload of what is replaced and on the day
  the window ends.
* **Monitoring** (`MonitoringProofs`): `LimitHolds`, `CurrentPublicationsCoverDemand`,
  `HandlersNeverWaitInCycle`, `EveryCycleHasAnEvaluation`, `MonitoringTypeCorrect`. The limit is not
  inductive: a handler decides several steps before it commits. `MonitoringInv` says that from
  `lock_account` on a handler holds its user's row, that its decision depends on rows of that user only
  and therefore still stands (`DecisionKept`), and that it holds every stream row it has passed. Hence
  a commit changes the demand of streams it has locked only (`UnmarkedDemandStays`, by the ten kinds of
  operation), so the demand a publisher collected under its own lock is current, and a published
  generation is never ahead. Stream rows are taken in key order, so the row waited for grows along a
  chain of waits; a publisher never waits. A wait cycle therefore always contains an evaluation, which
  takes its user's row last.
* **History** (`MonitoringProofs`): `CleanRunsPrepare`, `HistoryInvariant`. `ReadinessInv` says that
  each recorded depth was synchronised once, up to some day, and follows the pipeline through its
  phases: adjustments that count enough bars or were asked for the depth, then those that have today's
  bar, then those published through today; bars and depths of a stream only grow, so what bootstraps
  store meanwhile disturbs none of it. At the end a synchronised depth and today's bar, or enough bars
  and today's bar, are the last bars unless there is a gap: a gapless set of days that ends today and
  has n members is the last n days.
* **Layout** (`MonitoringProofs`): `EveryEditShows`, `LayoutInvariant`. `LayoutInv` says that positions
  are distinct among the columns and among the stocks of a table, that row ids were issued before, and
  that a stock is there once. With distinct positions `Index` is a bijection from n rows onto 0..n-1,
  so a column that is moved to an index ends up there and the others keep their order.
* **Sources** (`ReadsProofs`): `AtMostOneSourceCall`, `LateCallersShareTheBudget`. `MasterInv`: the
  threads inside AKShare are those of running flights, a running flight is the one registered together
  with its own deadline, and a waiting caller has the deadline of its flight, which has not passed: due
  timers fire before time goes on.
* **Table detail** (`ReadsProofs`): `RowsAreOnePublication`, `ReadyRowsLackNoCell`,
  `ColumnsListTheirStates`. `TableInv` says that stored variants and states are one publication's with a
  variant for each request, that a current publication has the one each column needs
  (`merge_indicator_requests` drops only what another bundle contains), and that what a read holds under
  its share lock is still what is stored.
* **Yield** (`ReadsProofs`): `YieldsBelongToTheirRows`. Each step of a read keeps the newest row it saw of
  each security; the range of the one dividend query contains every window of the batch, which is why
  filtering it by security and window gives what a query of one security would.
* **Calendar** (`ReadsProofs`): `ValidationsAreContinuous`. A predecessor that is returned is the last
  open day before, whatever days without a row or in conflict turn out to be: the days in between are
  CLOSED, hence known (`PredecessorsAreProven`). And it is found: by `CalendarInv` every day a task has
  gone through has a row, since nothing removes one, and a task that is done has gone through its whole
  window.
* **Quotes** (`ReadsProofs`): `BadSymbolsStandAlone`, `CompletedRefreshIsFresh`. `QuoteInv` splits into
  the stored quotes, each request and the refresh. `RequestInv` says that the chunks to come, the
  records in hand and the items reported cover the symbols of a request, that a refused chunk of several
  is halved and not reported, and that records are not older than the request; it speaks of the world
  only through what never shrinks (`Grows`), so an abandoned request or a crash elsewhere cannot break
  it. `Refreshing` says that a symbol is malformed, or has a quote since the attempt began, or is in a
  batch to come or awaited: a retry starts over and an answer that is not retryable leaves nothing out.

Writing the proofs changed the models where they were wrong or left something open. `CleanRunPrepares`
claimed that a clean run leaves the last bars the demand needs; the proof stopped at a history with a
gap, which TLC then reached with a longer history and an overlap shorter than the gap (section 5), and
the property now says so. An overlapping `CASE` in `Resolve` of `AlertEvaluation`, whose value TLA+
leaves open, is an `IF`; expressions such as `UNION S \union T`, which tools parse differently, are
parenthesised; the database's cycle search in `Monitoring` looks only at sessions that wait; the order
of columns is stated by counting, without building the sorted list.

Only model-checked:

* `EveryTriggerSettles` and `EveryTradedSymbolSettles`: liveness is beyond the prover;
* `NoCircularWait` of `access` joins the two wait properties that `SessionsNeverDeadlock` and
  `WritersNeverWaitInCycle` prove; `NoDeletionUnlessTrusted` of `fence` is the instance of
  `DeletionIsAuthorised` with a trusted source in one scenario. Both are stated in an MC module, over its
  scenarios.

## 5. Findings

* `timeline` refutes `TimelineIsComplete`. The pipeline's sync stores today's bar and sets
  `dirty_from` to today. Before it publishes, a bootstrap, whose cutoff is yesterday, materializes:
  the range is empty, and `publish` is called without observations and without a start
  (`services/analysis_service.py:122`), which retires every event and deletes the current states. The
  pipeline then publishes from `dirty_from` on; the earlier timeline is gone. `docs/architecture.md:166`
  promises to keep what precedes the affected range. `IncrementalEqualsOnePass` therefore starts at
  the first valid event.
* `recovery` refutes `NothingPendingMeansEvaluated`. An edit resets `last_evaluated_trade_date` to NULL;
  after a crash between publication and evaluation the scan compares `NULL < state_through`
  (`services/analysis_recovery.py:100`), which is not true, so the rule is not pending, against
  `docs/architecture.md:170`. It is evaluated after the next publication.
* `calendar` refutes `ConflictsAreUnknown`. The Hub reads the day unlocked and flushes only the columns
  it changed; an import that replaces the year in between leaves expected and actual in conflict with
  a status of OPEN or CLOSED, against the docstring of `import_annual_calendar`.
* `status_column` refutes `EveryAcceptedColumnIsShown`. A moving-average STATUS column of type INDICATOR,
  the example of `docs/api.md:154`, is accepted; the projection of value columns
  (`watch_table_service.py:322`) does not skip it and its parameters make the table detail fail.

Met while modelling, without a run of its own: `docs/market-data.md:34` says a security missing from a
successful batch becomes INACTIVE, `docs/market-data.md:170` and the code say the opposite unless the
source is authoritative, so delisted securities stay and count for the 5 % limit; an entry published
before a crash and corrected before the evaluation is restated and never announced, which
`EveryLiveEntryAnnounced` exempts; a bootstrap message that finds the symbol's lock is dropped although
the holder may have collected the older demand, which `CleanRunPrepares` shows to be repaired by the
pipeline, not by the message.

A gap in the history is not seen by a normal run. A stock is monitored with little history, dropped,
and later added with a deeper demand: the new bars may not reach back to the old ones, and the next
demand finds enough bars by count (`data_bootstrap_service.py:70-78`), while the pipeline fetches from
seven days before the last bar (`tasks/pipeline.py:463-470`). A publication then computes its
indicators over the gap. `docs/market-data.md:81` and the docstring of
`_sync_required_history_in_chunks` say that the normal run fetches the whole required window and so
repairs such gaps; `docs/architecture.md:170` describes what the code does, with the weekly repair on
Friday as the run that closes them. `CleanRunPrepares` therefore promises the window only for a history
without a gap.

## 6. Plan

The modules, runs and theorems planned are written. What would come next:

1. Several state targets per stream and the daily history endpoint.
2. The weekly forced repair beside the normal run, over several days, with the claim that it closes
   every gap; pipeline issues in `ScheduledTasks`; provider wire errors.
3. The key rotation of user secrets.

## 7. Not modelled, and why

Indicator formulas and state predicates are floating-point arithmetic; the models keep which inputs a
value depends on. Providers and the webhook are external and appear as nondeterministic answers.
Rendering, logging, health probes, configuration validation, cryptography and DDL carry no protocol.
The `none` and `qfq` adjustments of a security are two independent streams, except that a bootstrap
takes the later watermark of both as its cutoff (`limit` in `StartBootstrap`, `Begin` in
`HistoryReadiness`). The dividend upsert has no fence and no promised order; the evaluation of a rule
and an edit of its user can wait for each other, which the database resolves.
