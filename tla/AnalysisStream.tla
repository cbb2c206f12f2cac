---------------------------- MODULE AnalysisStream ----------------------------
(***************************************************************************)
(* One analysis stream (a security and an adjustment): the daily bars the  *)
(* Market Data Hub stores, the row of analysis_streams that fences and     *)
(* invalidates them, and the indicator snapshots and state timeline the    *)
(* Backend publishes from them.  Hub requests run provider I/O without a   *)
(* lock between two short transactions; AnalysisService.materialize is one *)
(* transaction under the row lock.  Tasks overlap, fail and are abandoned. *)
(*                                                                         *)
(* Trading days are 1..MaxDay; None (0) is SQL NULL of a date or a hash.   *)
(* A bar is the provider's edition of a day's record and the corporate-    *)
(* action revision it was computed under; an indicator request is opaque.  *)
(***************************************************************************)
EXTENDS Integers

CONSTANTS MaxDay,         \* trading days considered
          Requests,       \* canonical indicator requests of watch columns and rules
          Jobs,           \* Celery tasks that may be in flight, each with its Hub request
          Qfq,            \* TRUE: forward-adjusted stream, FALSE: unadjusted
          Authoritative,  \* the provider declares authoritative_history
          MaxEdition,     \* bound on provider changes
          MaxSync,        \* bound on reserved sync generations
          MaxDemand       \* bound on configuration changes

ASSUME ConstantsAssumption ==
    /\ MaxDay \in Nat \ {0}
    /\ Qfq \in BOOLEAN /\ Authoritative \in BOOLEAN
    /\ MaxEdition \in Nat /\ MaxSync \in Nat /\ MaxDemand \in Nat

VARIABLES
    \* the provider (external)
    today, edition, feed, feed_revision,
    \* daily_bars and market_data_adjustment_states
    bars, revision_hash,
    \* the analysis_streams row
    source_revision, sync_generation, demand_generation, last_sync_at,
    published_revision, published_demand_generation, demand_key,
    dirty_from, latest_bar_date, indicator_through, state_through,
    \* watch tables and alert rules; indicator_snapshots; valid state timeline
    demand, snapshot, timeline,
    \* processes
    sync, job

provider == <<today, edition, feed, feed_revision>>
marketData == <<bars, revision_hash, source_revision, dirty_from, latest_bar_date>>
publication == <<published_revision, published_demand_generation, demand_key,
                 indicator_through, state_through, snapshot, timeline>>
vars == <<provider, marketData, publication, sync_generation, demand_generation,
          last_sync_at, demand, sync, job>>

Days == 1..MaxDay
None == 0
Bar == [edition : Nat, revision : Nat]
NoBar == [edition |-> 0, revision |-> 0]
EmptyBars == [d \in Days |-> NoBar]
Traded(b) == {d \in Days : b[d] # NoBar}

IsLeast(x, S) == x \in S /\ \A y \in S : x <= y
IsGreatest(x, S) == x \in S /\ \A y \in S : y <= x
Earlier(a, b) == IF a <= b THEN a ELSE b
Later(a, b) == IF a <= b THEN b ELSE a
OrElse(a, b) == IF a = None THEN b ELSE a

(* An indicator row of day d is a function of the bars up to d and of the   *)
(* requests it was computed for.                                            *)
Snapshot == [bars : [Days -> Bar], requests : SUBSET Requests]
NoSnapshot == [bars |-> EmptyBars, requests |-> {}]
Observation(b, d, requests) ==
    IF b[d] = NoBar
      THEN NoSnapshot
      ELSE [bars |-> [x \in Days |-> IF x <= d THEN b[x] ELSE NoBar],
            requests |-> requests]

SyncPhases == {"idle", "reserved", "sampled", "fetched", "checked", "persisted"}
Sync == [phase : SyncPhases, generation : Nat, lo : 0..MaxDay, hi : 0..MaxDay,
         revision : Nat, full : BOOLEAN, existing : SUBSET Days,
         rows : [Days -> Bar]]
IdleSync == [phase |-> "idle", generation |-> 0, lo |-> 0, hi |-> 0,
             revision |-> None, full |-> FALSE, existing |-> {}, rows |-> EmptyBars]

JobPhases == {"idle", "syncing", "synced", "collected"}
Job == [phase : JobPhases, kind : {"eod", "bootstrap"}, end : 0..MaxDay,
        requests : SUBSET Requests, force : BOOLEAN]
IdleJob == [phase |-> "idle", kind |-> "eod", end |-> 0, requests |-> {}, force |-> FALSE]

NothingStored ==
    /\ bars = EmptyBars /\ revision_hash = None
    /\ source_revision = 0 /\ sync_generation = 0 /\ demand_generation = 0
    /\ last_sync_at = None
    /\ published_revision = -1 /\ published_demand_generation = -1 /\ demand_key = {}
    /\ dirty_from = None /\ latest_bar_date = None
    /\ indicator_through = None /\ state_through = None
    /\ demand = {} /\ snapshot = [d \in Days |-> NoSnapshot] /\ timeline = {}
    /\ sync = [j \in Jobs |-> IdleSync] /\ job = [j \in Jobs |-> IdleJob]

Init ==
    /\ today = 1 /\ edition = 1 /\ feed = EmptyBars /\ feed_revision = 1
    /\ NothingStored

-----------------------------------------------------------------------------
(* The provider: publishes or corrects a bar of a reached day, restates all *)
(* adjusted prices under a new revision (possibly dropping days), and time  *)
(* passes.                                                                  *)

ProviderPublishes(d) ==
    /\ d <= today /\ edition < MaxEdition
    /\ edition' = edition + 1
    /\ feed' = [feed EXCEPT ![d] = [edition |-> edition + 1, revision |-> feed_revision]]
    /\ UNCHANGED <<today, feed_revision, marketData, publication, sync_generation,
                   demand_generation, last_sync_at, demand, sync, job>>

ProviderRestates(kept) ==
    /\ Qfq /\ edition < MaxEdition
    /\ edition' = edition + 1
    /\ feed_revision' = edition + 1
    /\ feed' = [d \in Days |-> IF d \in kept
                                 THEN [edition |-> edition + 1, revision |-> edition + 1]
                                 ELSE NoBar]
    /\ UNCHANGED <<today, marketData, publication, sync_generation,
                   demand_generation, last_sync_at, demand, sync, job>>

NextDay ==
    /\ today < MaxDay
    /\ today' = today + 1
    /\ UNCHANGED <<edition, feed, feed_revision, marketData, publication, sync_generation,
                   demand_generation, last_sync_at, demand, sync, job>>

(* A watch table, column or alert rule changes: the configuration and the   *)
(* demand generation commit together, even when the union of requests does  *)
(* not change.                                                              *)
MarkDemandChanged(requests) ==
    /\ demand_generation < MaxDemand
    /\ demand' = requests
    /\ demand_generation' = demand_generation + 1
    /\ UNCHANGED <<provider, marketData, publication, sync_generation, last_sync_at,
                   sync, job>>

-----------------------------------------------------------------------------
(* Hub: DailyBarSyncService.sync for this stream.                           *)

(* reserve_sync: a generation in a short transaction before provider I/O.   *)
ReserveSync(j, lo, hi) ==
    /\ sync[j].phase = "idle"
    /\ sync_generation < MaxSync
    /\ sync_generation' = sync_generation + 1
    /\ sync' = [sync EXCEPT ![j] =
                   [IdleSync EXCEPT !.phase = "reserved", !.lo = lo, !.hi = hi,
                                    !.generation = sync_generation + 1]]

(* The revision is sampled and compared with the stored one.  A changed     *)
(* revision (or stored bars without one) asks for the whole coverage, which *)
(* a cutoff before the stored end refuses.                                  *)
NeedsRebase == IF revision_hash = None THEN Traded(bars) # {}
                                       ELSE revision_hash # feed_revision

SampleRevision(j) ==
    /\ Qfq /\ sync[j].phase = "reserved"
    /\ NeedsRebase => \A d \in Traded(bars) : d <= sync[j].hi
    /\ sync' = [sync EXCEPT ![j] =
                   [@ EXCEPT !.phase = "sampled", !.revision = feed_revision,
                             !.full = NeedsRebase,
                             !.existing = IF NeedsRebase THEN Traded(bars) ELSE {}]]
    /\ UNCHANGED <<provider, marketData, publication, sync_generation, demand_generation,
                   last_sync_at, demand, job>>

(* What the provider returns for the requested window; a rebase asks for    *)
(* everything up to the cutoff.                                             *)
Response(s) == [d \in Days |-> IF d <= s.hi /\ (s.full \/ s.lo <= d) THEN feed[d] ELSE NoBar]

(* The checks on a rebase response: it spans the stored coverage and omits  *)
(* a stored day only when the source is authoritative.                      *)
CoversEndsOnly(existing, days) ==
    \A e \in existing : (\E d \in days : d <= e) /\ (\E d \in days : e <= d)
CoversExisting(existing, days) ==
    /\ \A e \in existing : (\E d \in days : d <= e) /\ (\E d \in days : e <= d)
    /\ existing \subseteq days \/ Authoritative

FetchBars(j) ==
    /\ sync[j].phase = IF Qfq THEN "sampled" ELSE "reserved"
    /\ sync[j].full => CoversExisting(sync[j].existing, Traded(Response(sync[j])))
    /\ sync' = [sync EXCEPT ![j] = [@ EXCEPT !.phase = "fetched", !.rows = Response(sync[j])]]
    /\ UNCHANGED <<provider, marketData, publication, sync_generation, demand_generation,
                   last_sync_at, demand, job>>

(* The revision sampled before I/O must still describe the fetched data.    *)
RevisionTrusted(j) == TRUE
RevisionUnchanged(j) ==
    feed_revision = sync[j].revision \/ (sync[j].full /\ Traded(sync[j].rows) = {})

RecheckRevision(j) ==
    /\ Qfq /\ sync[j].phase = "fetched"
    /\ RevisionUnchanged(j)
    /\ sync' = [sync EXCEPT ![j] = [@ EXCEPT !.phase = "checked"]]
    /\ UNCHANGED <<provider, marketData, publication, sync_generation, demand_generation,
                   last_sync_at, demand, job>>

ReadyToPersist(j) == sync[j].phase = IF Qfq THEN "checked" ELSE "fetched"

(* _check_fences: a newer reservation supersedes this request.             *)
NoFence(j) == TRUE
FenceHolds(j) == sync[j].generation = sync_generation

Upserted(rows) == [d \in Days |-> IF rows[d] # NoBar THEN rows[d] ELSE bars[d]]
Distinct(rows) == {d \in Traded(rows) : rows[d] # bars[d]}

(* invalidate_changed: in the transaction that changed the bars.            *)
InvalidateChanged(changed, latest) ==
    IF changed = {}
      THEN UNCHANGED <<source_revision, dirty_from, latest_bar_date>>
      ELSE /\ source_revision' = source_revision + 1
           /\ \E first \in Days :
                /\ IsLeast(first, changed)
                /\ dirty_from' = IF dirty_from = None THEN first ELSE Earlier(dirty_from, first)
           /\ \E last \in Days :
                /\ IsGreatest(last, latest)
                /\ latest_bar_date' = Later(latest_bar_date, last)

(* upsert_fenced: only rows that differ are written and invalidate; a       *)
(* revision other than the stored one invalidates everything stored.        *)
UpsertFenced(j) ==
    LET rows == sync[j].rows
        revised == Qfq /\ revision_hash # None /\ revision_hash # sync[j].revision
        stored == Traded(Upserted(rows))
    IN /\ ~sync[j].full /\ Traded(rows) # {}
       /\ FenceHolds(j)
       /\ bars' = Upserted(rows)
       /\ revision_hash' = IF Qfq THEN sync[j].revision ELSE revision_hash
       /\ InvalidateChanged(Distinct(rows) \union (IF revised THEN stored ELSE {}),
                            IF revised THEN stored ELSE Distinct(rows))

(* reconcile_revision: replaces the coverage, deletes the stored days the   *)
(* revised history no longer has, and always invalidates from its start.    *)
ReconcileRevision(j) ==
    LET rows == sync[j].rows
        coverage == IF sync[j].existing = {} THEN Traded(rows) ELSE sync[j].existing
    IN /\ sync[j].full /\ Traded(rows) # {}
       /\ FenceHolds(j)
       /\ \E from, to \in Days :
            /\ IsLeast(from, coverage) /\ IsGreatest(to, coverage)
            /\ bars' = [d \in Days |-> IF d \in from..to THEN rows[d] ELSE Upserted(rows)[d]]
            /\ InvalidateChanged(Distinct(rows) \union {from}
                                   \union {d \in Traded(bars) : d \in from..to /\ rows[d] = NoBar},
                                 Traded(rows))
       /\ revision_hash' = sync[j].revision

NothingToPersist(j) == Traded(sync[j].rows) = {} /\ UNCHANGED marketData

PersistBars(j) ==
    /\ ReadyToPersist(j)
    /\ UpsertFenced(j) \/ ReconcileRevision(j) \/ NothingToPersist(j)
    /\ sync' = [sync EXCEPT ![j] = [@ EXCEPT !.phase = "persisted"]]
    /\ UNCHANGED <<provider, publication, sync_generation, demand_generation,
                   last_sync_at, demand, job>>

(* The task that waited for the request, if it still waits: a rebased       *)
(* history makes the EOD pipeline force a full rebuild.                     *)
AfterSync(task, rebased) ==
    CASE task.phase # "syncing" -> task
      [] task.phase = "syncing" /\ task.kind = "eod" ->
            [task EXCEPT !.phase = "synced", !.force = task.force \/ rebased]
      [] OTHER -> [task EXCEPT !.phase = "collected"]

(* complete_sync: fenced again; only then is the request reported done.     *)
CompleteSync(j) ==
    /\ sync[j].phase = "persisted"
    /\ FenceHolds(j)
    /\ last_sync_at' = today
    /\ sync' = [sync EXCEPT ![j] = IdleSync]
    /\ job' = [job EXCEPT ![j] = AfterSync(job[j], sync[j].full)]
    /\ UNCHANGED <<provider, marketData, publication, sync_generation, demand_generation, demand>>

(* Every other end of a request: provider or persistence error, refused     *)
(* response, lost fence, Hub restart.  The symbol is reported failed and    *)
(* the task drops it.                                                       *)
SyncFails(j) ==
    /\ sync[j].phase # "idle"
    /\ sync' = [sync EXCEPT ![j] = IdleSync]
    /\ job' = [job EXCEPT ![j] = IF @.phase = "syncing" THEN IdleJob ELSE @]
    /\ UNCHANGED <<provider, marketData, publication, sync_generation, demand_generation,
                   last_sync_at, demand>>

-----------------------------------------------------------------------------
(* Backend tasks.                                                           *)

TaskIdle(j) == job[j].phase = "idle" /\ sync[j].phase = "idle"

(* The EOD pipeline (scheduled, reconciliation or weekly repair) synchronises *)
(* up to its trade date, today or the previous trading day.                   *)
StartEod(j, end, lo, force) ==
    /\ TaskIdle(j)
    /\ end \in {today - 1, today} /\ end >= 1 /\ lo <= end
    /\ ReserveSync(j, lo, end)
    /\ job' = [job EXCEPT ![j] = [phase |-> "syncing", kind |-> "eod", end |-> end,
                                  requests |-> {}, force |-> force]]
    /\ UNCHANGED <<provider, marketData, publication, demand_generation, last_sync_at, demand>>

(* A bootstrap ends yesterday (ad hoc) or on the pipeline's trade date,     *)
(* unless either adjustment of the security has already published a later   *)
(* day: limit is the later of the trade date and the other adjustment's     *)
(* watermark.  It collects requests first and skips the sync when the       *)
(* stored history is deep enough.                                           *)
BootstrapEnd(limit) == Later(state_through, Later(limit, today - 1))

StartBootstrap(j, limit) ==
    LET end == BootstrapEnd(limit)
        task(phase) == [phase |-> phase, kind |-> "bootstrap", end |-> end,
                        requests |-> demand, force |-> FALSE]
    IN /\ TaskIdle(j) /\ limit <= today /\ end >= 1
       /\ \/ ReserveSync(j, 1, end) /\ job' = [job EXCEPT ![j] = task("syncing")]
          \/ /\ job' = [job EXCEPT ![j] = task("collected")]
             /\ UNCHANGED <<sync, sync_generation>>
       /\ UNCHANGED <<provider, marketData, publication, demand_generation, last_sync_at, demand>>

(* adjustment_ready and the start of indicator_snapshots: without a bar of  *)
(* the trade date the symbol is excluded; otherwise requests are collected, *)
(* before and outside the transaction that will use them.                   *)
EodReady(j) ==
    /\ job[j].phase = "synced"
    /\ job' = [job EXCEPT ![j] = IF bars[@.end] = NoBar THEN IdleJob
                                 ELSE [@ EXCEPT !.phase = "collected", !.requests = demand]]
    /\ UNCHANGED <<provider, marketData, publication, sync_generation, demand_generation,
                   last_sync_at, demand, sync>>

Completed(end) == {d \in Traded(bars) : d <= end}
Effective(j) == job[j].requests \union demand
Rebuild(j) == job[j].force \/ demand_key # Effective(j) \/ published_revision < 0
Through(first) == Earlier(OrElse(indicator_through, first), OrElse(state_through, first))
UpToDate(latest, first) ==
    dirty_from = None /\ latest <= Through(first) /\ published_revision = source_revision

(* The first rewritten day: None is the whole history, else the dirty date, *)
(* else the first bar beyond the published watermark.                       *)
StartDay(j, start, first, latest) ==
    \/ Rebuild(j) /\ start = None
    \/ ~Rebuild(j) /\ dirty_from # None /\ start = dirty_from
    \/ /\ ~Rebuild(j) /\ dirty_from = None /\ ~UpToDate(latest, first)
       /\ LET beyond == {d \in Completed(latest) : Through(first) < d}
          IN IF beyond = {} THEN start = first ELSE IsLeast(start, beyond)

(* Days of the valid state timeline after publishing the rebuilt suffix.    *)
(* When no indicator row was rewritten, publish is called with no           *)
(* observations and no start: the whole timeline is invalidated.            *)
PublishedTimeline(start, latest) ==
    LET rewritten == {d \in Completed(latest) : start <= d}
    IN IF rewritten = {}
         THEN {d \in timeline : latest < d}
         ELSE {d \in timeline : d < start \/ latest < d} \union rewritten

(* Indicator rows of the rebuilt range are deleted and rewritten.           *)
RebuiltSnapshots(start, latest, requests) ==
    [d \in Days |-> IF start <= d /\ d <= latest
                      THEN Observation(bars, d, requests) ELSE snapshot[d]]

(* The dirty date is kept while bars beyond the cutoff are unpublished.     *)
AlwaysClean(latest) == None
DirtyAfter(latest) == IF latest_bar_date <= latest THEN None ELSE dirty_from

(* Not stale: an older task may not replace a newer publication.            *)
NeverStale(latest) == TRUE
NotStale(latest) == state_through = None \/ state_through <= latest

(* AnalysisService.materialize, nothing to do: only the demand generation   *)
(* is acknowledged.                                                         *)
AcknowledgeDemand(j) ==
    /\ job[j].phase = "collected"
    /\ \E first, latest \in Days :
         /\ IsLeast(first, Completed(job[j].end)) /\ IsGreatest(latest, Completed(job[j].end))
         /\ NotStale(latest)
         /\ ~Rebuild(j) /\ UpToDate(latest, first)
    /\ published_demand_generation' = demand_generation
    /\ job' = [job EXCEPT ![j] = IdleJob]
    /\ UNCHANGED <<provider, marketData, published_revision, demand_key, indicator_through,
                   state_through, snapshot, timeline, sync_generation, demand_generation,
                   last_sync_at, demand, sync>>

(* AnalysisService.materialize, rebuild: indicators, timeline and every     *)
(* watermark in one transaction.                                            *)
Materialize(j) ==
    /\ job[j].phase = "collected"
    /\ \E first, latest \in Days, start \in 0..MaxDay :
         /\ IsLeast(first, Completed(job[j].end)) /\ IsGreatest(latest, Completed(job[j].end))
         /\ NotStale(latest)
         /\ StartDay(j, start, first, latest)
         /\ snapshot' = RebuiltSnapshots(start, latest, Effective(j))
         /\ timeline' = PublishedTimeline(start, latest)
         /\ indicator_through' = latest /\ state_through' = latest
         /\ latest_bar_date' = Later(latest_bar_date, latest)
         /\ dirty_from' = DirtyAfter(latest)
    /\ demand_key' = Effective(j)
    /\ published_revision' = source_revision
    /\ published_demand_generation' = demand_generation
    /\ job' = [job EXCEPT ![j] = IdleJob]
    /\ UNCHANGED <<provider, bars, revision_hash, source_revision, sync_generation,
                   demand_generation, last_sync_at, demand, sync>>

(* A task ends without publishing: no completed bars, stale target, error   *)
(* rolled back, HTTP timeout, lost lease or worker crash.  Its Hub request  *)
(* keeps running.                                                           *)
JobEnds(j) ==
    /\ job[j].phase # "idle"
    /\ job' = [job EXCEPT ![j] = IdleJob]
    /\ UNCHANGED <<provider, marketData, publication, sync_generation, demand_generation,
                   last_sync_at, demand, sync>>

-----------------------------------------------------------------------------
HubStep(j) == \/ SampleRevision(j) \/ FetchBars(j) \/ RecheckRevision(j)
              \/ PersistBars(j) \/ CompleteSync(j) \/ SyncFails(j)

TaskStep(j) == \/ \E end, lo \in Days, force \in BOOLEAN : StartEod(j, end, lo, force)
               \/ \E limit \in 0..MaxDay : StartBootstrap(j, limit)
               \/ EodReady(j)
               \/ AcknowledgeDemand(j) \/ Materialize(j) \/ JobEnds(j)

Environment == \/ \E d \in Days : ProviderPublishes(d)
               \/ \E kept \in SUBSET Traded(feed) : ProviderRestates(kept)
               \/ NextDay
               \/ \E requests \in SUBSET Requests : MarkDemandChanged(requests)

Next == Environment \/ \E j \in Jobs : HubStep(j) \/ TaskStep(j)

Spec == Init /\ [][Next]_vars

-----------------------------------------------------------------------------
(* Properties.                                                              *)

(* Every variable keeps its type: in particular dirty_from, the watermarks  *)
(* and last_sync_at are days of the stream or NULL, and every in-flight     *)
(* request and task is a well-formed record.                                *)
TypeOK ==
    /\ today \in Days /\ edition \in Nat /\ feed \in [Days -> Bar] /\ feed_revision \in Nat
    /\ bars \in [Days -> Bar] /\ revision_hash \in Nat
    /\ source_revision \in Nat /\ sync_generation \in Nat /\ demand_generation \in Nat
    /\ last_sync_at \in 0..MaxDay
    /\ published_revision \in Nat \union {-1}
    /\ published_demand_generation \in Nat \union {-1}
    /\ demand_key \in SUBSET Requests
    /\ dirty_from \in 0..MaxDay /\ latest_bar_date \in 0..MaxDay
    /\ indicator_through \in 0..MaxDay /\ state_through \in 0..MaxDay
    /\ demand \in SUBSET Requests /\ snapshot \in [Days -> Snapshot]
    /\ timeline \in SUBSET Days
    /\ sync \in [Jobs -> Sync] /\ job \in [Jobs -> Job]

(* publication_is_current, the test every reader applies.                   *)
PublicationIsCurrent ==
    \/ source_revision = 0 /\ published_revision < 0
    \/ /\ dirty_from = None
       /\ published_revision = source_revision
       /\ published_demand_generation = demand_generation

(* Whatever sequence of syncs, corrections, rebases, cut-off and forced     *)
(* rebuilds, configuration changes and failures came before: when a reader  *)
(* finds the publication current, the snapshots are exactly those of the    *)
(* stored bars, day by day and with no row for a deleted day, and cover     *)
(* every indicator a table or an enabled rule asks for.                     *)
CurrentIsExact ==
    PublicationIsCurrent =>
        \A d \in Days :
            /\ snapshot[d] = Observation(bars, d, demand_key)
            /\ bars[d] # NoBar => demand \subseteq demand_key

(* While a rebuild is outstanding, dirty_from never lies: the snapshots of  *)
(* all days before it still are exactly what the stored bars give, so a     *)
(* rebuild may start there.                                                 *)
CleanPrefixIsExact ==
    \A d \in Days :
        dirty_from = None \/ d < dirty_from =>
            snapshot[d] = Observation(bars, d, demand_key)

(* Rows of one qfq history never mix two corporate-action revisions, and    *)
(* the stored revision is the one they were computed under, although it is  *)
(* sampled, compared and fetched by separate unlocked calls.                *)
NoMixedRevisions ==
    Qfq => \A d \in Days : bars[d] # NoBar => bars[d].revision = revision_hash

(* A stored day never goes back to an older edition of the provider's       *)
(* record: a slow response may not overwrite what a newer request stored.   *)
BarsNeverRegress ==
    [][\A d \in Days : bars'[d] # NoBar => bars[d].edition <= bars'[d].edition]_vars

(* A stored day disappears only in a history rebase of an authoritative     *)
(* source, even though the missing-day check ran on an earlier read.        *)
NoUnauthorisedDeletion ==
    [][\A d \in Days : bars[d] # NoBar /\ bars'[d] = NoBar => Authoritative]_vars

(* "Historical tasks cannot replace current analysis": the published        *)
(* watermarks move only forward, and a published day keeps its snapshot     *)
(* row unless its bar is gone.                                              *)
WatermarksNeverRegress ==
    [][/\ indicator_through <= indicator_through' /\ state_through <= state_through'
       /\ \A d \in Days : snapshot[d] # NoSnapshot /\ snapshot'[d] = NoSnapshot
                             => bars[d] = NoBar]_vars

(* The rest of the inductive invariant behind CurrentIsExact: the stream    *)
(* row bounds the stored bars, both watermarks agree and bound the rows,    *)
(* an acknowledged demand generation was computed, and an untouched source  *)
(* has no bars.                                                             *)
WatermarksBound ==
    /\ \A d \in Days : bars[d] # NoBar => d <= latest_bar_date
    /\ indicator_through = state_through
    /\ \A d \in Days : indicator_through < d => snapshot[d] = NoSnapshot
DemandAcknowledged ==
    /\ published_demand_generation <= demand_generation
    /\ published_demand_generation = demand_generation => demand \subseteq demand_key
UntouchedIsEmpty ==
    source_revision = 0 => dirty_from = None /\ \A d \in Days : bars[d] = NoBar
PublicationInv == /\ CleanPrefixIsExact /\ WatermarksBound
                  /\ DemandAcknowledged /\ UntouchedIsEmpty

(* The inductive invariant of the fence.  Generations in flight are         *)
(* distinct; the provider's editions and revision bound what was read from  *)
(* it; and while no newer generation is reserved, what a request sampled    *)
(* of the tables before its provider I/O is what they still hold.           *)
GenerationsDistinct ==
    \A j \in Jobs : sync[j].phase # "idle" =>
        /\ sync[j].generation \in 1..sync_generation
        /\ \A k \in Jobs : k # j /\ sync[k].phase # "idle" =>
             sync[k].generation # sync[j].generation
ProviderIsAhead ==
    /\ feed_revision <= edition
    /\ \A d \in Days :
         /\ feed[d].edition <= edition /\ bars[d].edition <= edition
         /\ feed[d] # NoBar =>
              bars[d].edition <= feed[d].edition /\ feed[d].revision = feed_revision
SampleStillHolds(s) ==
    Qfq /\ s.phase \in {"sampled", "fetched", "checked"} /\ s.generation = sync_generation =>
        IF s.full THEN s.existing = Traded(bars)
                  ELSE revision_hash = s.revision \/ Traded(bars) = {}
FetchedRows(s) ==
    s.phase \in {"fetched", "checked"} =>
        /\ s.full => s.existing \subseteq Traded(s.rows) \/ Authoritative
        /\ \A d \in Traded(s.rows) :
             /\ s.generation = sync_generation => bars[d].edition <= s.rows[d].edition
             /\ feed[d] # NoBar => s.rows[d].edition <= feed[d].edition
             /\ s.rows[d].edition <= edition
             /\ Qfq => s.rows[d].revision \in s.revision..feed_revision
             /\ Qfq /\ s.phase = "checked" => s.rows[d].revision = s.revision
RequestInv(s) ==
    /\ SampleStillHolds(s) /\ FetchedRows(s)
    /\ s.revision <= feed_revision
    /\ s.full => Qfq
FenceInv == /\ GenerationsDistinct /\ ProviderIsAhead /\ NoMixedRevisions
            /\ \A j \in Jobs : RequestInv(sync[j])

(* "A historical recomputation replaces the affected range" (and no more):  *)
(* a current publication has a valid state timeline for every stored day.   *)
TimelineIsComplete ==
    PublicationIsCurrent => timeline = Traded(bars)
=============================================================================
