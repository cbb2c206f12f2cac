------------------------- MODULE AnalysisStreamProofs -------------------------
(***************************************************************************)
(* Proofs about AnalysisStream for every number of days, tasks, requests   *)
(* and every bound: type correctness, the exactness of a publication that  *)
(* readers accept as current, and the generation fence under overlapping   *)
(* requests and provider changes.                                          *)
(***************************************************************************)
EXTENDS AnalysisStream, TLAPS

(* The values the types are built from belong to them.                      *)
LEMMA EmptyTypes ==
    /\ NoBar \in Bar /\ EmptyBars \in [Days -> Bar]
    /\ NoSnapshot \in Snapshot
    /\ IdleSync \in Sync /\ IdleJob \in Job
<1>1. NoBar \in Bar BY DEF NoBar, Bar
<1>2. EmptyBars \in [Days -> Bar] BY <1>1 DEF EmptyBars
<1>3. NoSnapshot \in Snapshot BY <1>2 DEF NoSnapshot, Snapshot
<1>4. IdleSync \in Sync
  BY <1>2, ConstantsAssumption DEF IdleSync, Sync, SyncPhases, None
<1>5. IdleJob \in Job BY ConstantsAssumption DEF IdleJob, Job, JobPhases
<1> QED BY <1>1, <1>2, <1>3, <1>4, <1>5

(* An indicator row computed from well-typed bars is well typed.            *)
LEMMA ObservationType ==
    ASSUME NEW b \in [Days -> Bar], NEW d \in Days, NEW r \in SUBSET Requests
    PROVE  Observation(b, d, r) \in Snapshot
BY EmptyTypes DEF Observation, Snapshot

(* Rebuilding a range of rows keeps the table well typed.                   *)
LEMMA RebuiltType ==
    ASSUME TypeOK, NEW start, NEW latest, NEW r \in SUBSET Requests
    PROVE  RebuiltSnapshots(start, latest, r) \in [Days -> Snapshot]
BY ObservationType DEF RebuiltSnapshots, TypeOK

(* A provider response and an upsert are well-typed bar tables.             *)
LEMMA RowsType ==
    ASSUME TypeOK
    PROVE  /\ \A s \in Sync : Response(s) \in [Days -> Bar]
           /\ \A rows \in [Days -> Bar] : Upserted(rows) \in [Days -> Bar]
BY EmptyTypes DEF Response, Upserted, TypeOK, Sync

(* The transaction that changes bars keeps the stream row well typed.       *)
LEMMA InvalidateType ==
    ASSUME TypeOK, NEW changed, NEW latest, InvalidateChanged(changed, latest)
    PROVE  /\ source_revision' \in Nat
           /\ dirty_from' \in 0..MaxDay /\ latest_bar_date' \in 0..MaxDay
BY ConstantsAssumption
   DEF InvalidateChanged, TypeOK, Days, None, Earlier, Later, IsLeast, IsGreatest

(* Starting a Hub request keeps its record and the generation well typed.   *)
LEMMA ReserveType ==
    ASSUME TypeOK, NEW j \in Jobs, NEW lo \in 0..MaxDay, NEW hi \in 0..MaxDay,
           ReserveSync(j, lo, hi)
    PROVE  sync' \in [Jobs -> Sync] /\ sync_generation' \in Nat
<1> DEFINE fresh == [IdleSync EXCEPT !.phase = "reserved", !.lo = lo, !.hi = hi,
                                     !.generation = sync_generation + 1]
<1>1. IdleSync \in Sync /\ sync_generation + 1 \in Nat BY EmptyTypes DEF TypeOK
<1>2. fresh \in Sync BY <1>1 DEF Sync, SyncPhases
<1>3. sync' = [sync EXCEPT ![j] = fresh] /\ sync_generation' = sync_generation + 1
  BY DEF ReserveSync
<1> HIDE DEF fresh
<1> QED BY <1>1, <1>2, <1>3 DEF TypeOK

(* What the Hub's persistence transactions write is well typed.             *)
LEMMA PersistType ==
    ASSUME TypeOK, NEW j \in Jobs, PersistBars(j)
    PROVE  /\ bars' \in [Days -> Bar] /\ revision_hash' \in Nat /\ source_revision' \in Nat
           /\ dirty_from' \in 0..MaxDay /\ latest_bar_date' \in 0..MaxDay
<1>1. sync[j] \in Sync /\ sync[j].rows \in [Days -> Bar] /\ sync[j].revision \in Nat
  BY DEF TypeOK, Sync
<1>2. Upserted(sync[j].rows) \in [Days -> Bar] BY <1>1, RowsType
<1>3. CASE UpsertFenced(j)
  <2>1. bars' \in [Days -> Bar] /\ revision_hash' \in Nat
    BY <1>1, <1>2, <1>3 DEF UpsertFenced, TypeOK
  <2>2. \E changed, latest : InvalidateChanged(changed, latest)
    BY <1>3 DEF UpsertFenced
  <2> QED BY <2>1, <2>2, InvalidateType
<1>4. CASE ReconcileRevision(j)
  <2>1. bars' \in [Days -> Bar] /\ revision_hash' \in Nat
    BY <1>1, <1>2, <1>4 DEF ReconcileRevision
  <2>2. \E changed, latest : InvalidateChanged(changed, latest)
    BY <1>4 DEF ReconcileRevision
  <2> QED BY <2>1, <2>2, InvalidateType
<1>5. CASE NothingToPersist(j)
  BY <1>5 DEF NothingToPersist, marketData, TypeOK
<1> QED BY <1>3, <1>4, <1>5 DEF PersistBars

(* Every step of the Hub keeps the types.                                   *)
LEMMA HubType ==
    ASSUME TypeOK, NEW j \in Jobs, HubStep(j)
    PROVE  TypeOK'
<1>0. sync[j] \in Sync /\ job[j] \in Job /\ IdleSync \in Sync /\ IdleJob \in Job
  BY EmptyTypes DEF TypeOK
<1>1. CASE SampleRevision(j)
  <2>1. sync' \in [Jobs -> Sync]
    <3> DEFINE next == [sync[j] EXCEPT !.phase = "sampled", !.revision = feed_revision,
                             !.full = NeedsRebase,
                             !.existing = IF NeedsRebase THEN Traded(bars) ELSE {}]
    <3>1. NeedsRebase \in BOOLEAN /\ Traded(bars) \in SUBSET Days
      BY DEF NeedsRebase, Traded
    <3>2. next \in Sync BY <1>0, <3>1 DEF Sync, SyncPhases, TypeOK
    <3>3. sync' = [sync EXCEPT ![j] = next] BY <1>1 DEF SampleRevision
    <3> HIDE DEF next
    <3> QED BY <3>2, <3>3 DEF TypeOK
  <2> QED BY <1>1, <2>1 DEF SampleRevision, TypeOK, provider, marketData, publication
<1>2. CASE FetchBars(j)
  <2>1. [sync[j] EXCEPT !.phase = "fetched", !.rows = Response(sync[j])] \in Sync
    BY <1>0, RowsType DEF Sync, SyncPhases
  <2>2. sync' \in [Jobs -> Sync] BY <1>2, <2>1 DEF FetchBars, TypeOK
  <2> QED BY <1>2, <2>2 DEF FetchBars, TypeOK, provider, marketData, publication
<1>3. CASE RecheckRevision(j)
  <2>1. [sync[j] EXCEPT !.phase = "checked"] \in Sync BY <1>0 DEF Sync, SyncPhases
  <2>2. sync' \in [Jobs -> Sync] BY <1>3, <2>1 DEF RecheckRevision, TypeOK
  <2> QED BY <1>3, <2>2 DEF RecheckRevision, TypeOK, provider, marketData, publication
<1>4. CASE PersistBars(j)
  <2>1. [sync[j] EXCEPT !.phase = "persisted"] \in Sync BY <1>0 DEF Sync, SyncPhases
  <2>2. sync' \in [Jobs -> Sync] BY <1>4, <2>1 DEF PersistBars, TypeOK
  <2> QED BY <1>4, <2>2, PersistType DEF PersistBars, TypeOK, provider, publication
<1>5. CASE CompleteSync(j)
  <2>1. AfterSync(job[j], sync[j].full) \in Job
    BY <1>0 DEF AfterSync, Job, JobPhases, Sync
  <2>2. job' \in [Jobs -> Job] BY <1>5, <2>1 DEF CompleteSync, TypeOK
  <2>3. sync' \in [Jobs -> Sync] BY <1>0, <1>5 DEF CompleteSync, TypeOK
  <2>4. last_sync_at' \in 0..MaxDay BY <1>5 DEF CompleteSync, TypeOK, Days
  <2> QED BY <1>5, <2>2, <2>3, <2>4 DEF CompleteSync, TypeOK, provider, marketData, publication
<1>6. CASE SyncFails(j)
  <2>1. sync' \in [Jobs -> Sync] /\ job' \in [Jobs -> Job]
    BY <1>0, <1>6 DEF SyncFails, TypeOK
  <2> QED BY <1>6, <2>1 DEF SyncFails, TypeOK, provider, marketData, publication
<1> QED BY <1>1, <1>2, <1>3, <1>4, <1>5, <1>6 DEF HubStep

(* Every step of a task keeps the types.                                    *)
LEMMA TaskType ==
    ASSUME TypeOK, NEW j \in Jobs, TaskStep(j)
    PROVE  TypeOK'
<1>0. sync[j] \in Sync /\ job[j] \in Job /\ IdleJob \in Job /\ Days \subseteq 0..MaxDay
  BY EmptyTypes DEF TypeOK, Days
<1>1. ASSUME NEW end \in Days, NEW lo \in Days, NEW force \in BOOLEAN,
             StartEod(j, end, lo, force)
      PROVE  TypeOK'
  <2>1. sync' \in [Jobs -> Sync] /\ sync_generation' \in Nat
    BY <1>0, <1>1, ReserveType DEF StartEod
  <2>2. [phase |-> "syncing", kind |-> "eod", end |-> end, requests |-> {},
         force |-> force] \in Job
    BY <1>0 DEF Job, JobPhases
  <2>3. job' \in [Jobs -> Job] BY <1>1, <2>2 DEF StartEod, TypeOK
  <2> QED BY <1>1, <2>1, <2>3 DEF StartEod, TypeOK, provider, marketData, publication
<1>2. ASSUME NEW limit \in 0..MaxDay, StartBootstrap(j, limit) PROVE TypeOK'
  <2> DEFINE end == BootstrapEnd(limit)
             task(phase) == [phase |-> phase, kind |-> "bootstrap", end |-> end,
                             requests |-> demand, force |-> FALSE]
  <2>0. end \in 0..MaxDay
    BY ConstantsAssumption DEF BootstrapEnd, Later, TypeOK, Days
  <2>1. task("syncing") \in Job /\ task("collected") \in Job
    BY <2>0 DEF Job, JobPhases, TypeOK
  <2>2. sync' \in [Jobs -> Sync] /\ sync_generation' \in Nat
    <3>1. CASE ReserveSync(j, 1, end)
      BY <3>1, <2>0, ReserveType, ConstantsAssumption
    <3>2. CASE UNCHANGED <<sync, sync_generation>> BY <3>2 DEF TypeOK
    <3> QED BY <3>1, <3>2, <1>2 DEF StartBootstrap
  <2>3. job' = [job EXCEPT ![j] = task("syncing")] \/ job' = [job EXCEPT ![j] = task("collected")]
    BY <1>2 DEF StartBootstrap
  <2>4. job' \in [Jobs -> Job]
    <3> HIDE DEF task
    <3> QED BY <2>1, <2>3 DEF TypeOK
  <2> QED BY <1>2, <2>2, <2>4 DEF StartBootstrap, TypeOK, provider, marketData, publication
<1>3. CASE EodReady(j)
  <2>1. [job[j] EXCEPT !.phase = "collected", !.requests = demand] \in Job
    BY <1>0 DEF Job, JobPhases, TypeOK
  <2>2. job' \in [Jobs -> Job] BY <1>0, <1>3, <2>1 DEF EodReady, TypeOK
  <2> QED BY <1>3, <2>2 DEF EodReady, TypeOK, provider, marketData, publication
<1>4. CASE AcknowledgeDemand(j)
  <2>1. job' \in [Jobs -> Job] BY <1>0, <1>4 DEF AcknowledgeDemand, TypeOK
  <2> QED BY <1>4, <2>1 DEF AcknowledgeDemand, TypeOK, provider, marketData
<1>5. CASE Materialize(j)
  <2>1. Effective(j) \in SUBSET Requests BY <1>0 DEF Effective, Job, TypeOK
  <2>2. PICK latest \in Days, start \in 0..MaxDay :
          /\ snapshot' = RebuiltSnapshots(start, latest, Effective(j))
          /\ timeline' = PublishedTimeline(start, latest)
          /\ indicator_through' = latest /\ state_through' = latest
          /\ latest_bar_date' = Later(latest_bar_date, latest)
          /\ dirty_from' = DirtyAfter(latest)
    BY <1>5 DEF Materialize
  <2>3. snapshot' \in [Days -> Snapshot] BY <2>1, <2>2, RebuiltType
  <2>4. timeline' \in SUBSET Days
    BY <2>2 DEF PublishedTimeline, Completed, Traded, TypeOK
  <2>5. latest_bar_date' \in 0..MaxDay /\ dirty_from' \in 0..MaxDay
    BY <1>0, <2>2, ConstantsAssumption DEF Later, DirtyAfter, None, TypeOK
  <2>6. indicator_through' \in 0..MaxDay /\ state_through' \in 0..MaxDay
    BY <1>0, <2>2
  <2>7. job' \in [Jobs -> Job] BY <1>0, <1>5 DEF Materialize, TypeOK
  <2>8. demand_key' \in SUBSET Requests BY <1>5, <2>1 DEF Materialize
  <2> QED BY <1>5, <2>3, <2>4, <2>5, <2>6, <2>7, <2>8 DEF Materialize, TypeOK, provider
<1>6. CASE JobEnds(j)
  <2>1. job' \in [Jobs -> Job] BY <1>0, <1>6 DEF JobEnds, TypeOK
  <2> QED BY <1>6, <2>1 DEF JobEnds, TypeOK, provider, marketData, publication
<1> QED BY <1>1, <1>2, <1>3, <1>4, <1>5, <1>6 DEF TaskStep

(* Provider and configuration changes keep the types.                       *)
LEMMA EnvironmentType ==
    ASSUME TypeOK, Environment
    PROVE  TypeOK'
<1>1. ASSUME NEW d \in Days, ProviderPublishes(d) PROVE TypeOK'
  <2>1. feed' \in [Days -> Bar] BY <1>1 DEF ProviderPublishes, TypeOK, Bar
  <2> QED BY <1>1, <2>1 DEF ProviderPublishes, TypeOK, marketData, publication
<1>2. ASSUME NEW kept \in SUBSET Traded(feed), ProviderRestates(kept) PROVE TypeOK'
  <2>1. feed' \in [Days -> Bar] BY <1>2, EmptyTypes DEF ProviderRestates, TypeOK, Bar
  <2> QED BY <1>2, <2>1 DEF ProviderRestates, TypeOK, marketData, publication
<1>3. CASE NextDay
  BY <1>3, ConstantsAssumption DEF NextDay, TypeOK, Days, marketData, publication
<1>4. ASSUME NEW r \in SUBSET Requests, MarkDemandChanged(r) PROVE TypeOK'
  BY <1>4 DEF MarkDemandChanged, TypeOK, provider, marketData, publication
<1> QED BY <1>1, <1>2, <1>3, <1>4 DEF Environment

(* Type correctness of every state any number of overlapping syncs, tasks,  *)
(* restatements and configuration changes can reach.                        *)
THEOREM TypeCorrect == Spec => []TypeOK
<1>1. Init => TypeOK
  BY EmptyTypes, ConstantsAssumption DEF Init, NothingStored, TypeOK, Days, None
<1>2. TypeOK /\ [Next]_vars => TypeOK'
  <2> SUFFICES ASSUME TypeOK, [Next]_vars PROVE TypeOK'
    OBVIOUS
  <2>1. CASE Environment BY <2>1, EnvironmentType
  <2>2. ASSUME NEW j \in Jobs, HubStep(j) PROVE TypeOK' BY <2>2, HubType
  <2>3. ASSUME NEW j \in Jobs, TaskStep(j) PROVE TypeOK' BY <2>3, TaskType
  <2>4. CASE UNCHANGED vars
    BY <2>4 DEF vars, provider, marketData, publication, TypeOK
  <2> QED BY <2>1, <2>2, <2>3, <2>4 DEF Next
<1> QED BY <1>1, <1>2, PTL DEF Spec

-----------------------------------------------------------------------------
(* The variables PublicationInv speaks about.                               *)
published == <<bars, source_revision, dirty_from, latest_bar_date, demand_generation,
               published_demand_generation, demand_key, indicator_through,
               state_through, demand, snapshot>>

(* A snapshot depends on no later bar.                                      *)
LEMMA ObservationPrefix ==
    ASSUME NEW b, NEW c, NEW d \in Days, NEW r,
           \A x \in Days : x <= d => b[x] = c[x]
    PROVE  Observation(b, d, r) = Observation(c, d, r)
<1>1. d <= d BY DEF Days
<1>2. b[d] = c[d] BY <1>1
<1>3. [x \in Days |-> IF x <= d THEN b[x] ELSE NoBar]
        = [x \in Days |-> IF x <= d THEN c[x] ELSE NoBar]
  OBVIOUS
<1> QED BY <1>2, <1>3 DEF Observation

(* Exactly the days without a bar have no snapshot.                         *)
LEMMA ObservationEmpty ==
    ASSUME NEW b, NEW d \in Days, NEW r
    PROVE  Observation(b, d, r) = NoSnapshot <=> b[d] = NoBar
<1>1. ASSUME b[d] # NoBar PROVE Observation(b, d, r) # NoSnapshot
  <2>1. Observation(b, d, r).bars[d] = b[d] BY <1>1 DEF Observation, Days
  <2>2. NoSnapshot.bars[d] = NoBar BY DEF NoSnapshot, EmptyBars
  <2> QED BY <1>1, <2>1, <2>2
<1> QED BY <1>1 DEF Observation

(* A persistence transaction reports every day it changes to                *)
(* invalidate_changed, and every new day to its latest-date argument.       *)
LEMMA PersistReportsChanges ==
    ASSUME TypeOK, NEW j \in Jobs, PersistBars(j)
    PROVE  \E changed, latest \in SUBSET Days :
             /\ changed = {} => UNCHANGED <<source_revision, dirty_from, latest_bar_date>>
             /\ changed # {} => InvalidateChanged(changed, latest)
             /\ \A d \in Days : bars'[d] # bars[d] => d \in changed
             /\ \A d \in Days : bars'[d] # NoBar /\ bars[d] = NoBar => d \in latest
<1> DEFINE rows == sync[j].rows
<1>1. CASE UpsertFenced(j)
  <2> DEFINE revised == Qfq /\ revision_hash # None /\ revision_hash # sync[j].revision
             stored == Traded(Upserted(rows))
             changed == Distinct(rows) \union (IF revised THEN stored ELSE {})
             latest == IF revised THEN stored ELSE Distinct(rows)
  <2>1. InvalidateChanged(changed, latest) /\ bars' = Upserted(rows)
    BY <1>1 DEF UpsertFenced
  <2>2. changed \in SUBSET Days /\ latest \in SUBSET Days BY DEF Distinct, Traded
  <2>3. \A d \in Days : bars'[d] # bars[d] => d \in Distinct(rows)
    BY <2>1 DEF Upserted, Distinct, Traded
  <2>4. \A d \in Days : bars'[d] # NoBar /\ bars[d] = NoBar => d \in latest
    BY <2>1, <2>3 DEF Upserted, Traded
  <2>5. changed = {} => UNCHANGED <<source_revision, dirty_from, latest_bar_date>>
    BY <2>1 DEF InvalidateChanged
  <2> HIDE DEF latest
  <2> QED BY <2>1, <2>2, <2>3, <2>4, <2>5
<1>2. CASE ReconcileRevision(j)
  <2>1. PICK from, to \in Days :
          /\ bars' = [d \in Days |-> IF d \in from..to THEN rows[d] ELSE Upserted(rows)[d]]
          /\ InvalidateChanged(Distinct(rows) \union {from}
                \union {d \in Traded(bars) : d \in from..to /\ rows[d] = NoBar}, Traded(rows))
    BY <1>2 DEF ReconcileRevision
  <2> DEFINE changed == Distinct(rows) \union {from}
                \union {d \in Traded(bars) : d \in from..to /\ rows[d] = NoBar}
  <2>2. changed \in SUBSET Days /\ Traded(rows) \in SUBSET Days BY DEF Distinct, Traded
  <2>3. \A d \in Days : bars'[d] # bars[d] => d \in changed
    BY <2>1 DEF Upserted, Distinct, Traded
  <2>4. \A d \in Days : bars'[d] # NoBar /\ bars[d] = NoBar => d \in Traded(rows)
    BY <2>1 DEF Upserted, Traded
  <2>5. changed # {} OBVIOUS
  <2> QED BY <2>1, <2>2, <2>3, <2>4, <2>5
<1>3. CASE NothingToPersist(j)
  BY <1>3 DEF NothingToPersist, marketData
<1> QED BY <1>1, <1>2, <1>3 DEF PersistBars

(* Changing stored bars keeps the clean prefix exact: what changes is at or *)
(* after the new dirty date.                                                *)
LEMMA PersistKeepsPublication ==
    ASSUME TypeOK, PublicationInv, NEW j \in Jobs, PersistBars(j)
    PROVE  PublicationInv'
<1>1. PICK changed \in SUBSET Days, latest \in SUBSET Days :
             /\ changed = {} => UNCHANGED <<source_revision, dirty_from, latest_bar_date>>
             /\ changed # {} => InvalidateChanged(changed, latest)
             /\ \A d \in Days : bars'[d] # bars[d] => d \in changed
             /\ \A d \in Days : bars'[d] # NoBar /\ bars[d] = NoBar => d \in latest
  BY PersistReportsChanges
<1>2. /\ UNCHANGED <<demand_generation, published_demand_generation, demand_key,
                     indicator_through, state_through, demand, snapshot>>
  BY DEF PersistBars, publication
<1>3. CASE changed = {}
  <2>1. bars' = bars
    BY <1>1, <1>3, PersistType DEF TypeOK
  <2> QED BY <1>1, <1>2, <1>3, <2>1 DEF PublicationInv, CleanPrefixIsExact,
        WatermarksBound, DemandAcknowledged, UntouchedIsEmpty
<1>4. CASE changed # {}
  <2>1. PICK first \in Days, last \in Days :
          /\ source_revision' = source_revision + 1
          /\ IsLeast(first, changed)
          /\ dirty_from' = IF dirty_from = None THEN first ELSE Earlier(dirty_from, first)
          /\ IsGreatest(last, latest)
          /\ latest_bar_date' = Later(latest_bar_date, last)
    BY <1>1, <1>4 DEF InvalidateChanged
  <2>2. /\ dirty_from \in 0..MaxDay /\ latest_bar_date \in 0..MaxDay /\ MaxDay \in Nat
        /\ source_revision \in Nat /\ first \in 1..MaxDay /\ last \in 1..MaxDay
    BY ConstantsAssumption DEF TypeOK, Days
  <2>3. dirty_from' # None /\ dirty_from' <= first
    BY <2>1, <2>2 DEF None, Earlier
  <2>4. ASSUME NEW d \in Days, d < dirty_from'
        PROVE  /\ dirty_from = None \/ d < dirty_from
               /\ \A x \in Days : x <= d => bars'[x] = bars[x]
    <3>1. dirty_from = None \/ d < dirty_from
      BY <2>1, <2>2, <2>4 DEF None, Earlier, Days
    <3>2. \A x \in changed : first <= x BY <2>1 DEF IsLeast
    <3>3. \A x \in Days : x <= d => x \notin changed
      BY <2>1, <2>2, <2>3, <2>4, <3>2 DEF Days, None, Earlier
    <3> QED BY <1>1, <3>1, <3>3
  <2>5. CleanPrefixIsExact'
    <3> SUFFICES ASSUME NEW d \in Days, d < dirty_from'
                 PROVE  snapshot[d] = Observation(bars', d, demand_key)
      BY <1>2, <2>3 DEF CleanPrefixIsExact
    <3>1. snapshot[d] = Observation(bars, d, demand_key)
      BY <2>4 DEF PublicationInv, CleanPrefixIsExact
    <3>2. Observation(bars', d, demand_key) = Observation(bars, d, demand_key)
      BY <2>4, ObservationPrefix
    <3> QED BY <3>1, <3>2
  <2>6. WatermarksBound'
    <3>1. ASSUME NEW d \in Days, bars'[d] # NoBar PROVE d <= latest_bar_date'
      <4>1. CASE bars[d] = NoBar
        BY <1>1, <2>1, <2>2, <3>1, <4>1 DEF IsGreatest, Later, Days
      <4>2. CASE bars[d] # NoBar
        <5>1. d <= latest_bar_date BY <4>2 DEF PublicationInv, WatermarksBound
        <5> QED BY <5>1, <2>1, <2>2 DEF Later, Days
      <4> QED BY <4>1, <4>2
    <3> QED BY <1>2, <3>1 DEF PublicationInv, WatermarksBound
  <2>7. DemandAcknowledged' BY <1>2 DEF PublicationInv, DemandAcknowledged
  <2>8. UntouchedIsEmpty' BY <2>1, <2>2 DEF UntouchedIsEmpty
  <2> QED BY <2>5, <2>6, <2>7, <2>8 DEF PublicationInv
<1> QED BY <1>3, <1>4

(* A rebuild makes every day it covers exact; before its start the old      *)
(* prefix was exact under the same requests, and beyond its cutoff there    *)
(* are no rows.                                                             *)
LEMMA MaterializeKeepsPublication ==
    ASSUME TypeOK, PublicationInv, NEW j \in Jobs, Materialize(j)
    PROVE  PublicationInv'
<1>1. PICK first \in Days, latest \in Days, start \in 0..MaxDay :
         /\ NotStale(latest)
         /\ StartDay(j, start, first, latest)
         /\ snapshot' = RebuiltSnapshots(start, latest, Effective(j))
         /\ indicator_through' = latest /\ state_through' = latest
         /\ latest_bar_date' = Later(latest_bar_date, latest)
         /\ dirty_from' = DirtyAfter(latest)
  BY DEF Materialize
<1>2. /\ demand_key' = Effective(j) /\ published_demand_generation' = demand_generation
      /\ UNCHANGED <<bars, source_revision, demand_generation, demand>>
  BY DEF Materialize
<1>3. /\ dirty_from \in 0..MaxDay /\ latest_bar_date \in 0..MaxDay /\ MaxDay \in Nat
      /\ indicator_through \in 0..MaxDay /\ Days = 1..MaxDay
      /\ demand_generation \in Nat
  BY ConstantsAssumption DEF TypeOK, Days
<1>4. ASSUME NEW d \in Days, latest < d PROVE snapshot[d] = NoSnapshot
  <2>1. indicator_through < d
    BY <1>1, <1>3, <1>4 DEF NotStale, None, PublicationInv, WatermarksBound
  <2> QED BY <2>1 DEF PublicationInv, WatermarksBound
<1>5. \A d \in Days : snapshot'[d] = IF start <= d /\ d <= latest
                        THEN Observation(bars, d, Effective(j)) ELSE snapshot[d]
  BY <1>1 DEF RebuiltSnapshots
<1>6. CleanPrefixIsExact'
  <2> SUFFICES ASSUME NEW d \in Days, dirty_from' = None \/ d < dirty_from'
               PROVE  snapshot'[d] = Observation(bars, d, Effective(j))
    BY <1>2 DEF CleanPrefixIsExact
  <2>1. CASE start <= d /\ d <= latest BY <2>1, <1>5
  <2>2. CASE ~(start <= d)
    <3>1. start # None BY <1>3, <2>2 DEF None
    <3>2. ~Rebuild(j) /\ (dirty_from = None \/ d < dirty_from)
      BY <1>1, <1>3, <2>2, <3>1 DEF StartDay
    <3>3. snapshot[d] = Observation(bars, d, demand_key)
      BY <3>2 DEF PublicationInv, CleanPrefixIsExact
    <3>4. demand_key = Effective(j) BY <3>2 DEF Rebuild
    <3> QED BY <1>5, <2>2, <3>3, <3>4
  <2>3. CASE latest < d
    <3>1. snapshot[d] = NoSnapshot /\ snapshot'[d] = NoSnapshot
      BY <1>3, <1>4, <1>5, <2>3
    <3>2. bars[d] = NoBar
      <4>1. CASE latest_bar_date <= latest
        BY <1>3, <2>3, <4>1 DEF PublicationInv, WatermarksBound
      <4>2. CASE ~(latest_bar_date <= latest)
        <5>1. dirty_from = None \/ d < dirty_from BY <1>1, <4>2 DEF DirtyAfter
        <5>2. NoSnapshot = Observation(bars, d, demand_key)
          BY <3>1, <5>1 DEF PublicationInv, CleanPrefixIsExact
        <5> QED BY <5>2, ObservationEmpty
      <4> QED BY <4>1, <4>2
    <3> QED BY <3>1, <3>2, ObservationEmpty
  <2> QED BY <1>3, <2>1, <2>2, <2>3
<1>7. WatermarksBound'
  <2>1. \A d \in Days : bars[d] # NoBar => d <= latest_bar_date'
    BY <1>1, <1>3 DEF PublicationInv, WatermarksBound, Later
  <2>2. \A d \in Days : latest < d => snapshot'[d] = NoSnapshot
    BY <1>3, <1>4, <1>5
  <2> QED BY <1>1, <1>2, <2>1, <2>2 DEF WatermarksBound
<1>8. DemandAcknowledged' BY <1>2, <1>3 DEF DemandAcknowledged, Effective
<1>9. UntouchedIsEmpty'
  BY <1>1, <1>2 DEF PublicationInv, UntouchedIsEmpty, DirtyAfter
<1> QED BY <1>6, <1>7, <1>8, <1>9 DEF PublicationInv

(* Acknowledging a configuration change without computing anything is sound *)
(* because the key already holds every request.                             *)
LEMMA AcknowledgeKeepsPublication ==
    ASSUME TypeOK, PublicationInv, NEW j \in Jobs, AcknowledgeDemand(j)
    PROVE  PublicationInv'
<1>1. demand \subseteq demand_key BY DEF AcknowledgeDemand, Rebuild, Effective
<1>2. /\ published_demand_generation' = demand_generation
      /\ UNCHANGED <<bars, source_revision, dirty_from, latest_bar_date, demand_generation,
                     demand_key, indicator_through, state_through, demand, snapshot>>
  BY DEF AcknowledgeDemand, marketData
<1>3. DemandAcknowledged' BY <1>1, <1>2 DEF DemandAcknowledged, TypeOK
<1> QED BY <1>2, <1>3 DEF PublicationInv, CleanPrefixIsExact, WatermarksBound,
                          UntouchedIsEmpty

(* A configuration change makes the generation newer than the published one. *)
LEMMA DemandKeepsPublication ==
    ASSUME TypeOK, PublicationInv, NEW r \in SUBSET Requests, MarkDemandChanged(r)
    PROVE  PublicationInv'
<1>1. /\ demand_generation' = demand_generation + 1
      /\ UNCHANGED <<bars, source_revision, dirty_from, latest_bar_date, demand_key,
                     published_demand_generation, indicator_through, state_through, snapshot>>
  BY DEF MarkDemandChanged, marketData, publication
<1>2. DemandAcknowledged' BY <1>1 DEF PublicationInv, DemandAcknowledged, TypeOK
<1> QED BY <1>1, <1>2 DEF PublicationInv, CleanPrefixIsExact, WatermarksBound,
                          UntouchedIsEmpty

(* The publication invariant holds in every reachable state.                *)
THEOREM PublicationInvariant == Spec => []PublicationInv
<1>1. Init => PublicationInv
  <2> SUFFICES ASSUME Init PROVE PublicationInv
    OBVIOUS
  <2>1. \A d \in Days : bars[d] = NoBar /\ snapshot[d] = NoSnapshot
    BY DEF Init, NothingStored, EmptyBars
  <2>2. CleanPrefixIsExact BY <2>1, ObservationEmpty DEF CleanPrefixIsExact
  <2> QED BY <2>1, <2>2 DEF Init, NothingStored, PublicationInv, WatermarksBound, DemandAcknowledged,
                            UntouchedIsEmpty
<1>2. TypeOK /\ PublicationInv /\ [Next]_vars => PublicationInv'
  <2> SUFFICES ASSUME TypeOK, PublicationInv, [Next]_vars PROVE PublicationInv'
    OBVIOUS
  <2>0. ASSUME UNCHANGED published PROVE PublicationInv'
    BY <2>0 DEF published, PublicationInv, CleanPrefixIsExact, WatermarksBound,
                DemandAcknowledged, UntouchedIsEmpty
  <2>1. CASE Environment
    <3>1. ASSUME NEW d \in Days, ProviderPublishes(d) PROVE UNCHANGED published
      BY <3>1 DEF ProviderPublishes, published, marketData, publication
    <3>2. ASSUME NEW kept \in SUBSET Traded(feed), ProviderRestates(kept)
          PROVE  UNCHANGED published
      BY <3>2 DEF ProviderRestates, published, marketData, publication
    <3>3. CASE NextDay BY <2>0, <3>3 DEF NextDay, published, marketData, publication
    <3> QED BY <2>0, <2>1, <3>1, <3>2, <3>3, DemandKeepsPublication DEF Environment
  <2>2. ASSUME NEW j \in Jobs, HubStep(j) PROVE PublicationInv'
    <3>1. SampleRevision(j) \/ FetchBars(j) \/ RecheckRevision(j) => UNCHANGED published
      BY DEF SampleRevision, FetchBars, RecheckRevision, published, marketData, publication
    <3>2. CompleteSync(j) \/ SyncFails(j) => UNCHANGED published
      BY DEF CompleteSync, SyncFails, published, marketData, publication
    <3> QED BY <2>0, <2>2, <3>1, <3>2, PersistKeepsPublication DEF HubStep
  <2>3. ASSUME NEW j \in Jobs, TaskStep(j) PROVE PublicationInv'
    <3>1. ASSUME NEW end, NEW lo, NEW force, StartEod(j, end, lo, force)
          PROVE  UNCHANGED published
      BY <3>1 DEF StartEod, published, marketData, publication
    <3>2. EodReady(j) \/ JobEnds(j) => UNCHANGED published
      BY DEF EodReady, JobEnds, published, marketData, publication
    <3>3. ASSUME NEW limit, StartBootstrap(j, limit) PROVE UNCHANGED published
      BY <3>3 DEF StartBootstrap, published, marketData, publication
    <3> QED BY <2>0, <2>3, <3>1, <3>2, <3>3, AcknowledgeKeepsPublication,
               MaterializeKeepsPublication DEF TaskStep
  <2>4. CASE UNCHANGED vars
    BY <2>0, <2>4 DEF vars, published, marketData, publication
  <2> QED BY <2>1, <2>2, <2>3, <2>4 DEF Next
<1> QED BY <1>1, <1>2, TypeCorrect, PTL DEF Spec

(* What every reader relies on: a publication accepted as current is        *)
(* exactly the one the stored bars and the configured demand give, for any  *)
(* number of overlapping tasks, days and requests.                          *)
THEOREM CurrentPublicationIsExact == Spec => []CurrentIsExact
<1>1. TypeOK /\ PublicationInv => CurrentIsExact
  <2> SUFFICES ASSUME TypeOK, PublicationInv, PublicationIsCurrent, NEW d \in Days
               PROVE  /\ snapshot[d] = Observation(bars, d, demand_key)
                      /\ bars[d] # NoBar => demand \subseteq demand_key
    BY DEF CurrentIsExact
  <2>1. dirty_from = None
    BY DEF PublicationIsCurrent, PublicationInv, UntouchedIsEmpty
  <2>2. snapshot[d] = Observation(bars, d, demand_key)
    BY <2>1 DEF PublicationInv, CleanPrefixIsExact
  <2>3. bars[d] # NoBar => demand \subseteq demand_key
    BY DEF PublicationIsCurrent, PublicationInv, UntouchedIsEmpty, DemandAcknowledged
  <2> QED BY <2>2, <2>3
<1> QED BY <1>1, TypeCorrect, PublicationInvariant, PTL

(* The dirty date never lies: everything before it may be kept.             *)
THEOREM CleanPrefixStaysExact == Spec => []CleanPrefixIsExact
<1>1. PublicationInv => CleanPrefixIsExact BY DEF PublicationInv
<1> QED BY <1>1, PublicationInvariant, PTL

(* A task for an earlier date never pulls a publication back, whatever it   *)
(* read before it got the row lock.                                         *)
THEOREM WatermarksOnlyAdvance == Spec => WatermarksNeverRegress
<1> DEFINE advance ==
      /\ indicator_through <= indicator_through' /\ state_through <= state_through'
      /\ \A d \in Days : snapshot[d] # NoSnapshot /\ snapshot'[d] = NoSnapshot
                            => bars[d] = NoBar
<1>1. TypeOK /\ PublicationInv /\ [Next]_vars => [advance]_vars
  <2> SUFFICES ASSUME TypeOK, PublicationInv, Next PROVE advance
    OBVIOUS
  <2>0. ASSUME UNCHANGED <<indicator_through, state_through, snapshot>> PROVE advance
    BY <2>0 DEF TypeOK
  <2>1. CASE Environment
    BY <2>0, <2>1 DEF Environment, ProviderPublishes, ProviderRestates, NextDay,
                      MarkDemandChanged, publication
  <2>2. ASSUME NEW j \in Jobs, HubStep(j) PROVE advance
    BY <2>0, <2>2 DEF HubStep, SampleRevision, FetchBars, RecheckRevision, PersistBars,
                      CompleteSync, SyncFails, publication
  <2>3. ASSUME NEW j \in Jobs, TaskStep(j), ~Materialize(j) PROVE advance
    BY <2>0, <2>3 DEF TaskStep, StartEod, StartBootstrap, EodReady, AcknowledgeDemand,
                      JobEnds, publication
  <2>4. ASSUME NEW j \in Jobs, Materialize(j) PROVE advance
    <3>1. PICK latest \in Days, start \in 0..MaxDay :
            /\ NotStale(latest)
            /\ snapshot' = RebuiltSnapshots(start, latest, Effective(j))
            /\ indicator_through' = latest /\ state_through' = latest
      BY <2>4 DEF Materialize
    <3>2. state_through <= latest /\ indicator_through = state_through
      BY <3>1, ConstantsAssumption DEF NotStale, None, TypeOK, Days, PublicationInv,
                                       WatermarksBound
    <3>3. ASSUME NEW d \in Days, snapshot[d] # NoSnapshot, snapshot'[d] = NoSnapshot
          PROVE  bars[d] = NoBar
      <4>1. snapshot'[d] = Observation(bars, d, Effective(j))
        BY <3>1, <3>3 DEF RebuiltSnapshots
      <4> QED BY <3>3, <4>1, ObservationEmpty
    <3> QED BY <3>1, <3>2, <3>3
  <2> QED BY <2>1, <2>2, <2>3, <2>4 DEF Next
<1>2. WatermarksNeverRegress <=> [][advance]_vars BY DEF WatermarksNeverRegress
<1> QED BY <1>1, <1>2, TypeCorrect, PublicationInvariant, PTL DEF Spec

-----------------------------------------------------------------------------
(* The generation fence of the Hub: what a request sampled before its      *)
(* unlocked provider I/O is still true when it persists, so no stored bar  *)
(* regresses, mixes revisions or is deleted without authority.             *)

(* The variables the fence invariant speaks about.                          *)
fenced == <<edition, feed, feed_revision, bars, revision_hash, sync_generation>>

(* A step of one request that leaves tables and provider alone keeps the    *)
(* invariant when the request's new record satisfies it.                    *)
LEMMA RequestStep ==
    ASSUME TypeOK, FenceInv, NEW j \in Jobs, NEW x \in Sync,
           sync' = [sync EXCEPT ![j] = x], UNCHANGED fenced, RequestInv(x),
           x.phase # "idle" =>
               sync[j].phase # "idle" /\ x.generation = sync[j].generation
    PROVE  FenceInv'
<1>1. \A k \in Jobs : sync'[k] = IF k = j THEN x ELSE sync[k] BY DEF TypeOK
<1>2. GenerationsDistinct'
  BY <1>1 DEF FenceInv, GenerationsDistinct, fenced
<1>3. ProviderIsAhead' /\ NoMixedRevisions'
  BY DEF FenceInv, ProviderIsAhead, NoMixedRevisions, fenced
<1>4. ASSUME NEW k \in Jobs PROVE RequestInv(sync[k])'
  <2>1. RequestInv(sync'[k]) BY <1>1 DEF FenceInv
  <2> QED BY <2>1 DEF RequestInv, SampleStillHolds, FetchedRows, Traded, fenced
<1> QED BY <1>2, <1>3, <1>4 DEF FenceInv

(* A step that touches none of it keeps the invariant.                      *)
LEMMA FenceStutter ==
    ASSUME FenceInv, UNCHANGED <<fenced, sync>>
    PROVE  FenceInv'
BY DEF FenceInv, GenerationsDistinct, ProviderIsAhead, NoMixedRevisions, RequestInv,
       SampleStillHolds, FetchedRows, Traded, fenced

(* Reserving a generation turns every request in flight into a stale one.   *)
LEMMA ReserveKeepsFence ==
    ASSUME TypeOK, FenceInv, NEW j \in Jobs, NEW lo \in 0..MaxDay, NEW hi \in 0..MaxDay,
           ReserveSync(j, lo, hi),
           UNCHANGED <<edition, feed, feed_revision, bars, revision_hash>>
    PROVE  FenceInv'
<1> DEFINE fresh == [IdleSync EXCEPT !.phase = "reserved", !.lo = lo, !.hi = hi,
                                     !.generation = sync_generation + 1]
<1>0. /\ fresh.phase = "reserved" /\ fresh.generation = sync_generation + 1
      /\ fresh.revision = 0 /\ fresh.full = FALSE
  BY DEF IdleSync, None
<1>1. \A k \in Jobs : sync'[k] = IF k = j THEN fresh ELSE sync[k]
  BY DEF ReserveSync, TypeOK
<1>2. sync_generation' = sync_generation + 1 /\ sync_generation \in Nat
  BY DEF ReserveSync, TypeOK
<1> HIDE DEF fresh
<1>3. GenerationsDistinct'
  BY <1>0, <1>1, <1>2 DEF FenceInv, GenerationsDistinct
<1>4. ProviderIsAhead' /\ NoMixedRevisions'
  BY DEF FenceInv, ProviderIsAhead, NoMixedRevisions
<1>5. ASSUME NEW k \in Jobs PROVE RequestInv(sync[k])'
  <2>1. CASE k = j
    BY <1>0, <1>1, <2>1 DEF RequestInv, SampleStillHolds, FetchedRows, TypeOK
  <2>2. CASE k # j
    <3>1. sync'[k] = sync[k] /\ sync[k] \in Sync BY <1>1, <2>2 DEF TypeOK
    <3>2. sync[k].phase # "idle" => sync[k].generation # sync_generation'
      BY <1>2 DEF FenceInv, GenerationsDistinct
    <3>3. RequestInv(sync[k]) BY DEF FenceInv
    <3> QED BY <3>1, <3>2, <3>3
            DEF RequestInv, SampleStillHolds, FetchedRows, Traded
  <2> QED BY <2>1, <2>2
<1> QED BY <1>3, <1>4, <1>5 DEF FenceInv

(* A correction or restatement only moves the provider ahead of what was    *)
(* read from it.                                                            *)
LEMMA ProviderKeepsFence ==
    ASSUME TypeOK, FenceInv,
           edition' = edition + 1, feed_revision' \in {feed_revision, edition + 1},
           \A d \in Days : feed'[d] # NoBar =>
               \/ feed'[d] = [edition |-> edition + 1, revision |-> feed_revision']
               \/ feed'[d] = feed[d] /\ feed_revision' = feed_revision,
           UNCHANGED <<bars, revision_hash, sync_generation, sync>>
    PROVE  FenceInv'
<1>0. /\ edition \in Nat /\ feed_revision \in Nat /\ feed_revision <= feed_revision'
      /\ \A d \in Days : feed[d].edition \in Nat /\ bars[d].edition \in Nat
  BY DEF TypeOK, FenceInv, ProviderIsAhead, Bar
<1>1. ProviderIsAhead'
  BY <1>0 DEF FenceInv, ProviderIsAhead, NoBar
<1>2. GenerationsDistinct' /\ NoMixedRevisions'
  BY DEF FenceInv, GenerationsDistinct, NoMixedRevisions
<1>3. ASSUME NEW k \in Jobs PROVE RequestInv(sync[k])'
  <2>1. RequestInv(sync[k]) /\ sync[k] \in Sync /\ sync'[k] = sync[k]
    BY DEF FenceInv, TypeOK
  <2>2. SampleStillHolds(sync[k])'
    BY <2>1 DEF RequestInv, SampleStillHolds, Traded
  <2>3. FetchedRows(sync[k])'
    <3> SUFFICES ASSUME sync[k].phase \in {"fetched", "checked"}, NEW d \in Traded(sync[k].rows)
                 PROVE  /\ feed'[d] # NoBar => sync[k].rows[d].edition <= feed'[d].edition
                        /\ sync[k].rows[d].edition <= edition'
                        /\ Qfq => sync[k].rows[d].revision \in sync[k].revision..feed_revision'
      BY <2>1 DEF RequestInv, FetchedRows, Traded
    <3>1. sync[k].rows[d] \in Bar /\ sync[k].revision \in Nat /\ d \in Days
      BY <2>1 DEF Sync, Traded
    <3>2. /\ feed[d] # NoBar => sync[k].rows[d].edition <= feed[d].edition
          /\ sync[k].rows[d].edition <= edition
          /\ Qfq => sync[k].rows[d].revision \in sync[k].revision..feed_revision
      BY <2>1 DEF RequestInv, FetchedRows
    <3> QED BY <1>0, <3>1, <3>2 DEF Bar
  <2> QED BY <1>0, <2>1, <2>2, <2>3 DEF RequestInv, Sync
<1> QED BY <1>1, <1>2, <1>3 DEF FenceInv

(* What a persistence transaction does to a day: it stores the fetched row, *)
(* keeps the stored one, or, in a rebase only, deletes it.                  *)
LEMMA PersistedDay ==
    ASSUME TypeOK, FenceInv, NEW j \in Jobs, PersistBars(j), NEW d \in Days
    PROVE  \/ d \in Traded(sync[j].rows) /\ bars'[d] = sync[j].rows[d] /\ FenceHolds(j)
           \/ bars'[d] = bars[d]
           \/ /\ d \notin Traded(sync[j].rows) /\ bars'[d] = NoBar
              /\ sync[j].full /\ FenceHolds(j)
<1>1. CASE UpsertFenced(j) BY <1>1 DEF UpsertFenced, Upserted, Traded
<1>2. CASE ReconcileRevision(j) BY <1>2 DEF ReconcileRevision, Upserted, Traded
<1>3. CASE NothingToPersist(j) BY <1>3 DEF NothingToPersist, marketData
<1> QED BY <1>1, <1>2, <1>3 DEF PersistBars

(* The invariant of a request about to persist.                             *)
LEMMA AboutToPersist ==
    ASSUME TypeOK, FenceInv, NEW j \in Jobs, ReadyToPersist(j)
    PROVE  /\ sync[j] \in Sync /\ sync[j].phase \in {"fetched", "checked"}
           /\ Qfq => sync[j].phase = "checked"
           /\ RequestInv(sync[j])
BY DEF ReadyToPersist, FenceInv, TypeOK

(* A persisted day is never an older edition than the stored one, nor ahead *)
(* of the provider.                                                         *)
LEMMA PersistKeepsOrder ==
    ASSUME TypeOK, FenceInv, NEW j \in Jobs, PersistBars(j), NEW d \in Days
    PROVE  /\ bars'[d] # NoBar => bars[d].edition <= bars'[d].edition
           /\ bars'[d].edition <= edition
           /\ feed[d] # NoBar => bars'[d].edition <= feed[d].edition
<1>0. bars[d].edition \in Nat /\ feed[d].edition \in Nat /\ edition \in Nat
  BY DEF TypeOK, Bar
<1>1. ASSUME d \in Traded(sync[j].rows), FenceHolds(j)
      PROVE  /\ bars[d].edition <= sync[j].rows[d].edition
             /\ sync[j].rows[d].edition <= edition
             /\ feed[d] # NoBar => sync[j].rows[d].edition <= feed[d].edition
  BY <1>1, AboutToPersist DEF PersistBars, RequestInv, FetchedRows, FenceHolds
<1>2. /\ bars[d].edition <= edition
      /\ feed[d] # NoBar => bars[d].edition <= feed[d].edition
  BY DEF FenceInv, ProviderIsAhead
<1>3. NoBar.edition = 0 BY DEF NoBar
<1> QED BY <1>0, <1>1, <1>2, <1>3, PersistedDay

(* A day is deleted only with the source's authority: the coverage checked  *)
(* before the transaction is the one it replaces.                           *)
LEMMA PersistDeletesWithAuthority ==
    ASSUME TypeOK, FenceInv, NEW j \in Jobs, PersistBars(j), NEW d \in Days,
           bars[d] # NoBar, bars'[d] = NoBar
    PROVE  Authoritative
<1>1. d \notin Traded(sync[j].rows) /\ sync[j].full /\ FenceHolds(j)
  BY PersistedDay DEF Traded
<1>2. sync[j].existing = Traded(bars)
  BY <1>1, AboutToPersist DEF PersistBars, RequestInv, SampleStillHolds, FenceHolds
<1>3. sync[j].existing \subseteq Traded(sync[j].rows) \/ Authoritative
  BY <1>1, AboutToPersist DEF PersistBars, RequestInv, FetchedRows
<1> QED BY <1>1, <1>2, <1>3 DEF Traded

(* Fetched and kept rows of a qfq history are of the revision stored with   *)
(* them: a partial upsert met the revision it sampled, a rebase leaves no   *)
(* older row behind.                                                        *)
LEMMA PersistKeepsRevision ==
    ASSUME TypeOK, FenceInv, NEW j \in Jobs, PersistBars(j)
    PROVE  NoMixedRevisions'
<1> SUFFICES ASSUME Qfq, NEW d \in Days, bars'[d] # NoBar
             PROVE  bars'[d].revision = revision_hash'
  BY DEF NoMixedRevisions
<1>0. /\ sync[j].phase = "checked" /\ RequestInv(sync[j])
      /\ \A x \in Traded(sync[j].rows) : sync[j].rows[x].revision = sync[j].revision
  BY AboutToPersist DEF PersistBars, RequestInv, FetchedRows
<1>1. CASE UpsertFenced(j)
  <2>1. revision_hash' = sync[j].revision BY <1>1 DEF UpsertFenced
  <2>2. CASE d \in Traded(sync[j].rows)
    <3>1. bars'[d] = sync[j].rows[d] BY <1>1, <2>2 DEF UpsertFenced, Upserted, Traded
    <3> QED BY <1>0, <2>1, <2>2, <3>1
  <2>3. CASE d \notin Traded(sync[j].rows)
    <3>1. bars'[d] = bars[d] BY <1>1, <2>3 DEF UpsertFenced, Upserted, Traded
    <3>2. revision_hash = sync[j].revision \/ Traded(bars) = {}
      BY <1>0, <1>1 DEF UpsertFenced, RequestInv, SampleStillHolds, FenceHolds
    <3>3. bars[d].revision = revision_hash BY <3>1 DEF FenceInv, NoMixedRevisions
    <3> QED BY <2>1, <3>1, <3>2, <3>3 DEF Traded
  <2> QED BY <2>2, <2>3
<1>2. CASE ReconcileRevision(j)
  <2>1. revision_hash' = sync[j].revision BY <1>2 DEF ReconcileRevision
  <2>2. sync[j].existing = Traded(bars)
    BY <1>0, <1>2 DEF ReconcileRevision, RequestInv, SampleStillHolds, FenceHolds
  <2>3. d \in Traded(sync[j].rows) /\ bars'[d] = sync[j].rows[d]
    <3> DEFINE coverage == IF sync[j].existing = {} THEN Traded(sync[j].rows)
                                                    ELSE sync[j].existing
    <3>1. PICK from, to \in Days :
            /\ IsLeast(from, coverage) /\ IsGreatest(to, coverage)
            /\ bars' = [x \in Days |-> IF x \in from..to THEN sync[j].rows[x]
                                       ELSE Upserted(sync[j].rows)[x]]
      BY <1>2 DEF ReconcileRevision
    <3>2. CASE d \in from..to BY <3>1, <3>2 DEF Traded
    <3>3. CASE d \notin from..to
      <4>1. d \notin coverage BY <3>1, <3>3 DEF IsLeast, IsGreatest, Days
      <4>2. bars'[d] = Upserted(sync[j].rows)[d] BY <3>1, <3>3
      <4>3. bars[d] = NoBar BY <2>2, <4>1 DEF Traded
      <4> QED BY <4>2, <4>3 DEF Upserted, Traded
    <3> QED BY <3>2, <3>3
  <2> QED BY <1>0, <2>1, <2>3
<1>3. CASE NothingToPersist(j)
  BY <1>3 DEF NothingToPersist, marketData, FenceInv, NoMixedRevisions
<1> QED BY <1>1, <1>2, <1>3 DEF PersistBars

(* The persistence transaction keeps the invariant: every other request in  *)
(* flight is stale, so nothing it sampled is relied on.                     *)
LEMMA PersistKeepsFence ==
    ASSUME TypeOK, FenceInv, NEW j \in Jobs, PersistBars(j)
    PROVE  FenceInv'
<1>0. UNCHANGED <<edition, feed, feed_revision, sync_generation>>
  BY DEF PersistBars, provider
<1>1. /\ sync[j] \in Sync /\ sync[j].phase # "idle" /\ sync[j].revision <= feed_revision
      /\ sync[j].full => Qfq
  BY AboutToPersist DEF PersistBars, RequestInv
<1>2. /\ sync'[j].phase = "persisted" /\ sync'[j].generation = sync[j].generation
      /\ sync'[j].revision = sync[j].revision /\ sync'[j].full = sync[j].full
      /\ \A k \in Jobs : k # j => sync'[k] = sync[k]
  BY <1>1 DEF PersistBars, TypeOK, Sync
<1>3. GenerationsDistinct'
  BY <1>0, <1>1, <1>2 DEF FenceInv, GenerationsDistinct
<1>4. ProviderIsAhead'
  BY <1>0, PersistKeepsOrder DEF FenceInv, ProviderIsAhead
<1>5. ASSUME NEW k \in Jobs PROVE RequestInv(sync[k])'
  <2>1. CASE k = j
    BY <1>0, <1>1, <1>2, <2>1 DEF RequestInv, SampleStillHolds, FetchedRows
  <2>2. CASE k # j /\ NothingToPersist(j)
    <3>1. RequestInv(sync[k]) /\ sync'[k] = sync[k] BY <1>2, <2>2 DEF FenceInv
    <3>2. UNCHANGED <<bars, revision_hash>> BY <2>2 DEF NothingToPersist, marketData
    <3> QED BY <1>0, <3>1, <3>2
            DEF RequestInv, SampleStillHolds, FetchedRows, Traded
  <2>3. CASE k # j /\ ~NothingToPersist(j)
    <3>1. FenceHolds(j) BY <2>3 DEF PersistBars, UpsertFenced, ReconcileRevision
    <3>2. sync[k].phase # "idle" => sync[k].generation # sync_generation
      BY <1>1, <2>3, <3>1 DEF FenceInv, GenerationsDistinct, FenceHolds
    <3>3. RequestInv(sync[k]) /\ sync'[k] = sync[k] BY <1>2, <2>3 DEF FenceInv
    <3> QED BY <1>0, <3>2, <3>3
            DEF RequestInv, SampleStillHolds, FetchedRows, Traded
  <2> QED BY <2>1, <2>2, <2>3
<1> QED BY <1>3, <1>4, <1>5, PersistKeepsRevision DEF FenceInv

(* Sampling reads the tables after the reservation, so under the fence.     *)
LEMMA SampleKeepsFence ==
    ASSUME TypeOK, FenceInv, NEW j \in Jobs, SampleRevision(j)
    PROVE  FenceInv'
<1> DEFINE x == [sync[j] EXCEPT !.phase = "sampled", !.revision = feed_revision,
                     !.full = NeedsRebase,
                     !.existing = IF NeedsRebase THEN Traded(bars) ELSE {}]
<1>0. sync[j] \in Sync /\ feed_revision \in Nat BY DEF TypeOK
<1>1. /\ x.phase = "sampled" /\ x.revision = feed_revision /\ x.full = NeedsRebase
      /\ x.existing = IF NeedsRebase THEN Traded(bars) ELSE {}
      /\ x.generation = sync[j].generation
  BY <1>0 DEF Sync
<1>2. x \in Sync
  BY <1>0 DEF Sync, SyncPhases, NeedsRebase, Traded
<1>3. /\ sync[j].phase # "idle" /\ Qfq /\ UNCHANGED fenced
      /\ sync' = [sync EXCEPT ![j] = x]
  BY DEF SampleRevision, fenced, provider, marketData
<1> HIDE DEF x
<1>4. SampleStillHolds(x)
  BY <1>1 DEF SampleStillHolds, NeedsRebase
<1>5. RequestInv(x)
  BY <1>0, <1>1, <1>3, <1>4 DEF RequestInv, FetchedRows
<1> QED BY <1>1, <1>2, <1>3, <1>5, RequestStep

(* A response is at least as new as what is stored and of the provider's    *)
(* revision at that moment.                                                 *)
LEMMA FetchKeepsFence ==
    ASSUME TypeOK, FenceInv, NEW j \in Jobs, FetchBars(j)
    PROVE  FenceInv'
<1> DEFINE r == Response(sync[j])
           x == [sync[j] EXCEPT !.phase = "fetched", !.rows = r]
<1>0. sync[j] \in Sync /\ r \in [Days -> Bar] /\ RequestInv(sync[j])
  BY RowsType DEF TypeOK, FenceInv
<1>1. /\ x.phase = "fetched" /\ x.rows = r /\ x.generation = sync[j].generation
      /\ x.revision = sync[j].revision /\ x.full = sync[j].full
      /\ x.existing = sync[j].existing
  BY <1>0 DEF Sync
<1>2. x \in Sync BY <1>0 DEF Sync, SyncPhases
<1>3. /\ sync[j].phase # "idle" /\ UNCHANGED fenced /\ sync' = [sync EXCEPT ![j] = x]
      /\ Qfq => sync[j].phase = "sampled"
      /\ sync[j].full => sync[j].existing \subseteq Traded(r) \/ Authoritative
  BY DEF FetchBars, CoversExisting, fenced, provider, marketData
<1>4. \A d \in Traded(r) : r[d] = feed[d] /\ feed[d] # NoBar /\ d \in Days
  BY DEF Response, Traded
<1> HIDE DEF x, r
<1>5. SampleStillHolds(x)
  BY <1>0, <1>1, <1>3 DEF RequestInv, SampleStillHolds
<1>6. FetchedRows(x)
  <2> SUFFICES ASSUME NEW d \in Traded(r)
               PROVE  /\ bars[d].edition <= r[d].edition /\ r[d].edition <= feed[d].edition
                      /\ r[d].edition <= edition
                      /\ r[d].revision \in sync[j].revision..feed_revision
    BY <1>1, <1>3 DEF FetchedRows
  <2>1. r[d] = feed[d] /\ feed[d] # NoBar /\ d \in Days BY <1>4
  <2>2. feed[d] \in Bar /\ sync[j].revision \in Nat /\ feed_revision \in Nat
        /\ sync[j].revision <= feed_revision
    BY <1>0, <2>1 DEF TypeOK, Sync, RequestInv
  <2>3. /\ bars[d].edition <= feed[d].edition /\ feed[d].edition <= edition
        /\ feed[d].revision = feed_revision
    BY <2>1 DEF FenceInv, ProviderIsAhead
  <2> QED BY <2>1, <2>2, <2>3 DEF Bar
<1>7. RequestInv(x) BY <1>0, <1>1, <1>5, <1>6 DEF RequestInv
<1> QED BY <1>1, <1>2, <1>3, <1>7, RequestStep

(* An unchanged revision at the recheck pins the revision of every row.     *)
LEMMA RecheckKeepsFence ==
    ASSUME TypeOK, FenceInv, NEW j \in Jobs, RecheckRevision(j)
    PROVE  FenceInv'
<1> DEFINE x == [sync[j] EXCEPT !.phase = "checked"]
<1>0. sync[j] \in Sync /\ RequestInv(sync[j]) BY DEF TypeOK, FenceInv
<1>1. /\ x.phase = "checked" /\ x.rows = sync[j].rows /\ x.generation = sync[j].generation
      /\ x.revision = sync[j].revision /\ x.full = sync[j].full
      /\ x.existing = sync[j].existing
  BY <1>0 DEF Sync
<1>2. x \in Sync BY <1>0 DEF Sync, SyncPhases
<1>3. /\ sync[j].phase = "fetched" /\ UNCHANGED fenced /\ sync' = [sync EXCEPT ![j] = x]
      /\ feed_revision = sync[j].revision \/ Traded(sync[j].rows) = {}
  BY DEF RecheckRevision, RevisionUnchanged, fenced, provider, marketData
<1> HIDE DEF x
<1>4. SampleStillHolds(x)
  BY <1>0, <1>1, <1>3 DEF RequestInv, SampleStillHolds
<1>5. \A d \in Traded(sync[j].rows) : Qfq => sync[j].rows[d].revision = sync[j].revision
  <2> SUFFICES ASSUME NEW d \in Traded(sync[j].rows), Qfq
               PROVE  sync[j].rows[d].revision = sync[j].revision
    OBVIOUS
  <2>1. sync[j].rows[d] \in Bar /\ sync[j].revision \in Nat
    BY <1>0 DEF Sync, Traded
  <2>2. sync[j].rows[d].revision \in sync[j].revision..feed_revision
    BY <1>0, <1>3 DEF RequestInv, FetchedRows
  <2> QED BY <1>3, <2>1, <2>2 DEF Bar
<1>6. FetchedRows(x)
  BY <1>0, <1>1, <1>3, <1>5 DEF RequestInv, FetchedRows
<1>7. RequestInv(x) BY <1>0, <1>1, <1>4, <1>6 DEF RequestInv
<1> QED BY <1>1, <1>2, <1>3, <1>7, RequestStep

(* The end of a request, in success or failure, keeps the invariant.        *)
LEMMA EndKeepsFence ==
    ASSUME TypeOK, FenceInv, NEW j \in Jobs, sync' = [sync EXCEPT ![j] = IdleSync],
           UNCHANGED fenced
    PROVE  FenceInv'
<1>1. /\ IdleSync.phase = "idle" /\ IdleSync.revision = 0 /\ IdleSync.full = FALSE
      /\ IdleSync \in Sync
  BY EmptyTypes DEF IdleSync, None
<1>2. RequestInv(IdleSync)
  BY <1>1 DEF RequestInv, SampleStillHolds, FetchedRows, TypeOK
<1> QED BY <1>1, <1>2, RequestStep

(* The fence protects what a request sampled before its provider I/O, for   *)
(* any number of overlapping requests.                                      *)
THEOREM FenceInvariant == Spec => []FenceInv
<1>1. Init => FenceInv
  <2> SUFFICES ASSUME Init PROVE FenceInv
    OBVIOUS
  <2>1. \A j \in Jobs : sync[j] = IdleSync BY DEF Init, NothingStored
  <2>2. IdleSync.phase = "idle" /\ IdleSync.revision = 0 /\ IdleSync.full = FALSE
    BY DEF IdleSync, None
  <2>3. feed = EmptyBars /\ bars = EmptyBars /\ feed_revision = 1 /\ edition = 1
    BY DEF Init, NothingStored
  <2>4. GenerationsDistinct BY <2>1, <2>2 DEF GenerationsDistinct
  <2>5. ProviderIsAhead /\ NoMixedRevisions
    BY <2>3 DEF ProviderIsAhead, NoMixedRevisions, EmptyBars, NoBar
  <2>6. \A j \in Jobs : RequestInv(sync[j])
    BY <2>1, <2>2, <2>3 DEF RequestInv, SampleStillHolds, FetchedRows
  <2> QED BY <2>4, <2>5, <2>6 DEF FenceInv
<1>2. TypeOK /\ FenceInv /\ [Next]_vars => FenceInv'
  <2> SUFFICES ASSUME TypeOK, FenceInv, [Next]_vars PROVE FenceInv'
    OBVIOUS
  <2>1. CASE Environment
    <3>1. ASSUME NEW d \in Days, ProviderPublishes(d) PROVE FenceInv'
      <4>1. \A x \in Days : feed'[x] =
              IF x = d THEN [edition |-> edition + 1, revision |-> feed_revision] ELSE feed[x]
        BY <3>1 DEF ProviderPublishes, TypeOK
      <4> QED BY <3>1, <4>1, ProviderKeepsFence DEF ProviderPublishes, marketData
    <3>2. ASSUME NEW kept \in SUBSET Traded(feed), ProviderRestates(kept) PROVE FenceInv'
      BY <3>2, ProviderKeepsFence DEF ProviderRestates, marketData
    <3>3. NextDay \/ (\E r \in SUBSET Requests : MarkDemandChanged(r)) => FenceInv'
      BY FenceStutter DEF NextDay, MarkDemandChanged, fenced, provider, marketData
    <3> QED BY <2>1, <3>1, <3>2, <3>3 DEF Environment
  <2>2. ASSUME NEW j \in Jobs, HubStep(j) PROVE FenceInv'
    <3>1. CASE CompleteSync(j)
      BY <3>1, EndKeepsFence DEF CompleteSync, fenced, provider, marketData
    <3>2. CASE SyncFails(j)
      BY <3>2, EndKeepsFence DEF SyncFails, fenced, provider, marketData
    <3> QED BY <2>2, <3>1, <3>2, SampleKeepsFence, FetchKeepsFence, RecheckKeepsFence,
               PersistKeepsFence DEF HubStep
  <2>3. ASSUME NEW j \in Jobs, TaskStep(j) PROVE FenceInv'
    <3>1. ASSUME NEW end \in Days, NEW lo \in Days, NEW force \in BOOLEAN,
                 StartEod(j, end, lo, force)
          PROVE  FenceInv'
      <4>1. lo \in 0..MaxDay /\ end \in 0..MaxDay BY DEF Days
      <4> QED BY <3>1, <4>1, ReserveKeepsFence DEF StartEod, provider, marketData
    <3>2. ASSUME NEW limit \in 0..MaxDay, StartBootstrap(j, limit) PROVE FenceInv'
      <4>1. BootstrapEnd(limit) \in 0..MaxDay /\ 1 \in 0..MaxDay
        BY ConstantsAssumption DEF BootstrapEnd, Later, TypeOK, Days
      <4>2. UNCHANGED <<edition, feed, feed_revision, bars, revision_hash>>
        BY <3>2 DEF StartBootstrap, provider, marketData
      <4>3. CASE UNCHANGED <<sync, sync_generation>>
        BY <4>2, <4>3, FenceStutter DEF fenced
      <4>4. CASE ReserveSync(j, 1, BootstrapEnd(limit))
        BY <4>1, <4>2, <4>4, ReserveKeepsFence
      <4> QED BY <3>2, <4>3, <4>4 DEF StartBootstrap
    <3>3. EodReady(j) \/ AcknowledgeDemand(j) \/ Materialize(j) \/ JobEnds(j) => FenceInv'
      BY FenceStutter DEF EodReady, AcknowledgeDemand, Materialize, JobEnds, fenced,
                          provider, marketData
    <3> QED BY <2>3, <3>1, <3>2, <3>3 DEF TaskStep
  <2>4. CASE UNCHANGED vars
    BY <2>4, FenceStutter DEF vars, fenced, provider, marketData
  <2> QED BY <2>1, <2>2, <2>3, <2>4 DEF Next
<1> QED BY <1>1, <1>2, TypeCorrect, PTL DEF Spec

(* The stored bars of a qfq stream are always of one revision, the stored   *)
(* one, although it is sampled, compared and fetched by unlocked calls.     *)
THEOREM RevisionsNeverMix == Spec => []NoMixedRevisions
<1>1. FenceInv => NoMixedRevisions BY DEF FenceInv
<1> QED BY <1>1, FenceInvariant, PTL

(* Only the persistence transaction changes a bar.                          *)
LEMMA BarsChangeOnlyInPersist ==
    ASSUME Next, ~(UNCHANGED bars)
    PROVE  \E j \in Jobs : PersistBars(j)
<1>1. CASE Environment
  BY <1>1 DEF Environment, ProviderPublishes, ProviderRestates, NextDay,
              MarkDemandChanged, marketData
<1>2. ASSUME NEW j \in Jobs, HubStep(j) PROVE PersistBars(j)
  BY <1>2 DEF HubStep, SampleRevision, FetchBars, RecheckRevision, CompleteSync,
              SyncFails, marketData
<1>3. ASSUME NEW j \in Jobs, TaskStep(j) PROVE FALSE
  BY <1>3 DEF TaskStep, StartEod, StartBootstrap, EodReady, AcknowledgeDemand,
              Materialize, JobEnds, marketData
<1> QED BY <1>1, <1>2, <1>3 DEF Next

(* A slow response never overwrites what a newer request stored.            *)
THEOREM NoRegression == Spec => BarsNeverRegress
<1> DEFINE forward == \A d \in Days : bars'[d] # NoBar => bars[d].edition <= bars'[d].edition
<1>1. TypeOK /\ FenceInv /\ [Next]_vars => [forward]_vars
  <2> SUFFICES ASSUME TypeOK, FenceInv, Next PROVE forward
    OBVIOUS
  <2>1. CASE UNCHANGED bars BY <2>1 DEF TypeOK, Bar
  <2>2. CASE ~(UNCHANGED bars)
    BY <2>2, BarsChangeOnlyInPersist, PersistKeepsOrder
  <2> QED BY <2>1, <2>2
<1>2. BarsNeverRegress <=> [][forward]_vars BY DEF BarsNeverRegress
<1> QED BY <1>1, <1>2, TypeCorrect, FenceInvariant, PTL DEF Spec

(* A stored day is deleted only for an authoritative source, whichever      *)
(* requests overlap between the coverage check and the replacement.         *)
THEOREM DeletionIsAuthorised == Spec => NoUnauthorisedDeletion
<1> DEFINE allowed == \A d \in Days : bars[d] # NoBar /\ bars'[d] = NoBar => Authoritative
<1>1. TypeOK /\ FenceInv /\ [Next]_vars => [allowed]_vars
  <2> SUFFICES ASSUME TypeOK, FenceInv, Next PROVE allowed
    OBVIOUS
  <2>1. CASE UNCHANGED bars BY <2>1
  <2>2. CASE ~(UNCHANGED bars)
    BY <2>2, BarsChangeOnlyInPersist, PersistDeletesWithAuthority
  <2> QED BY <2>1, <2>2
<1>2. NoUnauthorisedDeletion <=> [][allowed]_vars BY DEF NoUnauthorisedDeletion
<1> QED BY <1>1, <1>2, TypeCorrect, FenceInvariant, PTL DEF Spec
=============================================================================
