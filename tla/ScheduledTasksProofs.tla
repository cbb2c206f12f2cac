------------------------- MODULE ScheduledTasksProofs -------------------------
(***************************************************************************)
(* Proofs about ScheduledTasks for any set of jobs, symbols and days, any  *)
(* order of the symbols and any number of faults, retries and edits.       *)
(***************************************************************************)
EXTENDS ScheduledTasks, FiniteSetTheorems, WellFoundedInduction, NaturalsInduction, TLAPS

(* A nonempty set of days has a last one, which is what CHOOSE picks.       *)
LEMMA LastDayExists ==
    ASSUME NEW T \in SUBSET Days, T # {}
    PROVE  \E x \in T : \A y \in T : y <= x
<1> DEFINE Left == {MaxDay - x : x \in T}
<1>1. Left \subseteq Nat /\ Left # {}
  <2>1. \A x \in T : MaxDay - x \in Nat BY BoundsAssumption DEF Days
  <2>2. \A x \in T : MaxDay - x \in Left OBVIOUS
  <2> QED BY <2>1, <2>2
<1>2. PICK m \in Left : \A n \in Left : ~(<<n, m>> \in OpToRel(<, Nat))
  BY <1>1, NatLessThanWellFounded, WFMin
<1>3. ASSUME NEW n \in Left PROVE m <= n
  <2>1. n \in Nat /\ m \in Nat BY <1>1
  <2>2. n < m => <<n, m>> \in OpToRel(<, Nat) BY <2>1 DEF OpToRel
  <2>3. ~(n < m) BY <1>2, <2>2, Zenon
  <2> QED BY <2>1, <2>3
<1>4. PICK x \in T : m = MaxDay - x OBVIOUS
<1>5. ASSUME NEW y \in T PROVE y <= x
  <2>1. MaxDay - y \in Left OBVIOUS
  <2>2. MaxDay - x <= MaxDay - y BY <1>3, <1>4, <2>1
  <2> QED BY <2>2, BoundsAssumption DEF Days
<1> QED BY <1>5

-----------------------------------------------------------------------------
(* The operators of the model.                                              *)

(* A job that is dropped or goes back to the queue is well formed, and runs *)
(* no longer.                                                               *)
LEMMA RetriedType ==
    ASSUME TypeOK, NEW j \in Jobs
    PROVE  /\ Idle \in Task /\ Idle.phase = "idle" /\ Idle.day = None
           /\ Retried(j) \in Task /\ Retried(j).phase \in {"idle", "queued"}
           /\ Retried(j).day = None
<1>1. Idle \in Task BY BoundsAssumption DEF Idle, Task, None
<1>2. task[j].retries < MaxRetries => task[j].retries + 1 \in 0..MaxRetries
  BY BoundsAssumption DEF TypeOK, Task
<1> QED BY <1>1, <1>2 DEF Retried, Task, Idle, None

(* A synchronisation never takes a bar away nor invents one of a day that   *)
(* has not come.                                                            *)
LEMMA SyncedAdvances ==
    ASSUME TypeOK, NEW s \in Symbols, NEW d \in 0..MaxDay, d <= day, stream[s].bar <= day
    PROVE  /\ Synced(s, d) \in Stream
           /\ stream[s].bar <= Synced(s, d).bar /\ Synced(s, d).bar <= day
           /\ Synced(s, d).through = stream[s].through
<1>1. LastBar(s, d) \in 0..MaxDay /\ LastBar(s, d) <= day
  <2> DEFINE traded == {x \in Days : x <= d /\ s \in Trades[x] /\ (x < day \/ closed)}
  <2>1. CASE traded = {} BY <2>1, BoundsAssumption DEF LastBar, None, TypeOK, Days
  <2>2. CASE traded # {}
    <3>1. \E x \in traded : \A y \in traded : y <= x BY <2>2, LastDayExists
    <3>2. LastBar(s, d) = CHOOSE x \in traded : \A y \in traded : y <= x
      BY <2>2 DEF LastBar
    <3> HIDE DEF traded
    <3>3. LastBar(s, d) \in traded BY <3>1, <3>2
    <3> USE DEF traded
    <3> QED BY <3>3 DEF Days, TypeOK
  <2> QED BY <2>1, <2>2
<1>2. stream[s] \in Stream /\ day \in 0..MaxDay BY BoundsAssumption DEF TypeOK, Days
<1> DEFINE b == IF LastBar(s, d) > stream[s].bar THEN LastBar(s, d) ELSE stream[s].bar
<1>3. b \in 0..MaxDay /\ stream[s].bar <= b /\ b <= day BY <1>1, <1>2 DEF Stream, TypeOK, Days
<1>4. Synced(s, d) = [stream[s] EXCEPT !.bar = b, !.synced = day,
                                       !.dirty = @ \/ b # stream[s].bar]
  BY DEF Synced
<1> HIDE DEF b
<1>5. (stream[s].dirty \/ b # stream[s].bar) \in BOOLEAN OBVIOUS
<1> QED BY <1>2, <1>3, <1>4, <1>5 DEF Stream

-----------------------------------------------------------------------------
(* What each watermark is bounded by: an alert watermark by the publication *)
(* it was evaluated from, a publication by the last stored bar, a bar by    *)
(* the calendar.                                                            *)
WatermarksOrdered ==
    \A s \in Symbols : /\ watermark[s] <= stream[s].through
                       /\ stream[s].through <= stream[s].bar
                       /\ stream[s].bar <= day
(* No job works on a day to come, and one about to publish a symbol has     *)
(* seen that symbol's bar of its day.                                       *)
JobsInThePast ==
    \A j \in Jobs :
        /\ task[j].day <= day
        /\ task[j].phase = "indicator_snapshots" =>
             \A s \in task[j].todo : task[j].day <= stream[s].bar
TasksInv == TypeOK /\ WatermarksOrdered /\ JobsInThePast

(* A step that changes one job and nothing the watermarks depend on.        *)
LEMMA JobStep ==
    ASSUME TasksInv, NEW j \in Jobs, NEW r \in Task, Set(j, r), r.day <= day,
           r.phase = "indicator_snapshots" => \A s \in r.todo : r.day <= stream[s].bar,
           UNCHANGED <<day, stream, watermark>>,
           closed' \in BOOLEAN, sent' \in BOOLEAN, lease' \in Jobs \union {Free, Orphan},
           faults' \in 0..MaxFaults, edits' \in Nat
    PROVE  TasksInv'
<1>1. task' \in [Jobs -> Task] BY DEF Set, TasksInv, TypeOK
<1>2. TypeOK' BY <1>1 DEF TasksInv, TypeOK
<1>3. WatermarksOrdered' BY DEF TasksInv, WatermarksOrdered
<1>4. JobsInThePast' BY DEF TasksInv, TypeOK, JobsInThePast, Set
<1> QED BY <1>2, <1>3, <1>4 DEF TasksInv

(* A failed step is counted within its bound.                               *)
LEMMA FaultBound ==
    ASSUME TypeOK, NEW n \in Nat, Fault(n)
    PROVE  faults' \in 0..MaxFaults
BY BoundsAssumption DEF Fault, TypeOK

(* The calendar, Beat, the owner of the rules and the lease.                *)
LEMMA EnvironmentInv ==
    ASSUME TasksInv,
           \/ Close \/ NextDay \/ ExpireOrphan
           \/ \E s \in Symbols : EditRule(s)
           \/ \E j \in EodJobs : SendEod(j)
           \/ \E j \in ReconcileJobs : SendReconcile(j)
    PROVE  TasksInv'
<1>1. CASE Close
  BY <1>1 DEF Close, TasksInv, TypeOK, WatermarksOrdered, JobsInThePast
<1>2. CASE NextDay
  <2>1. day' \in Days /\ day <= day' BY <1>2, BoundsAssumption DEF NextDay, TasksInv, TypeOK, Days
  <2>2. TypeOK' BY <1>2, <2>1 DEF NextDay, TasksInv, TypeOK
  <2>3. WatermarksOrdered'
    BY <1>2, <2>1 DEF NextDay, TasksInv, TypeOK, WatermarksOrdered, Stream, Days
  <2>4. JobsInThePast' BY <1>2, <2>1 DEF NextDay, TasksInv, TypeOK, JobsInThePast, Task, Days
  <2> QED BY <2>2, <2>3, <2>4 DEF TasksInv
<1>3. CASE ExpireOrphan
  BY <1>3 DEF ExpireOrphan, TasksInv, TypeOK, WatermarksOrdered, JobsInThePast
<1>4. ASSUME NEW s \in Symbols, EditRule(s) PROVE TasksInv'
  <2>1. [stream[s] EXCEPT !.demand = TRUE] \in Stream BY DEF TasksInv, TypeOK, Stream
  <2>2. stream' \in [Symbols -> Stream] BY <1>4, <2>1 DEF EditRule, TasksInv, TypeOK
  <2>3. watermark' \in [Symbols -> NoInstance..MaxDay]
    BY <1>4, BoundsAssumption DEF EditRule, TasksInv, TypeOK, NoInstance, None
  <2>4. TypeOK' BY <1>4, <2>2, <2>3 DEF EditRule, TasksInv, TypeOK
  <2>5. \A x \in Symbols : /\ stream'[x].through = stream[x].through
                           /\ stream'[x].bar = stream[x].bar
    BY <1>4 DEF EditRule, TasksInv, TypeOK, Stream
  <2>6. \A x \in Symbols : watermark'[x] \in {watermark[x], None}
    BY <1>4 DEF EditRule, TasksInv, TypeOK
  <2>7. WatermarksOrdered'
    BY <1>4, <2>5, <2>6 DEF EditRule, TasksInv, TypeOK, WatermarksOrdered, Stream, None
  <2>8. JobsInThePast' BY <1>4, <2>5 DEF EditRule, TasksInv, TypeOK, JobsInThePast, Task
  <2> QED BY <2>4, <2>7, <2>8 DEF TasksInv
<1>5. ASSUME NEW j \in Jobs, SendEod(j) \/ SendReconcile(j) PROVE TasksInv'
  <2> DEFINE r == [Idle EXCEPT !.phase = "queued"]
  <2>0. Idle \in Task /\ Idle.day <= day BY RetriedType DEF TasksInv, TypeOK, Days, None
  <2>1. r \in Task /\ r.day <= day /\ r.phase # "indicator_snapshots"
    BY <2>0 DEF Task, Idle
  <2>2. Set(j, r) BY <1>5 DEF SendEod, SendReconcile
  <2> HIDE DEF r
  <2> QED BY <1>5, <2>1, <2>2, JobStep DEF SendEod, SendReconcile, TasksInv, TypeOK
<1> QED BY <1>1, <1>2, <1>3, <1>4, <1>5 DEF Jobs

(* The steps of a job that leave streams and watermarks alone.              *)
LEMMA ControlInv ==
    ASSUME TasksInv, NEW j \in Jobs,
           \/ Scan(j) \/ Acquire(j) \/ (\E transient \in BOOLEAN : DividendSync(j, transient))
           \/ AdjustmentReady(j) \/ Published(j) \/ Evaluated(j) \/ Finish(j)
           \/ StepFails(j) \/ Crash(j) \/ Stall(j) \/ HeartbeatLost(j)
    PROVE  TasksInv'
<1> USE DEF TasksInv
<1>0. /\ task[j] \in Task /\ task[j].day <= day /\ Released(j) \in Jobs \union {Free, Orphan}
      /\ task[j].phase = "indicator_snapshots" =>
           \A s \in task[j].todo : task[j].day <= stream[s].bar
      /\ None <= day
  BY DEF TypeOK, JobsInThePast, Released, None, Days
<1>i. /\ Idle \in Task /\ Idle.day <= day /\ Idle.phase # "indicator_snapshots"
      /\ Retried(j) \in Task /\ Retried(j).day <= day
      /\ Retried(j).phase # "indicator_snapshots"
  BY <1>0, RetriedType
<1>f. \A n \in Nat : Fault(n) => faults' \in 0..MaxFaults BY FaultBound
<1>1. CASE Scan(j)
  <2> DEFINE target == IF j \in EodJobs THEN day ELSE RecoveryDay
             symbols == IF j \in EodJobs THEN Symbols ELSE Batch(target)
             r == [task[j] EXCEPT !.phase = "scanned", !.day = target, !.symbols = symbols]
  <2>1. target \in 0..MaxDay /\ target <= day
    BY BoundsAssumption DEF RecoveryDay, TypeOK, Days
  <2> HIDE DEF target
  <2>2. symbols \in SUBSET Symbols BY DEF Batch, Pending
  <2> HIDE DEF symbols
  <2>3. r \in Task /\ r.day <= day /\ r.phase # "indicator_snapshots"
    BY <1>0, <2>1, <2>2 DEF Task
  <2>4. Set(j, Idle) \/ Set(j, r) BY <1>1 DEF Scan, target, symbols
  <2> HIDE DEF r
  <2> QED BY <1>1, <1>i, <2>3, <2>4, JobStep DEF Scan, TypeOK
<1>2. CASE Acquire(j)
  <2> DEFINE r == [task[j] EXCEPT !.phase = "daily_sync"]
  <2>1. r \in Task /\ r.day <= day /\ r.phase # "indicator_snapshots"
    BY <1>0 DEF Task, Running
  <2>2. (Set(j, Idle) \/ Set(j, r)) /\ lease' \in Jobs \union {Free, Orphan}
    BY <1>2 DEF Acquire, TypeOK
  <2> HIDE DEF r
  <2> QED BY <1>2, <1>i, <2>1, <2>2, JobStep DEF Acquire, TypeOK
<1>3. ASSUME NEW transient \in BOOLEAN, DividendSync(j, transient) PROVE TasksInv'
  <2> DEFINE r == [task[j] EXCEPT !.phase = "adjustment_ready", !.retry = @ \/ transient]
  <2>0. (task[j].retry \/ transient) \in BOOLEAN OBVIOUS
  <2>1. r \in Task /\ r.day <= day /\ r.phase # "indicator_snapshots"
    BY <1>0, <2>0 DEF Task, Running
  <2>2. Set(j, r) BY <1>3 DEF DividendSync
  <2>3. faults' \in 0..MaxFaults BY <1>3, <1>f DEF DividendSync
  <2> HIDE DEF r
  <2> QED BY <1>3, <2>1, <2>2, <2>3, JobStep DEF DividendSync, TypeOK
<1>4. CASE AdjustmentReady(j)
  <2> DEFINE todo == {s \in task[j].symbols \ task[j].failed :
                          s \in Trades[task[j].day] /\ task[j].day <= stream[s].bar}
             r == [task[j] EXCEPT !.phase = "indicator_snapshots", !.symbols = {}, !.todo = todo]
  <2>1. todo \in SUBSET Symbols /\ \A s \in todo : task[j].day <= stream[s].bar
    BY <1>0 DEF Task
  <2>2. Set(j, r) BY <1>4 DEF AdjustmentReady
  <2> HIDE DEF todo
  <2>3. r \in Task /\ r.day <= day /\ r.day = task[j].day /\ r.todo = todo
    BY <1>0, <2>1 DEF Task, Running
  <2> HIDE DEF r
  <2> QED BY <1>4, <2>1, <2>2, <2>3, JobStep DEF AdjustmentReady, TypeOK
<1>5. CASE Published(j)
  <2> DEFINE r == [task[j] EXCEPT !.phase = "alerts", !.todo = task[j].symbols]
  <2>1. r \in Task /\ r.day <= day /\ r.phase # "indicator_snapshots"
    BY <1>0 DEF Task, Running
  <2>2. Set(j, r) BY <1>5 DEF Published
  <2> HIDE DEF r
  <2> QED BY <1>5, <2>1, <2>2, JobStep DEF Published, TypeOK
<1>6. CASE Evaluated(j)
  <2> DEFINE r == [task[j] EXCEPT !.phase = "finish"]
  <2>1. r \in Task /\ r.day <= day /\ r.phase # "indicator_snapshots"
    BY <1>0 DEF Task, Running
  <2>2. Set(j, r) BY <1>6 DEF Evaluated
  <2> HIDE DEF r
  <2> QED BY <1>6, <2>1, <2>2, JobStep DEF Evaluated, TypeOK
<1>7. CASE Finish(j)
  <2>1. Set(j, Retried(j)) \/ Set(j, Idle) BY <1>7 DEF Finish
  <2> QED BY <1>7, <1>0, <1>i, <2>1, JobStep DEF Finish, TypeOK
<1>8. CASE StepFails(j)
  BY <1>8, <1>0, <1>i, <1>f, JobStep DEF StepFails, TypeOK
<1>9. CASE Crash(j)
  <2> DEFINE r == [Idle EXCEPT !.phase = "queued", !.retries = task[j].retries]
  <2>1. r \in Task /\ r.day <= day /\ r.phase # "indicator_snapshots"
    BY <1>0, <1>i DEF Task, Running, Idle
  <2>2. Set(j, r) /\ lease' \in Jobs \union {Free, Orphan} /\ faults' \in 0..MaxFaults
    BY <1>9, <1>f DEF Crash, TypeOK
  <2> HIDE DEF r
  <2> QED BY <1>9, <2>1, <2>2, JobStep DEF Crash, TypeOK
<1>10. CASE Stall(j)
  <2> DEFINE r == [task[j] EXCEPT !.stalled = TRUE]
  <2>1. r \in Task /\ r.day = task[j].day /\ r.phase = task[j].phase /\ r.todo = task[j].todo
    BY <1>0 DEF Task
  <2>2. Set(j, r) /\ lease' \in Jobs \union {Free, Orphan} /\ faults' \in 0..MaxFaults
    BY <1>10, <1>f DEF Stall, TypeOK
  <2> HIDE DEF r
  <2> QED BY <1>10, <1>0, <2>1, <2>2, JobStep DEF Stall, TypeOK
<1>11. CASE HeartbeatLost(j)
  BY <1>11, <1>i, JobStep DEF HeartbeatLost, TypeOK
<1> QED BY <1>1, <1>2, <1>3, <1>4, <1>5, <1>6, <1>7, <1>8, <1>9, <1>10, <1>11

(* A synchronisation moves bars forward only.                               *)
LEMMA DailySyncInv ==
    ASSUME TasksInv, NEW j \in Jobs, NEW failed \in SUBSET Symbols, NEW transient \in BOOLEAN,
           DailySync(j, failed, transient)
    PROVE  /\ TasksInv'
           /\ \A s \in Symbols : /\ stream[s].bar <= stream'[s].bar
                                 /\ stream[s].through = stream'[s].through
<1> USE DEF TasksInv
<1> DEFINE good == task[j].symbols \ failed
           r == [task[j] EXCEPT !.phase = "dividend_sync", !.failed = failed,
                                !.retry = transient /\ failed # {}]
<1>0. task[j] \in Task /\ task[j].day \in 0..MaxDay /\ task[j].day <= day
  BY DEF TypeOK, JobsInThePast, Task
<1>1. \A s \in Symbols : stream'[s] = IF s \in good THEN Synced(s, task[j].day) ELSE stream[s]
  BY DEF DailySync
<1>2. ASSUME NEW s \in Symbols
      PROVE  /\ stream'[s] \in Stream /\ stream[s].bar <= stream'[s].bar /\ stream'[s].bar <= day
             /\ stream[s].through = stream'[s].through
  <2>1. stream[s] \in Stream /\ stream[s].bar <= day BY DEF TypeOK, WatermarksOrdered
  <2>2. stream[s].bar <= stream[s].bar BY <2>1 DEF Stream
  <2> QED BY <1>0, <1>1, <2>1, <2>2, SyncedAdvances
<1>3. stream' \in [Symbols -> Stream] BY <1>2 DEF DailySync
<1>4. (transient /\ failed # {}) \in BOOLEAN OBVIOUS
<1>5. r \in Task /\ r.day = task[j].day /\ r.phase = "dividend_sync"
  BY <1>0, <1>4 DEF Task, Running
<1>6. task' = [task EXCEPT ![j] = r] BY DEF DailySync, Set
<1> HIDE DEF r
<1>7. task' \in [Jobs -> Task] BY <1>5, <1>6 DEF TypeOK
<1>8. Cardinality(failed) \in Nat BY SymbolsAssumption, FS_Subset, FS_CardinalityType
<1>9. TypeOK' BY <1>3, <1>7, <1>8, FaultBound DEF DailySync, TypeOK
<1>10. WatermarksOrdered'
  <2> SUFFICES ASSUME NEW s \in Symbols
               PROVE  /\ watermark[s] <= stream'[s].through
                      /\ stream'[s].through <= stream'[s].bar /\ stream'[s].bar <= day
    BY DEF DailySync, WatermarksOrdered
  <2>1. stream[s] \in Stream /\ watermark[s] \in NoInstance..MaxDay BY DEF TypeOK
  <2>2. watermark[s] <= stream[s].through /\ stream[s].through <= stream[s].bar
    BY DEF WatermarksOrdered
  <2> QED BY <1>2, <2>1, <2>2 DEF Stream, NoInstance
<1>11. JobsInThePast'
  <2> SUFFICES ASSUME NEW k \in Jobs
               PROVE  /\ task'[k].day <= day
                      /\ task'[k].phase = "indicator_snapshots" =>
                           \A s \in task'[k].todo : task'[k].day <= stream'[s].bar
    BY DEF DailySync, JobsInThePast
  <2>1. CASE k = j BY <1>0, <1>5, <1>6, <2>1 DEF TypeOK
  <2>2. CASE k # j
    <3>1. task'[k] = task[k] /\ task[k] \in Task BY <1>6, <2>2 DEF TypeOK
    <3>2. ASSUME NEW s \in task[k].todo, task[k].day <= stream[s].bar
          PROVE  task[k].day <= stream'[s].bar
      <4>1. s \in Symbols /\ task[k].day \in Nat BY <3>1 DEF Task
      <4>2. stream[s] \in Stream BY <4>1 DEF TypeOK
      <4> QED BY <1>2, <3>2, <4>1, <4>2 DEF Stream
    <3> QED BY <3>1, <3>2 DEF JobsInThePast
  <2> QED BY <2>1, <2>2
<1> QED BY <1>2, <1>9, <1>10, <1>11

(* A publication of a symbol moves its watermark forward only, to a day     *)
(* whose bar is stored.                                                     *)
LEMMA MaterializeInv ==
    ASSUME TasksInv, NEW j \in Jobs, NEW s \in Symbols, Materialize(j, s)
    PROVE  /\ TasksInv'
           /\ \A x \in Symbols : /\ stream[x].bar = stream'[x].bar
                                 /\ stream[x].through <= stream'[x].through
<1> USE DEF TasksInv
<1>0. /\ task[j] \in Task /\ task[j].day \in 0..MaxDay /\ task[j].day <= day
      /\ task[j].day <= stream[s].bar /\ stream[s] \in Stream
  BY DEF TypeOK, JobsInThePast, Task, Materialize
<1>1. CASE NotStale(s, task[j].day)
  <2> DEFINE r == [task[j] EXCEPT !.todo = @ \ {s}, !.symbols = @ \union {s}]
             p == [stream[s] EXCEPT !.through = task[j].day, !.demand = FALSE,
                                    !.dirty = @ /\ task[j].day < stream[s].bar]
  <2>1. r \in Task /\ r.day = task[j].day /\ r.phase = task[j].phase /\ r.todo \subseteq task[j].todo
    BY <1>0 DEF Task
  <2>2. task' = [task EXCEPT ![j] = r] BY <1>1 DEF Materialize, Set
  <2>3. (stream[s].dirty /\ task[j].day < stream[s].bar) \in BOOLEAN OBVIOUS
  <2>4. p \in Stream /\ p.through = task[j].day /\ p.bar = stream[s].bar
    BY <1>0, <2>3 DEF Stream
  <2>5. stream' = [stream EXCEPT ![s] = p] BY <1>1 DEF Materialize
  <2> HIDE DEF r, p
  <2>6. TypeOK' BY <2>1, <2>2, <2>4, <2>5 DEF Materialize, TypeOK
  <2>7. ASSUME NEW x \in Symbols
        PROVE  stream[x].bar = stream'[x].bar /\ stream[x].through <= stream'[x].through
    <3>1. stream[x] \in Stream BY DEF TypeOK
    <3> QED BY <1>1, <2>4, <2>5, <3>1 DEF TypeOK, NotStale, Stream
  <2>8. WatermarksOrdered'
    <3> SUFFICES ASSUME NEW x \in Symbols
                 PROVE  /\ watermark[x] <= stream'[x].through
                        /\ stream'[x].through <= stream'[x].bar /\ stream'[x].bar <= day
      BY DEF Materialize, WatermarksOrdered
    <3>1. stream[x] \in Stream /\ stream'[x] \in Stream /\ watermark[x] \in NoInstance..MaxDay
      BY <2>6 DEF TypeOK
    <3>2. watermark[x] <= stream[x].through /\ stream[x].through <= stream[x].bar
          /\ stream[x].bar <= day
      BY DEF WatermarksOrdered
    <3>3. stream'[x].through <= stream'[x].bar BY <1>0, <2>4, <2>5, <3>1, <3>2 DEF TypeOK
    <3> QED BY <2>7, <3>1, <3>2, <3>3 DEF Stream, NoInstance
  <2>9. JobsInThePast'
    <3>1. \A k \in Jobs : /\ task'[k].day = task[k].day /\ task'[k].phase = task[k].phase
                          /\ task'[k].todo \subseteq task[k].todo
      BY <2>1, <2>2 DEF TypeOK
    <3>2. \A k \in Jobs : task[k].todo \subseteq Symbols BY DEF TypeOK, Task
    <3> QED BY <2>7, <3>1, <3>2 DEF JobsInThePast, Materialize
  <2> QED BY <2>6, <2>7, <2>8, <2>9
<1>2. CASE ~NotStale(s, task[j].day)
  <2> DEFINE r == [task[j] EXCEPT !.todo = @ \ {s}]
  <2>1. r \in Task /\ r.day = task[j].day /\ r.phase = task[j].phase /\ r.todo \subseteq task[j].todo
    BY <1>0 DEF Task
  <2>2. Set(j, r) /\ UNCHANGED stream BY <1>2 DEF Materialize
  <2>3. r.phase = "indicator_snapshots" => \A x \in r.todo : r.day <= stream[x].bar
    BY <2>1 DEF JobsInThePast
  <2> HIDE DEF r
  <2>4. TasksInv' BY <1>0, <2>1, <2>2, <2>3, JobStep DEF Materialize, TypeOK
  <2> QED BY <2>2, <2>4 DEF TypeOK, Stream
<1> QED BY <1>1, <1>2

(* An evaluation moves the alert watermark to the day the stream was        *)
(* published through.                                                       *)
LEMMA EvaluateInv ==
    ASSUME TasksInv, NEW j \in Jobs, NEW s \in Symbols, Evaluate(j, s)
    PROVE  TasksInv'
<1> USE DEF TasksInv
<1> DEFINE r == [task[j] EXCEPT !.todo = @ \ {s}]
<1>0. task[j] \in Task /\ task[j].day \in 0..MaxDay /\ task[j].day <= day
  BY DEF TypeOK, JobsInThePast, Task
<1>1. r \in Task /\ r.day = task[j].day /\ r.phase = "alerts" BY <1>0 DEF Task, Evaluate
<1>2. task' = [task EXCEPT ![j] = r] BY DEF Evaluate, Set
<1> HIDE DEF r
<1>3. watermark' \in [Symbols -> NoInstance..MaxDay]
  BY <1>0 DEF Evaluate, TypeOK, NoInstance
<1>4. TypeOK' BY <1>1, <1>2, <1>3 DEF Evaluate, TypeOK
<1>5. WatermarksOrdered'
  <2>1. \A x \in Symbols : stream[x] \in Stream /\ stream[x].through \in Int BY DEF TypeOK, Stream
  <2> QED BY <2>1 DEF Evaluate, TypeOK, WatermarksOrdered
<1>6. JobsInThePast' BY <1>0, <1>1, <1>2 DEF Evaluate, TypeOK, JobsInThePast
<1> QED BY <1>4, <1>5, <1>6

-----------------------------------------------------------------------------
(* The inductive invariant holds initially and survives every step.         *)
LEMMA TasksInit == Init => TasksInv
<1> SUFFICES ASSUME Init PROVE TasksInv OBVIOUS
<1>1. Idle \in Task BY BoundsAssumption DEF Idle, Task, None
<1>2. TypeOK
  <2>1. [bar |-> None, synced |-> None, dirty |-> FALSE, demand |-> TRUE, through |-> None]
          \in Stream
    BY BoundsAssumption DEF Stream, None
  <2>2. stream \in [Symbols -> Stream] BY <2>1 DEF Init
  <2>3. watermark \in [Symbols -> NoInstance..MaxDay] BY BoundsAssumption DEF Init, NoInstance
  <2>4. task \in [Jobs -> Task] BY <1>1 DEF Init
  <2>5. day \in Days /\ faults \in 0..MaxFaults /\ edits \in Nat
    BY BoundsAssumption DEF Init, Days
  <2>6. closed \in BOOLEAN /\ sent \in BOOLEAN /\ lease \in Jobs \union {Free, Orphan}
    BY DEF Init
  <2> QED BY <2>2, <2>3, <2>4, <2>5, <2>6 DEF TypeOK
<1>3. WatermarksOrdered BY DEF Init, WatermarksOrdered, None, NoInstance
<1>4. JobsInThePast BY DEF Init, JobsInThePast, Idle, None
<1> QED BY <1>2, <1>3, <1>4 DEF TasksInv

LEMMA TasksStep == TasksInv /\ [Next]_vars => TasksInv'
<1> SUFFICES ASSUME TasksInv, [Next]_vars PROVE TasksInv' OBVIOUS
<1>1. CASE UNCHANGED vars
  BY <1>1 DEF vars, TasksInv, TypeOK, WatermarksOrdered, JobsInThePast
<1>2. ASSUME NEW j \in Jobs, Progress(j) PROVE TasksInv'
  BY <1>2, ControlInv, DailySyncInv, MaterializeInv, EvaluateInv DEF Progress
<1>3. ASSUME NEW j \in Jobs, Trouble(j) PROVE TasksInv'
  BY <1>3, ControlInv, DailySyncInv DEF Trouble
<1> QED BY <1>1, <1>2, <1>3, EnvironmentInv DEF Next

(* Every reachable state is well typed: a batch never leaves the symbols, a *)
(* job never exceeds its retries.                                           *)
THEOREM TasksTypeCorrect == Spec => []TypeOK
<1>1. TasksInv => TypeOK BY DEF TasksInv
<1> QED BY <1>1, TasksInit, TasksStep, PTL DEF Spec

(* Late, repeated and overlapping jobs never let a rule's watermark pass    *)
(* the publication it was evaluated from, nor a publication the last stored *)
(* bar, nor a bar the calendar.                                             *)
THEOREM WatermarksStayOrdered == Spec => []WatermarksOrdered
<1>1. TasksInv => WatermarksOrdered BY DEF TasksInv
<1> QED BY <1>1, TasksInit, TasksStep, PTL DEF Spec

(* What a symbol was published through, and its last bar, never go back:    *)
(* a reconciliation of an older day that overlaps an end-of-day job leaves  *)
(* the newer publication.                                                   *)
StreamsAdvance ==
    \A s \in Symbols : /\ stream[s].through <= stream'[s].through
                       /\ stream[s].bar <= stream'[s].bar
PublicationsNeverRegress == [][StreamsAdvance]_vars

(* PublicationsNeverRegress, for any jobs, faults and overlaps.             *)
THEOREM PublicationsOnlyAdvance == Spec => PublicationsNeverRegress
<1>1. ASSUME TasksInv, Next PROVE StreamsAdvance
  <2>0. \A s \in Symbols : /\ stream[s].bar \in Int /\ stream[s].through \in Int
                           /\ stream[s].bar <= stream[s].bar
                           /\ stream[s].through <= stream[s].through
    BY <1>1 DEF TasksInv, TypeOK, Stream
  <2>1. CASE UNCHANGED stream BY <2>0, <2>1 DEF StreamsAdvance
  <2>2. ASSUME NEW s \in Symbols, EditRule(s) PROVE StreamsAdvance
    <3>1. \A x \in Symbols : /\ stream'[x].through = stream[x].through
                             /\ stream'[x].bar = stream[x].bar
      BY <1>1, <2>2 DEF EditRule, TasksInv, TypeOK, Stream
    <3> QED BY <2>0, <3>1 DEF StreamsAdvance
  <2>3. ASSUME NEW j \in Jobs, NEW failed \in SUBSET Symbols, NEW transient \in BOOLEAN,
               DailySync(j, failed, transient)
        PROVE  StreamsAdvance
    BY <1>1, <2>0, <2>3, DailySyncInv DEF StreamsAdvance
  <2>4. ASSUME NEW j \in Jobs, NEW s \in Symbols, Materialize(j, s) PROVE StreamsAdvance
    BY <1>1, <2>0, <2>4, MaterializeInv DEF StreamsAdvance
  <2>5. ASSUME NEW j \in Jobs, Progress(j) PROVE StreamsAdvance
    BY <2>1, <2>3, <2>4, <2>5
       DEF Progress, Scan, Acquire, DividendSync, AdjustmentReady, Published, Evaluate,
           Evaluated, Finish
  <2>6. ASSUME NEW j \in Jobs, Trouble(j) PROVE StreamsAdvance
    BY <2>1, <2>3, <2>6 DEF Trouble, DividendSync, StepFails, Crash, Stall, HeartbeatLost
  <2> QED
    BY <1>1, <2>1, <2>2, <2>5, <2>6
       DEF Next, Close, NextDay, ExpireOrphan, SendEod, SendReconcile
<1>2. TasksInv /\ [Next]_vars => [StreamsAdvance]_vars BY <1>1
<1> QED BY <1>2, TasksInit, TasksStep, PTL DEF Spec, PublicationsNeverRegress

-----------------------------------------------------------------------------
(* The lease.                                                               *)

(* A step of job j ends in one of three ways for the lease of another job:  *)
(* it keeps it, whoever releases, crashes or stalls.                        *)
LEMMA LeaseStep ==
    ASSUME TypeOK, OverlapOnlyAfterStall, Next
    PROVE  OverlapOnlyAfterStall'
<1> SUFFICES ASSUME NEW k \in Jobs, IsRunning(k)' PROVE lease' = k \/ task'[k].stalled
  BY DEF OverlapOnlyAfterStall
<1>0. Free \notin Jobs /\ Orphan \notin Jobs BY LeaseAssumption DEF Jobs
<1>1. \A j \in Jobs : task[j] \in Task BY DEF TypeOK
<1>2. CASE UNCHANGED <<task, lease>> BY <1>2 DEF OverlapOnlyAfterStall, IsRunning
<1>3. CASE ExpireOrphan BY <1>0, <1>3 DEF ExpireOrphan, OverlapOnlyAfterStall, IsRunning
<1>i. \A j \in Jobs : Retried(j).phase \notin Running /\ Idle.phase \notin Running
  BY DEF Retried, Idle, Running
<1>4. ASSUME NEW j \in Jobs, SendEod(j) \/ SendReconcile(j)
      PROVE  lease' = k \/ task'[k].stalled
  <2>1. j # k BY <1>4 DEF SendEod, SendReconcile, Set, TypeOK, IsRunning, Idle, Running
  <2>2. task'[k] = task[k] /\ lease' = lease BY <1>4, <2>1 DEF SendEod, SendReconcile, Set, TypeOK
  <2> QED BY <2>2 DEF OverlapOnlyAfterStall, IsRunning
<1>5. ASSUME NEW j \in Jobs, Progress(j) \/ Trouble(j)
      PROVE  lease' = k \/ task'[k].stalled
  <2>1. CASE j # k
    <3>1. task'[k] = task[k]
      BY <1>5, <2>1
         DEF Progress, Trouble, Scan, Acquire, DailySync, DividendSync, AdjustmentReady,
             Materialize, Published, Evaluate, Evaluated, Finish, StepFails, Crash, Stall,
             HeartbeatLost, Set, TypeOK
    <3>2. lease = k => lease' = k
      BY <1>0, <1>5, <2>1
         DEF Progress, Trouble, Scan, Acquire, DailySync, DividendSync, AdjustmentReady,
             Materialize, Published, Evaluate, Evaluated, Finish, StepFails, Crash, Stall,
             HeartbeatLost, Released
    <3> QED BY <3>1, <3>2 DEF OverlapOnlyAfterStall, IsRunning
  <2>2. CASE j = k
    <3>1. CASE Scan(j)
      BY <1>1, <1>i, <2>2, <3>1 DEF Scan, Set, TypeOK, IsRunning, Running, Task
    <3>2. CASE Acquire(j)
      BY <1>1, <1>i, <2>2, <3>2 DEF Acquire, Set, TypeOK, IsRunning, Task
    <3>3. CASE Stall(j) BY <1>1, <2>2, <3>3 DEF Stall, Set, TypeOK, Task
    <3>4. CASE Finish(j) \/ StepFails(j) \/ HeartbeatLost(j)
      BY <1>i, <2>2, <3>4 DEF Finish, StepFails, HeartbeatLost, Set, TypeOK, IsRunning
    <3>5. CASE Crash(j) BY <2>2, <3>5 DEF Crash, Set, TypeOK, IsRunning, Idle, Running
    <3>6. CASE UNCHANGED lease /\ IsRunning(j) /\ task'[j].stalled = task[j].stalled
      BY <2>2, <3>6 DEF OverlapOnlyAfterStall
    <3> DEFINE Kept == UNCHANGED lease /\ IsRunning(j) /\ task'[j].stalled = task[j].stalled
    <3>7. ASSUME NEW failed \in SUBSET Symbols, NEW transient \in BOOLEAN,
                 \/ DailySync(j, failed, transient) \/ DividendSync(j, transient)
                 \/ AdjustmentReady(j) \/ Published(j) \/ Evaluated(j)
          PROVE  Kept
      <4>1. UNCHANGED lease /\ IsRunning(j)
        BY <3>7 DEF DailySync, DividendSync, AdjustmentReady, Published, Evaluated,
                    IsRunning, Running
      <4>2. task'[j].stalled = task[j].stalled
        <5>1. CASE DailySync(j, failed, transient)
          BY <1>1, <5>1 DEF DailySync, Set, TypeOK, Task
        <5>2. CASE DividendSync(j, transient)
          BY <1>1, <5>2 DEF DividendSync, Set, TypeOK, Task
        <5>3. CASE AdjustmentReady(j) BY <1>1, <5>3 DEF AdjustmentReady, Set, TypeOK, Task
        <5>4. CASE Published(j) BY <1>1, <5>4 DEF Published, Set, TypeOK, Task
        <5>5. CASE Evaluated(j) BY <1>1, <5>5 DEF Evaluated, Set, TypeOK, Task
        <5> QED BY <3>7, <5>1, <5>2, <5>3, <5>4, <5>5
      <4> QED BY <4>1, <4>2
    <3>8. ASSUME NEW s \in Symbols, Materialize(j, s) \/ Evaluate(j, s) PROVE Kept
      <4>1. UNCHANGED lease /\ IsRunning(j)
        BY <3>8 DEF Materialize, Evaluate, IsRunning, Running
      <4>2. task'[j].stalled = task[j].stalled
        <5>1. CASE Materialize(j, s)
          <6>1. task' \in {[task EXCEPT ![j] = [task[j] EXCEPT !.todo = @ \ {s}, !.symbols = @ \union {s}]],
                           [task EXCEPT ![j] = [task[j] EXCEPT !.todo = @ \ {s}]]}
            BY <5>1 DEF Materialize, Set
          <6> QED BY <1>1, <6>1 DEF TypeOK, Task
        <5>2. CASE Evaluate(j, s) BY <1>1, <5>2 DEF Evaluate, Set, TypeOK, Task
        <5> QED BY <3>8, <5>1, <5>2
      <4> QED BY <4>1, <4>2
    <3> QED
      BY <1>5, <3>1, <3>2, <3>3, <3>4, <3>5, <3>6, <3>7, <3>8 DEF Progress, Trouble
  <2> QED BY <2>1, <2>2
<1> QED
  BY <1>2, <1>3, <1>4, <1>5 DEF Next, Close, NextDay, EditRule, Jobs

(* A running job loses its lease only by stalling past its time to live,    *)
(* for any number of jobs, faults and retries.                              *)
THEOREM LeaseIsKept == Spec => []OverlapOnlyAfterStall
<1>1. Init => OverlapOnlyAfterStall
  BY DEF Init, OverlapOnlyAfterStall, IsRunning, Idle, Running
<1>2. TypeOK /\ OverlapOnlyAfterStall /\ [Next]_vars => OverlapOnlyAfterStall'
  BY LeaseStep DEF vars, OverlapOnlyAfterStall, IsRunning
<1> QED BY <1>1, <1>2, TasksTypeCorrect, PTL DEF Spec

(* Two jobs run the pipeline at once only if one of them has stalled.       *)
OneRunner ==
    \A j, k \in Jobs : IsRunning(j) /\ IsRunning(k) /\ j # k => task[j].stalled \/ task[k].stalled

(* OneRunner: what the lease is for.                                        *)
THEOREM RunnersExcludeEachOther == Spec => []OneRunner
<1>1. OverlapOnlyAfterStall => OneRunner BY DEF OverlapOnlyAfterStall, OneRunner
<1> QED BY <1>1, LeaseIsKept, PTL
=============================================================================
