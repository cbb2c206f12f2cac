--------------------------- MODULE ScheduledTasks ---------------------------
(***************************************************************************)
(* The Celery side of the backend: Beat sends the end-of-day pipeline and  *)
(* the ten-minute reconciliation; workers run them under one Redis lease,  *)
(* step by step and symbol by symbol, with retries, redelivery after a     *)
(* crash, and leases that expire.  One analysis stream and one enabled     *)
(* alert rule per symbol.                                                  *)
(*                                                                         *)
(* What a synchronisation stores is the last bar day, what a publication   *)
(* writes is its watermark: their inner races are in AnalysisStream, those *)
(* of an evaluation in AlertEvaluation.  delta and notifications change    *)
(* nothing modelled here; states only stamps bootstrap_completed_at.       *)
(***************************************************************************)
EXTENDS Integers, FiniteSets, Sequences

CONSTANTS EodJobs, ReconcileJobs,  \* messages Beat may have under way
          Symbols,
          Trades,        \* which symbols trade on a day
          Alphabet,      \* the symbols in symbol order
          MaxDay,        \* trading days considered
          Limit,         \* symbols per reconciliation
          MaxRetries,    \* scheduler_retry_max_attempts
          MaxFaults,     \* bound on failed items, failed steps, crashes, stalls
          MaxEdits,      \* bound on configuration changes
          Free, Orphan   \* the Redis key is absent, or left by a dead worker

(* The key is absent, names the job that holds it, or is left over.         *)
ASSUME LeaseAssumption == {Free, Orphan} \intersect (EodJobs \union ReconcileJobs) = {}
ASSUME BoundsAssumption == MaxDay \in Nat \ {0} /\ MaxRetries \in Nat /\ MaxFaults \in Nat
ASSUME SymbolsAssumption == IsFiniteSet(Symbols)

VARIABLES day, closed,   \* local date; past the end-of-day hour?
          stream,        \* analysis_streams per symbol
          watermark,     \* alert_instances.last_evaluated_trade_date per symbol
          order,         \* symbols by last_sync_at, oldest first
          lease,         \* apanel:task-lock:eod-pipeline
          task,          \* the state of each job
          sent,          \* Beat sent today's end-of-day job
          faults, edits
vars == <<day, closed, stream, watermark, order, lease, task, sent, faults, edits>>

Jobs == EodJobs \union ReconcileJobs
Days == 1..MaxDay
None == 0
NoInstance == -1   \* the rule was never evaluated; None: it was edited since
Running == {"daily_sync", "dividend_sync", "adjustment_ready", "indicator_snapshots",
            "alerts", "finish"}
Idle == [phase |-> "idle", day |-> None, symbols |-> {}, todo |-> {},
         failed |-> {}, retry |-> FALSE, retries |-> 0, stalled |-> FALSE]

Init ==
    /\ day = 1 /\ closed = FALSE
    /\ stream = [s \in Symbols |-> [bar |-> None, synced |-> None, dirty |-> FALSE,
                                    demand |-> TRUE, through |-> None]]
    /\ watermark = [s \in Symbols |-> NoInstance]
    /\ order = Alphabet
    /\ lease = Free /\ task = [j \in Jobs |-> Idle] /\ sent = FALSE
    /\ faults = 0 /\ edits = 0

Stream == [bar : 0..MaxDay, synced : 0..MaxDay, dirty : BOOLEAN, demand : BOOLEAN,
           through : 0..MaxDay]
Task == [phase : {"idle", "queued", "scanned"} \union Running, day : 0..MaxDay,
         symbols : SUBSET Symbols, todo : SUBSET Symbols, failed : SUBSET Symbols,
         retry : BOOLEAN, retries : 0..MaxRetries, stalled : BOOLEAN]
TypeOK ==
    /\ day \in Days /\ closed \in BOOLEAN /\ sent \in BOOLEAN
    /\ stream \in [Symbols -> Stream]
    /\ watermark \in [Symbols -> NoInstance..MaxDay]
    /\ lease \in Jobs \union {Free, Orphan} /\ task \in [Jobs -> Task]
    /\ faults \in 0..MaxFaults /\ edits \in Nat

Set(j, r) == task' = [task EXCEPT ![j] = r]
IsRunning(j) == task[j].phase \in Running
Fault(n) == faults + n <= MaxFaults /\ faults' = faults + n

-----------------------------------------------------------------------------
(* The calendar and the owner of the rules.                                 *)
Close ==
    /\ ~closed /\ closed' = TRUE /\ sent' = FALSE
    /\ UNCHANGED <<day, stream, watermark, order, lease, task, faults, edits>>
NextDay ==
    /\ closed /\ day < MaxDay /\ day' = day + 1 /\ closed' = FALSE /\ sent' = FALSE
    /\ UNCHANGED <<stream, watermark, order, lease, task, faults, edits>>

(* AlertService.update: the watermark is forgotten, demand advances.        *)
EditRule(s) ==
    /\ edits < MaxEdits /\ edits' = edits + 1
    /\ stream' = [stream EXCEPT ![s].demand = TRUE]
    /\ watermark' = [watermark EXCEPT ![s] = IF @ = NoInstance THEN @ ELSE None]
    /\ UNCHANGED <<day, closed, order, lease, task, sent, faults>>

-----------------------------------------------------------------------------
(* Beat, and the arguments of a job.                                        *)
SendEod(j) ==
    /\ task[j].phase = "idle" /\ closed /\ ~sent /\ sent' = TRUE
    /\ Set(j, [Idle EXCEPT !.phase = "queued"])
    /\ UNCHANGED <<day, closed, stream, watermark, order, lease, faults, edits>>
SendReconcile(j) ==
    /\ task[j].phase = "idle"
    /\ Set(j, [Idle EXCEPT !.phase = "queued"])
    /\ UNCHANGED <<day, closed, stream, watermark, order, lease, sent, faults, edits>>

(* recovery_trade_date: the last day whose end-of-day hour has passed.      *)
RecoveryDay == IF closed THEN day ELSE day - 1

(* pending_analysis_symbols.  An SQL comparison with a missing watermark is *)
(* not true.                                                                *)
Outdated(s, target) ==
    \/ stream[s].dirty \/ stream[s].demand \/ stream[s].through = None
    \/ stream[s].synced < target
Outstanding(s, target) ==
    /\ stream[s].through # None /\ stream[s].through <= target
    /\ \/ watermark[s] = NoInstance
       \/ watermark[s] # None /\ watermark[s] < stream[s].through
Pending(target) == {s \in Symbols : Outdated(s, target) \/ Outstanding(s, target)}

(* Oldest synchronisation first, then by symbol, at most Limit.             *)
InAlphabet == Alphabet
OldestFirst == order
Ahead(s, target) ==
    {x \in Pending(target) : \E i, k \in DOMAIN OldestFirst :
                                i < k /\ OldestFirst[i] = x /\ OldestFirst[k] = s}
Batch(target) == {s \in Pending(target) : Cardinality(Ahead(s, target)) < Limit}

(* The batch is read before the lease is taken.                             *)
Scan(j) ==
    /\ task[j].phase = "queued"
    /\ LET eod == j \in EodJobs
           target == IF eod THEN day ELSE RecoveryDay
           symbols == IF eod THEN Symbols ELSE Batch(target)
       IN Set(j, IF target = None \/ symbols = {} THEN Idle
                 ELSE [task[j] EXCEPT !.phase = "scanned", !.day = target, !.symbols = symbols])
    /\ UNCHANGED <<day, closed, stream, watermark, order, lease, sent, faults, edits>>

-----------------------------------------------------------------------------
(* RedisTaskLock                                                            *)

(* SET NX EX; a job that finds the key is skipped, not retried.             *)
Acquire(j) ==
    /\ task[j].phase = "scanned"
    /\ IF lease = Free
         THEN lease' = j /\ Set(j, [task[j] EXCEPT !.phase = "daily_sync"])
         ELSE Set(j, Idle) /\ UNCHANGED lease
    /\ UNCHANGED <<day, closed, stream, watermark, order, sent, faults, edits>>

(* Compare-and-delete: a late job leaves a newer owner's key alone.         *)
DeleteKey(j) == Free
Released(j) == IF lease = j THEN Free ELSE lease

(* The key of a dead worker outlives it until its TTL; a live one loses its *)
(* key only when its heartbeat is late by the whole TTL.                    *)
ExpireOrphan ==
    /\ lease = Orphan /\ lease' = Free
    /\ UNCHANGED <<day, closed, stream, watermark, order, task, sent, faults, edits>>
Stall(j) ==
    /\ lease = j /\ IsRunning(j) /\ Fault(1)
    /\ lease' = Free /\ Set(j, [task[j] EXCEPT !.stalled = TRUE])
    /\ UNCHANGED <<day, closed, stream, watermark, order, sent, edits>>

(* _retry_or_raise: back to the queue with a new date and batch, or dropped *)
(* when the budget is spent.                                                *)
Retried(j) ==
    IF task[j].retries < MaxRetries
      THEN [Idle EXCEPT !.phase = "queued", !.retries = task[j].retries + 1]
      ELSE Idle

(* _heartbeat, _run_with_lock_lease: a failed renewal cancels the work.     *)
HeartbeatLost(j) ==
    /\ IsRunning(j) /\ lease # j
    /\ Set(j, Retried(j))
    /\ UNCHANGED <<day, closed, stream, watermark, order, lease, sent, faults, edits>>

(* task_acks_late, task_reject_on_worker_lost: a job whose worker died is   *)
(* delivered again.                                                         *)
Crash(j) ==
    /\ IsRunning(j) /\ Fault(1)
    /\ lease' = IF lease = j THEN Orphan ELSE lease
    /\ Set(j, [Idle EXCEPT !.phase = "queued", !.retries = task[j].retries])
    /\ UNCHANGED <<day, closed, stream, watermark, order, sent, edits>>

-----------------------------------------------------------------------------
(* EODPipeline.run                                                          *)

(* A step that raises ends the run.                                         *)
StepFails(j) ==
    /\ IsRunning(j) /\ Fault(1)
    /\ lease' = Released(j) /\ Set(j, Retried(j))
    /\ UNCHANGED <<day, closed, stream, watermark, order, sent, edits>>

(* Completed bars up to the requested day.                                  *)
LastBar(s, d) ==
    LET traded == {x \in Days : x <= d /\ s \in Trades[x] /\ (x < day \/ closed)}
    IN IF traded = {} THEN None ELSE CHOOSE x \in traded : \A y \in traded : y <= x
Synced(s, d) ==
    LET bar == IF LastBar(s, d) > stream[s].bar THEN LastBar(s, d) ELSE stream[s].bar
    IN [stream[s] EXCEPT !.bar = bar, !.synced = day,
                         !.dirty = @ \/ bar # stream[s].bar]

(* Failed items are recorded per symbol; the others go on.                  *)
DailySync(j, failed, transient) ==
    LET good == task[j].symbols \ failed
    IN /\ task[j].phase = "daily_sync" /\ failed \subseteq task[j].symbols
       /\ Fault(Cardinality(failed))
       /\ stream' = [s \in Symbols |-> IF s \in good THEN Synced(s, task[j].day) ELSE stream[s]]
       /\ order' = SelectSeq(order, LAMBDA s : s \notin good)
                     \o SelectSeq(Alphabet, LAMBDA s : s \in good)
       /\ Set(j, [task[j] EXCEPT !.phase = "dividend_sync", !.failed = failed,
                                 !.retry = transient /\ failed # {}])
       /\ UNCHANGED <<day, closed, watermark, lease, sent, edits>>
DividendSync(j, transient) ==
    /\ task[j].phase = "dividend_sync"
    /\ Fault(IF transient THEN 1 ELSE 0)
    /\ Set(j, [task[j] EXCEPT !.phase = "adjustment_ready", !.retry = @ \/ transient])
    /\ UNCHANGED <<day, closed, stream, watermark, order, lease, sent, edits>>

(* Only symbols with a bar on the trade date go on.                         *)
AdjustmentReady(j) ==
    /\ task[j].phase = "adjustment_ready"
    /\ Set(j, [task[j] EXCEPT
                 !.phase = "indicator_snapshots", !.symbols = {},
                 !.todo = {s \in task[j].symbols \ task[j].failed :
                              s \in Trades[task[j].day] /\ task[j].day <= stream[s].bar}])
    /\ UNCHANGED <<day, closed, stream, watermark, order, lease, sent, faults, edits>>

(* AnalysisService.materialize, one transaction per symbol; symbols of the  *)
(* task becomes eligible_analysis_streams.                                  *)
NotStale(s, d) == stream[s].through <= d
Materialize(j, s) ==
    /\ task[j].phase = "indicator_snapshots" /\ s \in task[j].todo
    /\ IF NotStale(s, task[j].day)
         THEN /\ stream' = [stream EXCEPT ![s].through = task[j].day, ![s].demand = FALSE,
                                          ![s].dirty = @ /\ task[j].day < stream[s].bar]
              /\ Set(j, [task[j] EXCEPT !.todo = @ \ {s}, !.symbols = @ \union {s}])
         ELSE Set(j, [task[j] EXCEPT !.todo = @ \ {s}]) /\ UNCHANGED stream
    /\ UNCHANGED <<day, closed, watermark, order, lease, sent, faults, edits>>
Published(j) ==
    /\ task[j].phase = "indicator_snapshots" /\ task[j].todo = {}
    /\ Set(j, [task[j] EXCEPT !.phase = "alerts", !.todo = task[j].symbols])
    /\ UNCHANGED <<day, closed, stream, watermark, order, lease, sent, faults, edits>>

(* evaluate_all, one transaction per rule: a stream that is no longer       *)
(* current, or published through another day, is left for a later run.      *)
Evaluate(j, s) ==
    /\ task[j].phase = "alerts" /\ s \in task[j].todo
    /\ Set(j, [task[j] EXCEPT !.todo = @ \ {s}])
    /\ watermark' = IF ~stream[s].dirty /\ ~stream[s].demand /\ stream[s].through = task[j].day
                       /\ watermark[s] < task[j].day
                      THEN [watermark EXCEPT ![s] = task[j].day] ELSE watermark
    /\ UNCHANGED <<day, closed, stream, order, lease, sent, faults, edits>>
Evaluated(j) ==
    /\ task[j].phase = "alerts" /\ task[j].todo = {}
    /\ Set(j, [task[j] EXCEPT !.phase = "finish"])
    /\ UNCHANGED <<day, closed, stream, watermark, order, lease, sent, faults, edits>>

(* The end of execute_eod_pipeline: transient issues ask for a retry of the *)
(* whole job.                                                               *)
Finish(j) ==
    /\ task[j].phase = "finish"
    /\ lease' = Released(j)
    /\ Set(j, IF task[j].retry THEN Retried(j) ELSE Idle)
    /\ UNCHANGED <<day, closed, stream, watermark, order, sent, faults, edits>>

-----------------------------------------------------------------------------
Progress(j) ==
    \/ Scan(j) \/ Acquire(j) \/ DailySync(j, {}, FALSE) \/ DividendSync(j, FALSE)
    \/ AdjustmentReady(j) \/ (\E s \in Symbols : Materialize(j, s)) \/ Published(j)
    \/ (\E s \in Symbols : Evaluate(j, s)) \/ Evaluated(j) \/ Finish(j)
Trouble(j) ==
    \/ \E failed \in (SUBSET Symbols) \ {{}}, transient \in BOOLEAN :
         DailySync(j, failed, transient)
    \/ DividendSync(j, TRUE)
    \/ StepFails(j) \/ Crash(j) \/ Stall(j) \/ HeartbeatLost(j)

Next ==
    \/ Close \/ NextDay \/ ExpireOrphan
    \/ \E s \in Symbols : EditRule(s)
    \/ \E j \in EodJobs : SendEod(j)
    \/ \E j \in ReconcileJobs : SendReconcile(j)
    \/ \E j \in Jobs : Progress(j) \/ Trouble(j)

Spec == Init /\ [][Next]_vars

(* Beat keeps sending reconciliations, workers keep working, the days pass  *)
(* and a TTL lapses.  Nothing is assumed about faults.                      *)
FairSpec ==
    /\ Spec
    /\ WF_vars(Close) /\ WF_vars(NextDay) /\ WF_vars(ExpireOrphan)
    /\ \A j \in ReconcileJobs : WF_vars(SendReconcile(j))
    /\ \A j \in Jobs : WF_vars(Progress(j))

-----------------------------------------------------------------------------
(* Properties.                                                              *)

(* A job runs without its lease only if that lease itself ran out: neither  *)
(* a late job's release, nor a redelivered or retried one, ever takes the   *)
(* key from the job that holds it ("a late task cannot delete a newer       *)
(* owner's lock after its TTL has expired").                                *)
OverlapOnlyAfterStall ==
    \A j \in Jobs : IsRunning(j) => lease = j \/ task[j].stalled

(* Once the days have passed, every symbol that traded on the last day      *)
(* shows a current publication, whatever was lost, retried, crashed or      *)
(* edited before, and although a suspended symbol whose demand changed      *)
(* stays pending and is reconciled for ever.                                *)
EveryTradedSymbolSettles ==
    \A s \in Symbols :
        <>[](s \in Trades[MaxDay] => ~stream[s].dirty /\ ~stream[s].demand)

(* When reconciliation finds nothing to do, no published observation of a   *)
(* traded symbol is left unevaluated: reconciliation of streams and alert   *)
(* watermarks covers a worker that dies after publishing.                   *)
NothingPendingMeansEvaluated ==
    Pending(RecoveryDay) = {} /\ (\A j \in Jobs : task[j].phase = "idle")
        => \A s \in Symbols : watermark[s] >= stream[s].through

=============================================================================
