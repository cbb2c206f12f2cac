-------------------------- MODULE HistoryReadiness --------------------------
(***************************************************************************)
(* Enough history for what the users ask of one stock.  A configuration    *)
(* change may ask for deeper history and sends a best-effort bootstrap     *)
(* task; the task, deduplicated by a Redis lock per symbol, and the        *)
(* end-of-day pipeline share ensure_ready.  Messages are lost, workers     *)
(* crash, requests fail, two tasks overlap.                                *)
(*                                                                         *)
(* One day is observed: the stock trades every day, the provider knows     *)
(* days 1 to today, and the stock is new or was monitored with the minimum *)
(* history through an earlier day.  A synchronisation is one step (its     *)
(* races are in AnalysisStream).                                           *)
(***************************************************************************)
EXTENDS Integers, Sequences, FiniteSets, FiniteSetsExt, SequencesExt

CONSTANTS Adjustments,   \* sequence of analysis_adjustments
          Depths,        \* bars the demanded indicators may need
          MinBars,       \* analysis_bootstrap_min_bars
          Overlap,       \* days before the last bar an incremental sync repeats
          today,         \* the local date, past the end-of-day hour
          Earlier,       \* days the stock may have been monitored through before; 0: never
          Bootstraps,    \* bootstrap messages under way at once
          Eod,           \* the pipeline
          MaxRetries, MaxFaults, MaxEdits,
          Free, Orphan   \* the Redis key is absent, or left by a dead worker

\* The minimum is a setting greater than zero; yesterday is a day of the provider's.
HistoryAssumption ==
    /\ Adjustments \in Seq(ToSet(Adjustments)) /\ Adjustments # <<>>
    /\ Depths \subseteq Nat /\ Depths # {} /\ MinBars \in Nat \ {0} /\ Overlap \in Nat
    /\ today \in Nat \ {0, 1} /\ Earlier \subseteq 0..today
    /\ Eod \notin Bootstraps

VARIABLES demand,        \* bars needed by the collected requests
          prepared,      \* bootstrap_completed_at is not before the membership
          stream,        \* bars, history_depth and state_through per adjustment
          lock,          \* apanel:task-lock:bootstrap-security-data
          worker,        \* state of each message and of the pipeline
          faults, edits
vars == <<demand, prepared, stream, lock, worker, faults, edits>>

Modes == ToSet(Adjustments)
\* What is left of the adjustments is worked off in their order.
First(todo) == Adjustments[Min({i \in DOMAIN Adjustments : Adjustments[i] \in todo})]
Rest(todo) == todo \ {First(todo)}
None == 0
\* max(minimum_bars, required_history_bars(requests)).
Required == Max({MinBars, demand})
LastBars(n, end) == {d \in 1..end : end - n < d}

Idle == [pc |-> "idle", required |-> 0, end |-> None, todo |-> {}, retries |-> 0,
         issue |-> FALSE, failed |-> {}, dividends |-> FALSE, published |-> {}]
Init ==
    /\ demand = Min(Depths)
    /\ \E d \in Earlier :
          /\ prepared = (d # None)
          /\ stream = [a \in Modes |-> [bars |-> LastBars(MinBars, d), through |-> d,
                                       depth |-> IF d = None THEN 0 ELSE MinBars]]
    /\ lock = Free
    /\ worker = [w \in Bootstraps \union {Eod} |-> Idle]
    /\ faults = 0 /\ edits = 0

Set(w, r) == worker' = [worker EXCEPT ![w] = r]
Fault == faults < MaxFaults /\ faults' = faults + 1

-----------------------------------------------------------------------------
(* The API: the change commits, then the task is sent, or not.              *)

\* enqueue_security_bootstrap: a failure to reach the broker is only logged.
Enqueue ==
    \/ UNCHANGED worker
    \/ \E b \in Bootstraps : worker[b].pc = "idle" /\ Set(b, [Idle EXCEPT !.pc = "queued"])

\* WatchTableService.add_stock: a new membership is not prepared.
AddStock(n) ==
    /\ edits < MaxEdits /\ edits' = edits + 1
    /\ demand' = n /\ prepared' = FALSE
    /\ Enqueue
    /\ UNCHANGED <<stream, lock, faults>>

\* A column or a rule changes its target.
ChangeTarget(n) ==
    /\ edits < MaxEdits /\ edits' = edits + 1
    /\ demand' = n
    /\ Enqueue
    /\ UNCHANGED <<prepared, stream, lock, faults>>

-----------------------------------------------------------------------------
(* execute_security_bootstrap.                                              *)

\* A message that finds the key is skipped, whatever it was sent for; otherwise the
\* requests are collected and the cutoff is yesterday.
Acquire(b) ==
    /\ worker[b].pc = "queued"
    /\ IF lock = Free
         THEN /\ lock' = b
              /\ Set(b, [worker[b] EXCEPT !.pc = "begin", !.required = Required,
                                          !.end = today - 1, !.todo = Modes])
         ELSE Set(b, Idle) /\ UNCHANGED lock
    /\ UNCHANGED <<demand, prepared, stream, faults, edits>>

Released(b) == IF lock = b THEN Free ELSE lock

\* _retry_or_raise.
Retried(b) ==
    IF worker[b].retries < MaxRetries
      THEN [Idle EXCEPT !.pc = "queued", !.retries = worker[b].retries + 1]
      ELSE Idle

\* The lease must still be held when the work is done; the stamp is repeated.
Complete(b) ==
    /\ worker[b].pc = "completed" /\ lock = b
    /\ prepared' = TRUE /\ lock' = Free /\ Set(b, Idle)
    /\ UNCHANGED <<demand, stream, faults, edits>>

\* A dead worker's message is delivered again; its key stays until the TTL.
Crash(b) ==
    /\ worker[b].pc \notin {"idle", "queued"} /\ Fault
    /\ lock' = (IF lock = b THEN Orphan ELSE lock)
    /\ Set(b, [Idle EXCEPT !.pc = "queued", !.retries = worker[b].retries])
    /\ UNCHANGED <<demand, prepared, stream, edits>>
Expire ==
    /\ lock = Orphan /\ lock' = Free
    /\ UNCHANGED <<demand, prepared, stream, worker, faults, edits>>
\* The heartbeat is late by the whole TTL.
Stall(b) ==
    /\ lock = b /\ Fault /\ lock' = Free
    /\ UNCHANGED <<demand, prepared, stream, worker, edits>>

-----------------------------------------------------------------------------
(* SecurityDataBootstrapService.ensure_ready, in a task or in the pipeline. *)

\* What is already published is proof of completion.
Begin(w) ==
    /\ worker[w].pc = "begin"
    /\ Set(w, [worker[w] EXCEPT !.pc = "check",
                                !.end = Max({@} \union {stream[a].through : a \in Modes})])
    /\ UNCHANGED <<demand, prepared, stream, lock, faults, edits>>

\* A stock too young for the depth is not asked for it again.
OnlyOnce(a, required, end) ==
    Cardinality(stream[a].bars \cap 1..end) < required /\ stream[a].depth = 0
NeedsHistory(a, required, end) ==
    Cardinality(stream[a].bars \cap 1..end) < required /\ stream[a].depth < required

Check(w) ==
    LET r == worker[w]
        needs == NeedsHistory(First(r.todo), r.required, r.end)
    IN
    /\ r.pc = "check"
    /\ Set(w, [r EXCEPT !.pc = IF needs THEN "sync" ELSE "materialize"])
    /\ UNCHANGED <<demand, prepared, stream, lock, faults, edits>>

\* sync_daily with lookback_bars: complete_sync keeps the greatest depth asked for.
Deepened(a, n, end) ==
    [stream EXCEPT ![a].bars = @ \union LastBars(n, end), ![a].depth = Max({@, n})]

SyncHistory(w) ==
    LET r == worker[w] IN
    /\ r.pc = "sync"
    /\ stream' = Deepened(First(r.todo), r.required, r.end)
    /\ Set(w, [r EXCEPT !.pc = "materialize"])
    /\ UNCHANGED <<demand, prepared, lock, faults, edits>>

\* AnalysisService.materialize refuses a cutoff without bars or before the watermark.
Latest(a, end) == Max({None} \union (stream[a].bars \cap 1..end))
Publishable(a, end) == Latest(a, end) # None /\ stream[a].through <= Latest(a, end)

Materialize(w) ==
    LET r == worker[w]
        a == First(r.todo)
    IN
    /\ r.pc = "materialize" /\ Publishable(a, r.end)
    /\ stream' = [stream EXCEPT ![a].through = Latest(a, r.end)]
    /\ Set(w, [r EXCEPT !.todo = Rest(@), !.pc = IF Rest(r.todo) # {} THEN "check" ELSE "dividends"])
    /\ UNCHANGED <<demand, prepared, lock, faults, edits>>

SyncDividends(w) ==
    /\ worker[w].pc = "dividends"
    /\ Set(w, [worker[w] EXCEPT !.pc = "stamp"])
    /\ UNCHANGED <<demand, prepared, stream, lock, faults, edits>>

Stamp(w) ==
    /\ worker[w].pc = "stamp"
    /\ prepared' = TRUE
    /\ Set(w, IF w = Eod THEN [worker[w] EXCEPT !.pc = "daily_sync", !.todo = Modes]
              ELSE [worker[w] EXCEPT !.pc = "completed"])
    /\ UNCHANGED <<demand, stream, lock, faults, edits>>

\* An error, or the loss of the lease, ends ensure_ready: the task is retried, the
\* pipeline records an issue for the symbol and goes on.
Abandoned(w) ==
    /\ lock' = Released(w)
    /\ Set(w, IF w = Eod THEN [worker[w] EXCEPT !.pc = "daily_sync", !.todo = Modes, !.issue = TRUE]
              ELSE Retried(w))

Refused(w) ==
    /\ \/ worker[w].pc = "materialize" /\ ~Publishable(First(worker[w].todo), worker[w].end)
       \/ w # Eod /\ worker[w].pc \notin {"idle", "queued"} /\ lock # w
    /\ Abandoned(w)
    /\ UNCHANGED <<demand, prepared, stream, faults, edits>>
SyncFails(w) ==
    /\ worker[w].pc \in {"sync", "dividends"} /\ Fault
    /\ Abandoned(w)
    /\ UNCHANGED <<demand, prepared, stream, edits>>

-----------------------------------------------------------------------------
(* The steps of the end-of-day pipeline that prepare the stock.             *)

\* collect_indicator_requests.  The weekly repair (force_history), whose daily sync fetches
\* the whole required window, is left out.
SendEod ==
    /\ worker[Eod].pc = "idle"
    /\ Set(Eod, [Idle EXCEPT !.pc = "readiness", !.required = Required, !.end = today])
    /\ UNCHANGED <<demand, prepared, stream, lock, faults, edits>>

\* ensure_minimum_history: only the adjustments that lack bars.
Readiness ==
    LET r == worker[Eod]
        missing == {a \in Modes : NeedsHistory(a, r.required, r.end)}
    IN
    /\ r.pc = "readiness"
    /\ Set(Eod, IF missing = {} THEN [r EXCEPT !.pc = "daily_sync", !.todo = Modes]
                ELSE [r EXCEPT !.pc = "begin", !.todo = missing])
    /\ UNCHANGED <<demand, prepared, stream, lock, faults, edits>>

\* _sync_required_history_in_chunks: from shortly before the last bar, or the whole
\* required window when there is none.
Recent(a, r) ==
    LET last == Latest(a, today)
    IN IF last = None THEN Deepened(a, r.required, today)
       ELSE [stream EXCEPT ![a].bars = @ \union ((Max({1, last - Overlap}))..today)]

DailySync(fails) ==
    LET r == worker[Eod]
        a == First(r.todo)
    IN
    /\ r.pc = "daily_sync"
    /\ IF fails THEN Fault /\ UNCHANGED stream ELSE stream' = Recent(a, r) /\ UNCHANGED faults
    /\ Set(Eod, [r EXCEPT !.failed = IF fails THEN @ \union {a} ELSE @, !.todo = Rest(@),
                          !.pc = IF Rest(r.todo) # {} THEN @ ELSE "dividend_sync"])
    /\ UNCHANGED <<demand, prepared, lock, edits>>

DividendSync(fails) ==
    /\ worker[Eod].pc = "dividend_sync"
    /\ IF fails THEN Fault ELSE UNCHANGED faults
    /\ Set(Eod, [worker[Eod] EXCEPT !.pc = "adjustment_ready", !.dividends = ~fails])
    /\ UNCHANGED <<demand, prepared, stream, lock, edits>>

AdjustmentReady ==
    LET r == worker[Eod] IN
    /\ r.pc = "adjustment_ready"
    /\ Set(Eod, [r EXCEPT !.pc = "snapshots",
                          !.todo = {a \in Modes : today \in stream[a].bars
                                                       /\ a \notin r.failed /\ ~r.issue}])
    /\ UNCHANGED <<demand, prepared, stream, lock, faults, edits>>

Snapshots ==
    LET r == worker[Eod]
        a == First(r.todo)
    IN
    /\ r.pc = "snapshots" /\ r.todo # {}
    /\ IF Publishable(a, today)
         THEN /\ stream' = [stream EXCEPT ![a].through = Latest(a, today)]
              /\ Set(Eod, [r EXCEPT !.todo = Rest(@), !.published = @ \union {a}])
         ELSE Set(Eod, [r EXCEPT !.todo = Rest(@)]) /\ UNCHANGED stream
    /\ UNCHANGED <<demand, prepared, lock, faults, edits>>

\* states: a stock is prepared when every adjustment was published and its dividends
\* are known.
States ==
    LET r == worker[Eod] IN
    /\ r.pc = "snapshots" /\ r.todo = {}
    /\ prepared' = (prepared \/ (r.dividends /\ r.published = Modes))
    /\ Set(Eod, Idle)
    /\ UNCHANGED <<demand, stream, lock, faults, edits>>

\* A step raises or the worker dies; Beat, a retry or the reconciliation starts over.
EodFails ==
    /\ worker[Eod].pc # "idle" /\ Fault
    /\ Set(Eod, Idle)
    /\ UNCHANGED <<demand, prepared, stream, lock, edits>>

-----------------------------------------------------------------------------
EnsureReady(w) ==
    Begin(w) \/ Check(w) \/ SyncHistory(w) \/ Materialize(w) \/ SyncDividends(w) \/ Stamp(w)
    \/ Refused(w)
EodStep ==
    \/ SendEod \/ Readiness \/ EnsureReady(Eod) \/ DailySync(FALSE) \/ DividendSync(FALSE)
    \/ AdjustmentReady \/ Snapshots \/ States

Next ==
    \/ Expire \/ EodStep \/ EodFails
    \/ SyncFails(Eod) \/ DailySync(TRUE) \/ DividendSync(TRUE)
    \/ \E n \in Depths : AddStock(n) \/ ChangeTarget(n)
    \/ \E b \in Bootstraps : \/ Acquire(b) \/ EnsureReady(b) \/ SyncFails(b) \/ Complete(b)
                             \/ Crash(b) \/ Stall(b)
Spec == Init /\ [][Next]_vars

-----------------------------------------------------------------------------
(* Properties.                                                              *)

\* Whatever bootstrap messages were lost, skipped because another one held the lock,
\* retried in vain or left by a dead worker, and whatever they stored meanwhile: a
\* pipeline run that records no issue leaves the stock prepared, published through
\* today and, unless its stored bars have a gap, with every bar, of those the provider
\* has, that the demand it collected needs, in both adjustments.  It is the recovery
\* path of every lost message.  A gap is what a deeper request leaves behind that
\* reaches a stock unmonitored for longer than the depth: readiness only counts bars
\* and the daily sync starts near the last one, so neither sees it.
Gapless(days) == \A d, e \in days : d..e \subseteq days

CleanRunPrepares ==
    [][LET r == worker[Eod]
           clean == /\ r.pc = "snapshots" /\ r.todo = {} /\ worker'[Eod] = Idle
                    /\ faults' = faults /\ ~r.issue /\ r.failed = {} /\ r.dividends
       IN clean => /\ prepared'
                   /\ \A a \in DOMAIN stream :
                        /\ stream'[a].through = today
                        /\ Gapless(stream'[a].bars) =>
                              LastBars(r.required, today) \subseteq stream'[a].bars]_vars
=============================================================================
