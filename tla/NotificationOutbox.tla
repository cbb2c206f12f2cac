-------------------------- MODULE NotificationOutbox --------------------------
(***************************************************************************)
(* The notification outbox: rows committed PENDING with the alert edge     *)
(* that triggered them and delivered by workers of several processes (the  *)
(* EOD pipeline, the recovery scan, a user's retry).  A worker holds the   *)
(* row lock over the webhook POST and commits the outcome; commits may     *)
(* fail or be ambiguous, connections drop, workers crash, POSTs time out   *)
(* after they were received.                                               *)
(*                                                                         *)
(* Rows are numbered in creation order.  Time is two sets: rows older than *)
(* the recovery window and failed rows whose backoff has elapsed.          *)
(***************************************************************************)
EXTENDS Integers, FiniteSets

CONSTANTS MaxRows,       \* notifications
          Malformed,     \* rows whose stored content cannot be parsed
          Workers,       \* delivering processes
          MaxAttempts,   \* NOTIFICATION_MAX_AUTO_ATTEMPTS
          CommitTries,   \* NOTIFICATION_COMMIT_RECOVERY_ATTEMPTS
          Limit,         \* rows per recovery scan
          MaxFaults,     \* bound on crashes, lost connections, failed commits
          MaxManual      \* bound on manual retries

Rows == 1..MaxRows

ASSUME OutboxAssumption ==
    /\ MaxRows \in Nat /\ Malformed \subseteq Rows
    /\ MaxAttempts \in Nat \ {0} /\ CommitTries \in Nat \ {0} /\ Limit \in Nat \ {0}
    /\ MaxFaults \in Nat /\ MaxManual \in Nat

VARIABLES row,        \* notifications table
          aged,       \* rows past created_at + recovery window
          due,        \* rows past next_retry_at
          lock,       \* FOR UPDATE holders
          worker,     \* delivering processes
          delivered,  \* rows the webhook has received
          faults, manual
vars == <<row, aged, due, lock, worker, delivered, faults, manual>>

Row == [status : {"absent", "PENDING", "SENT", "FAILED"}, attempts : Nat,
        code : {"none", "transient", "permanent", "invalid"}, retry : BOOLEAN]
Absent == [status |-> "absent", attempts |-> 0, code |-> "none", retry |-> FALSE]
Pending == [Absent EXCEPT !.status = "PENDING"]

Phases == {"idle", "claim", "posting", "commit", "recover"}
Worker == [phase : Phases, kind : {"initial", "scan", "retry"}, todo : SUBSET Rows,
           base : Row, outcome : Row, tries : 0..CommitTries, lost : BOOLEAN]
IdleWorker == [phase |-> "idle", kind |-> "initial", todo |-> {}, base |-> Absent,
               outcome |-> Absent, tries |-> 0, lost |-> FALSE]
Free == {}

Init ==
    /\ row = [n \in Rows |-> Absent] /\ aged = {} /\ due = {}
    /\ lock = [n \in Rows |-> Free]
    /\ worker = [w \in Workers |-> IdleWorker]
    /\ delivered = {} /\ faults = 0 /\ manual = 0

-----------------------------------------------------------------------------
(* Time.                                                                    *)

WindowPasses(n) ==
    /\ row[n].status # "absent" /\ n \notin aged
    /\ aged' = aged \union {n}
    /\ UNCHANGED <<row, due, lock, worker, delivered, faults, manual>>

BackoffElapses(n) ==
    /\ row[n].retry /\ n \notin due
    /\ due' = due \union {n}
    /\ UNCHANGED <<row, aged, lock, worker, delivered, faults, manual>>

-----------------------------------------------------------------------------
(* Starting a delivery.                                                     *)

Begin(w, kind, batch) ==
    /\ worker[w].phase = "idle" /\ batch # {}
    /\ worker' = [worker EXCEPT ![w] =
                     [IdleWorker EXCEPT !.phase = "claim", !.kind = kind, !.todo = batch]]

(* The alerts step commits the triggered rows; the notifications step of    *)
(* the same pipeline then dispatches exactly those.                         *)
Enqueue(w, batch) ==
    /\ \A n \in batch : row[n] = Absent /\ \A m \in 1..n : row[m] # Absent \/ m \in batch
    /\ row' = [n \in Rows |-> IF n \in batch THEN Pending ELSE row[n]]
    /\ Begin(w, "initial", batch)
    /\ UNCHANGED <<aged, due, lock, delivered, faults, manual>>

(* What the recovery may take: an abandoned PENDING row, or a due failure.  *)
AnyFailure(n) ==
    \/ row[n].status = "PENDING" /\ n \in aged
    \/ row[n].status = "FAILED"
Recoverable(n) ==
    \/ row[n].status = "PENDING" /\ n \in aged
    \/ /\ row[n].status = "FAILED" /\ row[n].retry /\ n \in due
       /\ row[n].attempts < MaxAttempts

FailuresOnly == {n \in Rows : Recoverable(n) /\ row[n].status = "FAILED"}
ScanBatch ==
    LET found == {n \in Rows : Recoverable(n)}
    IN {n \in found : Cardinality({m \in found : m < n}) < Limit}

StartScan(w) ==
    /\ Begin(w, "scan", ScanBatch)
    /\ UNCHANGED <<row, aged, due, lock, delivered, faults, manual>>

StartRetry(w, n) ==
    /\ row[n].status # "absent" /\ manual < MaxManual
    /\ manual' = manual + 1
    /\ Begin(w, "retry", {n})
    /\ UNCHANGED <<row, aged, due, lock, delivered, faults>>

-----------------------------------------------------------------------------
(* Delivering the first row of the batch.                                   *)

Current(w, n) == n \in worker[w].todo /\ \A m \in worker[w].todo : n <= m

(* The next row of the batch, or done.                                      *)
Advance(w, n) ==
    IF worker[w].todo = {n} THEN IdleWorker
    ELSE [IdleWorker EXCEPT !.phase = "claim", !.kind = worker[w].kind,
                            !.todo = worker[w].todo \ {n}]
Released(w, n) == IF lock[n] = {w} THEN Free ELSE lock[n]

(* Eligibility, rechecked under the row lock.                               *)
MayDeliver(w, n) ==
    CASE worker[w].kind = "initial" -> row[n].status = "PENDING"
      [] worker[w].kind = "scan" -> Recoverable(n)
      [] worker[w].kind = "retry" -> \/ row[n].status = "FAILED"
                                     \/ row[n].status = "PENDING" /\ n \in aged

(* _locked_notification waits for the lock and remembers what it read.      *)
NoRowLock(n) == TRUE
RowUnlocked(n) == lock[n] = Free

Invalid(r) == [r EXCEPT !.status = "FAILED", !.code = "invalid", !.retry = FALSE]

ClaimRow(w, n) ==
    /\ worker[w].phase = "claim" /\ Current(w, n)
    /\ RowUnlocked(n)
    /\ IF MayDeliver(w, n)
         THEN /\ lock' = [lock EXCEPT ![n] = {w}]
              /\ worker' = [worker EXCEPT ![w] =
                    IF n \in Malformed
                      THEN [@ EXCEPT !.phase = "commit", !.base = row[n],
                                     !.outcome = Invalid(row[n])]
                      ELSE [@ EXCEPT !.phase = "posting", !.base = row[n]]]
         ELSE /\ worker' = [worker EXCEPT ![w] = Advance(w, n)]
              /\ UNCHANGED lock
    /\ UNCHANGED <<row, aged, due, delivered, faults, manual>>

(* The outcome of attempt r.attempts + 1: a transient failure is scheduled  *)
(* again while automatic attempts remain.                                   *)
TimeoutIsSent(r, result) ==
    [status |-> IF result = "permanent" THEN "FAILED" ELSE "SENT", attempts |-> r.attempts + 1,
     code |-> IF result = "permanent" THEN result ELSE "none", retry |-> FALSE]
Outcome(r, result) ==
    [status |-> IF result = "ok" THEN "SENT" ELSE "FAILED", attempts |-> r.attempts + 1,
     code |-> IF result = "ok" THEN "none" ELSE result,
     retry |-> result = "transient" /\ r.attempts + 1 < MaxAttempts]

(* The webhook call returns, fails or times out within its deadline; a      *)
(* failure does not tell whether the message was received.                  *)
ProviderAnswers(w, n, result, received) ==
    /\ worker[w].phase = "posting" /\ Current(w, n)
    /\ result = "ok" => received
    /\ delivered' = IF received THEN delivered \union {n} ELSE delivered
    /\ worker' = [worker EXCEPT ![w] =
                     [@ EXCEPT !.phase = "commit", !.outcome = Outcome(worker[w].base, result)]]
    /\ UNCHANGED <<row, aged, due, lock, faults, manual>>

Store(n, r) == row' = [row EXCEPT ![n] = r] /\ due' = due \ {n}

Commit(w, n) ==
    /\ worker[w].phase = "commit" /\ Current(w, n) /\ ~worker[w].lost
    /\ Store(n, worker[w].outcome)
    /\ lock' = [lock EXCEPT ![n] = Released(w, n)]
    /\ worker' = [worker EXCEPT ![w] = Advance(w, n)]
    /\ UNCHANGED <<aged, delivered, faults, manual>>

(* NOTIFICATION_COMMIT_RECOVERY_ATTEMPTS tries to recover an outcome.       *)
RecoveryBudget == CommitTries

(* The commit raises, whether or not it was applied.  Only the malformed    *)
(* path of a manual retry has no recovery.                                  *)
CommitFails(w, n, applied) ==
    /\ worker[w].phase = "commit" /\ Current(w, n)
    /\ IF worker[w].lost
         THEN ~applied /\ UNCHANGED faults
         ELSE faults < MaxFaults /\ faults' = faults + 1
    /\ IF applied THEN Store(n, worker[w].outcome) ELSE UNCHANGED <<row, due>>
    /\ lock' = [lock EXCEPT ![n] = Released(w, n)]
    /\ worker' = [worker EXCEPT ![w] =
                     IF @.kind = "retry" /\ n \in Malformed THEN IdleWorker
                     ELSE [@ EXCEPT !.phase = "recover", !.tries = RecoveryBudget, !.lost = FALSE]]
    /\ UNCHANGED <<aged, delivered, manual>>

(* A terminal row that is not the one this worker claimed was written by    *)
(* somebody else, or by this worker's own ambiguous commit.                 *)
NoWinner(w, n) == FALSE
ConcurrentWinner(w, n) == row[n].status \in {"SENT", "FAILED"} /\ row[n] # worker[w].base

(* Outcome recovery: re-lock, inspect, and write the cached outcome unless  *)
(* there is a winner; all one transaction, which may fail or be ambiguous   *)
(* again.  The last failure aborts the rest of the batch.                   *)
RecoverOutcome(w, n, commits, applied) ==
    /\ worker[w].phase = "recover" /\ Current(w, n)
    /\ RowUnlocked(n)
    /\ IF commits THEN UNCHANGED faults ELSE faults < MaxFaults /\ faults' = faults + 1
    /\ IF ~ConcurrentWinner(w, n) /\ (commits \/ applied)
         THEN Store(n, worker[w].outcome) ELSE UNCHANGED <<row, due>>
    /\ worker' = [worker EXCEPT ![w] =
                     IF commits THEN Advance(w, n)
                     ELSE IF worker[w].tries > 1
                       THEN [worker[w] EXCEPT !.tries = worker[w].tries - 1]
                     ELSE IdleWorker]
    /\ UNCHANGED <<aged, lock, delivered, manual>>

(* The worker dies; its transaction is rolled back and its lock released.   *)
Crash(w, n, received) ==
    /\ worker[w].phase # "idle" /\ Current(w, n)
    /\ faults < MaxFaults /\ faults' = faults + 1
    /\ received => worker[w].phase = "posting"
    /\ delivered' = IF received THEN delivered \union {n} ELSE delivered
    /\ lock' = [lock EXCEPT ![n] = Released(w, n)]
    /\ worker' = [worker EXCEPT ![w] = IdleWorker]
    /\ UNCHANGED <<row, aged, due, manual>>

(* The database drops the connection while the worker is waiting for the    *)
(* webhook: the lock is gone, the worker finds out when it commits.         *)
ConnectionLost(w, n) ==
    /\ worker[w].phase \in {"posting", "commit"} /\ Current(w, n) /\ ~worker[w].lost
    /\ faults < MaxFaults /\ faults' = faults + 1
    /\ lock' = [lock EXCEPT ![n] = Released(w, n)]
    /\ worker' = [worker EXCEPT ![w] = [@ EXCEPT !.lost = TRUE]]
    /\ UNCHANGED <<row, aged, due, delivered, manual>>

-----------------------------------------------------------------------------
Results == {"ok", "transient", "permanent"}

(* Steps a running worker takes without a new fault.                        *)
Progress(w) ==
    \E n \in Rows :
        \/ ClaimRow(w, n)
        \/ \E result \in Results, received \in BOOLEAN : ProviderAnswers(w, n, result, received)
        \/ Commit(w, n)
        \/ worker[w].lost /\ CommitFails(w, n, FALSE)
        \/ RecoverOutcome(w, n, TRUE, TRUE)

Fault(w) ==
    \E n \in Rows :
        \/ \E applied \in BOOLEAN : ~worker[w].lost /\ CommitFails(w, n, applied)
        \/ \E applied \in BOOLEAN : RecoverOutcome(w, n, FALSE, applied)
        \/ \E received \in BOOLEAN : Crash(w, n, received)
        \/ ConnectionLost(w, n)

Start(w) == \/ \E batch \in SUBSET Rows : Enqueue(w, batch)
            \/ StartScan(w)
            \/ \E n \in Rows : StartRetry(w, n)

Next == \/ \E n \in Rows : WindowPasses(n) \/ BackoffElapses(n)
        \/ \E w \in Workers : Start(w) \/ Progress(w) \/ Fault(w)

Spec == Init /\ [][Next]_vars

(* Time passes, Beat keeps scanning every five minutes, and a started       *)
(* delivery goes on: every wait in it has a timeout, and a row lock is held *)
(* only over such waits.                                                    *)
Fairness ==
    /\ \A n \in Rows : WF_vars(WindowPasses(n)) /\ WF_vars(BackoffElapses(n))
    /\ WF_vars(\E w \in Workers : StartScan(w))
    /\ \A w \in Workers : WF_vars(Progress(w))

FairSpec == Spec /\ Fairness

-----------------------------------------------------------------------------
(* Properties.                                                              *)

(* Rows, worker records and bounds are well formed: tries stay within the   *)
(* recovery budget.                                                         *)
TypeOK ==
    /\ row \in [Rows -> Row] /\ aged \in SUBSET Rows /\ due \in SUBSET Rows
    /\ lock \in [Rows -> SUBSET Workers] /\ worker \in [Workers -> Worker]
    /\ delivered \in SUBSET Rows /\ faults \in Nat /\ manual \in Nat

(* A row says SENT only after the webhook received the message, whichever   *)
(* mixture of ambiguous commits and takeovers produced the stored outcome.  *)
SentIsDelivered == \A n \in Rows : row[n].status = "SENT" => n \in delivered

(* "The row lock avoids several workers posting the same message at once":  *)
(* pipeline, scan and manual retry overlap in a POST of one row only when   *)
(* the database dropped the connection of one of them.                      *)
NoConcurrentPost ==
    \A v, w \in Workers, n \in Rows :
        /\ v # w
        /\ worker[v].phase = "posting" /\ Current(v, n)
        /\ worker[w].phase = "posting" /\ Current(w, n)
        => worker[v].lost \/ worker[w].lost

(* "Commit a terminal outcome without overwriting a concurrent winner": a   *)
(* row is never rewritten once SENT, never returns to PENDING, and every    *)
(* rewrite is exactly one more counted attempt (or marks broken content),   *)
(* so no cached outcome replaces a later attempt's.                         *)
OutcomesAreNotOverwritten ==
    [][\A n \in Rows :
          row[n] # Absent /\ row'[n] # row[n] =>
             /\ row[n].status # "SENT" /\ row'[n].status \in {"SENT", "FAILED"}
             /\ row'[n].attempts = row[n].attempts + 1 \/ n \in Malformed]_vars

(* "At most five send attempts": beyond the budget an attempt is recorded   *)
(* only on behalf of a user's explicit retry.                               *)
AutomaticAttemptsBounded ==
    [][\A n \in Rows :
          row'[n].attempts > row[n].attempts /\ row'[n].attempts > MaxAttempts =>
             \E w \in Workers : worker[w].kind = "retry" /\ Current(w, n)]_vars

(* At-least-once: a committed trigger is eventually SENT, or has a failure  *)
(* that needs a user, through crashes before and after the POST, lost       *)
(* commits and aborted batches; no retry stays scheduled forever.           *)
Settled(n) == row[n].status = "SENT" \/ (row[n].status = "FAILED" /\ ~row[n].retry)
EveryTriggerSettles == \A n \in Rows : row[n].status # "absent" ~> Settled(n)

(* What connects a claim to its row, the inductive invariant behind the     *)
(* four safety properties: a worker that still has its connection holds the *)
(* lock and sees the row it claimed; without it the row may move on, but    *)
(* never back; an outcome in hand is one more attempt of the claimed row.   *)
Holding(w, n) == worker[w].phase \in {"posting", "commit"} /\ Current(w, n)
ClaimIsLocked ==
    \A w \in Workers, n \in Rows :
        Holding(w, n) /\ ~worker[w].lost => lock[n] = {w} /\ row[n] = worker[w].base
PendingIsUntouched == \A n \in Rows : row[n].status = "PENDING" => row[n] = Pending
ClaimOutlivesLock ==
    \A w \in Workers, n \in Rows :
        worker[w].phase \in {"posting", "commit", "recover"} /\ Current(w, n) =>
            LET base == worker[w].base
            IN /\ base.status \in {"PENDING", "FAILED"}
               /\ row[n].status # "absent"
               /\ row[n].status = "PENDING" => row[n] = base
               /\ worker[w].kind # "retry" => base.attempts < MaxAttempts
OutcomeIsNext ==
    \A w \in Workers, n \in Rows :
        worker[w].phase \in {"commit", "recover"} /\ Current(w, n) =>
            LET outcome == worker[w].outcome
            IN /\ outcome.status = "FAILED" \/ (outcome.status = "SENT" /\ n \in delivered)
               /\ \/ outcome.attempts = worker[w].base.attempts + 1
                  \/ n \in Malformed /\ outcome.attempts = worker[w].base.attempts
DeliveryInv == /\ ClaimIsLocked /\ PendingIsUntouched /\ ClaimOutlivesLock
               /\ OutcomeIsNext /\ SentIsDelivered
=============================================================================
