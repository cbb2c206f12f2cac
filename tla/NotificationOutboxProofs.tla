----------------------- MODULE NotificationOutboxProofs -----------------------
(***************************************************************************)
(* Proofs about NotificationOutbox for any number of rows, workers,        *)
(* faults, retries and any attempt budget.                                 *)
(***************************************************************************)
EXTENDS NotificationOutbox, TLAPS

(* The values the types are built from belong to them.                      *)
LEMMA OutboxEmptyTypes ==
    /\ Absent \in Row /\ Pending \in Row
    /\ IdleWorker \in Worker /\ RecoveryBudget \in 0..CommitTries
<1>1. Absent \in Row /\ Pending \in Row BY DEF Absent, Pending, Row
<1>2. RecoveryBudget \in 0..CommitTries BY OutboxAssumption DEF RecoveryBudget
<1>3. IdleWorker \in Worker BY <1>1, <1>2, OutboxAssumption DEF IdleWorker, Worker, Phases
<1> QED BY <1>1, <1>2, <1>3

(* Moving on to the next row leaves a well-formed worker.                   *)
LEMMA AdvanceType ==
    ASSUME TypeOK, NEW w \in Workers, NEW n \in Rows
    PROVE  Advance(w, n) \in Worker
BY OutboxEmptyTypes DEF Advance, TypeOK, Worker, Phases

(* An outcome is a row.                                                     *)
LEMMA OutcomeType ==
    ASSUME NEW r \in Row, NEW result \in Results
    PROVE  Outcome(r, result) \in Row /\ Invalid(r) \in Row
<1>1. r.attempts + 1 \in Nat /\ r.attempts \in Nat BY DEF Row
<1>2. (result = "transient" /\ r.attempts + 1 < MaxAttempts) \in BOOLEAN OBVIOUS
<1>3. Outcome(r, result) \in Row BY <1>1, <1>2 DEF Outcome, Row, Results
<1>4. Invalid(r) \in Row BY DEF Invalid, Row
<1> QED BY <1>3, <1>4

(* Storing an outcome keeps the table and the set of due rows well typed.   *)
LEMMA StoreType ==
    ASSUME TypeOK, NEW n \in Rows, NEW r \in Row, Store(n, r)
    PROVE  row' \in [Rows -> Row] /\ due' \in SUBSET Rows
BY DEF Store, TypeOK

(* Starting a delivery gives a well-formed worker.                          *)
LEMMA StartType ==
    ASSUME TypeOK, NEW w \in Workers, Start(w)
    PROVE  TypeOK'
<1>1. ASSUME NEW kind \in {"initial", "scan", "retry"}, NEW batch \in SUBSET Rows,
             Begin(w, kind, batch)
      PROVE  worker' \in [Workers -> Worker]
  <2>1. [IdleWorker EXCEPT !.phase = "claim", !.kind = kind, !.todo = batch] \in Worker
    BY OutboxEmptyTypes DEF Worker, Phases
  <2> QED BY <1>1, <2>1 DEF Begin, TypeOK
<1>2. ASSUME NEW batch \in SUBSET Rows, Enqueue(w, batch) PROVE TypeOK'
  <2>1. row' \in [Rows -> Row] BY <1>2, OutboxEmptyTypes DEF Enqueue, TypeOK
  <2>2. worker' \in [Workers -> Worker] BY <1>1, <1>2 DEF Enqueue
  <2> QED BY <1>2, <2>1, <2>2 DEF Enqueue, TypeOK
<1>3. CASE StartScan(w)
  <2>1. ScanBatch \in SUBSET Rows BY DEF ScanBatch
  <2>2. worker' \in [Workers -> Worker] BY <1>1, <1>3, <2>1 DEF StartScan
  <2> QED BY <1>3, <2>2 DEF StartScan, TypeOK
<1>4. ASSUME NEW n \in Rows, StartRetry(w, n) PROVE TypeOK'
  <2>1. worker' \in [Workers -> Worker] BY <1>1, <1>4 DEF StartRetry
  <2> QED BY <1>4, <2>1 DEF StartRetry, TypeOK
<1> QED BY <1>2, <1>3, <1>4 DEF Start

(* Every step of a delivery, faulty or not, keeps the types.                *)
LEMMA DeliveryType ==
    ASSUME TypeOK, NEW w \in Workers, Progress(w) \/ Fault(w)
    PROVE  TypeOK'
<1>0. worker[w] \in Worker /\ worker[w].outcome \in Row /\ worker[w].base \in Row
      /\ IdleWorker \in Worker
  BY OutboxEmptyTypes DEF TypeOK, Worker
<1>l. ASSUME NEW n \in Rows, lock' = [lock EXCEPT ![n] = Released(w, n)]
      PROVE  lock' \in [Rows -> SUBSET Workers]
  BY <1>l DEF Released, Free, TypeOK
<1>1. ASSUME NEW n \in Rows, ClaimRow(w, n) PROVE TypeOK'
  <2>1. CASE MayDeliver(w, n)
    <3>1. lock' \in [Rows -> SUBSET Workers] BY <1>1, <2>1 DEF ClaimRow, TypeOK
    <3>2. Invalid(row[n]) \in Row /\ row[n] \in Row
      BY OutcomeType DEF TypeOK, Results
    <3>3. /\ [worker[w] EXCEPT !.phase = "commit", !.base = row[n],
                               !.outcome = Invalid(row[n])] \in Worker
          /\ [worker[w] EXCEPT !.phase = "posting", !.base = row[n]] \in Worker
      BY <1>0, <3>2 DEF Worker, Phases
    <3>4. worker' \in [Workers -> Worker] BY <1>1, <2>1, <3>3 DEF ClaimRow, TypeOK
    <3> QED BY <1>1, <3>1, <3>4 DEF ClaimRow, TypeOK
  <2>2. CASE ~MayDeliver(w, n)
    <3>1. worker' \in [Workers -> Worker]
      BY <1>1, <2>2, AdvanceType DEF ClaimRow, TypeOK
    <3> QED BY <1>1, <2>2, <3>1 DEF ClaimRow, TypeOK
  <2> QED BY <2>1, <2>2
<1>2. ASSUME NEW n \in Rows, NEW result \in Results, NEW received \in BOOLEAN,
             ProviderAnswers(w, n, result, received)
      PROVE  TypeOK'
  <2>1. Outcome(worker[w].base, result) \in Row BY <1>0, OutcomeType
  <2>2. [worker[w] EXCEPT !.phase = "commit", !.outcome = Outcome(worker[w].base, result)]
          \in Worker
    BY <1>0, <2>1 DEF Worker, Phases
  <2>3. worker' \in [Workers -> Worker] BY <1>2, <2>2 DEF ProviderAnswers, TypeOK
  <2> QED BY <1>2, <2>3 DEF ProviderAnswers, TypeOK
<1>3. ASSUME NEW n \in Rows, Commit(w, n) PROVE TypeOK'
  <2>1. row' \in [Rows -> Row] /\ due' \in SUBSET Rows BY <1>0, <1>3, StoreType DEF Commit
  <2>2. worker' \in [Workers -> Worker] BY <1>3, AdvanceType DEF Commit, TypeOK
  <2>3. lock' \in [Rows -> SUBSET Workers] BY <1>l, <1>3 DEF Commit
  <2> QED BY <1>3, <2>1, <2>2, <2>3 DEF Commit, TypeOK
<1>4. ASSUME NEW n \in Rows, NEW applied \in BOOLEAN, CommitFails(w, n, applied)
      PROVE  TypeOK'
  <2>1. row' \in [Rows -> Row] /\ due' \in SUBSET Rows
    BY <1>0, <1>4, StoreType DEF CommitFails, TypeOK
  <2>2. [worker[w] EXCEPT !.phase = "recover", !.tries = RecoveryBudget, !.lost = FALSE]
          \in Worker
    BY <1>0, OutboxEmptyTypes DEF Worker, Phases
  <2>3. worker' \in [Workers -> Worker] BY <1>0, <1>4, <2>2 DEF CommitFails, TypeOK
  <2>4. lock' \in [Rows -> SUBSET Workers] BY <1>l, <1>4 DEF CommitFails
  <2>5. faults' \in Nat BY <1>4 DEF CommitFails, TypeOK
  <2> QED BY <1>4, <2>1, <2>3, <2>4, <2>5 DEF CommitFails, TypeOK
<1>5. ASSUME NEW n \in Rows, NEW commits \in BOOLEAN, NEW applied \in BOOLEAN,
             RecoverOutcome(w, n, commits, applied)
      PROVE  TypeOK'
  <2>1. row' \in [Rows -> Row] /\ due' \in SUBSET Rows
    BY <1>0, <1>5, StoreType DEF RecoverOutcome, TypeOK
  <2>2. worker[w].tries > 1 => [worker[w] EXCEPT !.tries = worker[w].tries - 1] \in Worker
    BY <1>0, OutboxAssumption DEF Worker
  <2> DEFINE next == IF commits THEN Advance(w, n)
                     ELSE IF worker[w].tries > 1 THEN [worker[w] EXCEPT !.tries = worker[w].tries - 1]
                     ELSE IdleWorker
  <2>3. worker' \in [Workers -> Worker]
    <3>1. next \in Worker BY <1>0, <2>2, AdvanceType
    <3>2. worker' = [worker EXCEPT ![w] = next] BY <1>5 DEF RecoverOutcome
    <3> HIDE DEF next
    <3> QED BY <3>1, <3>2 DEF TypeOK
  <2>5. faults' \in Nat BY <1>5 DEF RecoverOutcome, TypeOK
  <2> QED BY <1>5, <2>1, <2>3, <2>5 DEF RecoverOutcome, TypeOK
<1>6. ASSUME NEW n \in Rows, NEW received \in BOOLEAN, Crash(w, n, received) PROVE TypeOK'
  <2>1. lock' \in [Rows -> SUBSET Workers] BY <1>l, <1>6 DEF Crash
  <2> QED BY <1>0, <1>6, <2>1 DEF Crash, TypeOK
<1>7. ASSUME NEW n \in Rows, ConnectionLost(w, n) PROVE TypeOK'
  <2>1. lock' \in [Rows -> SUBSET Workers] BY <1>l, <1>7 DEF ConnectionLost
  <2>2. [worker[w] EXCEPT !.lost = TRUE] \in Worker BY <1>0 DEF Worker
  <2>3. worker' \in [Workers -> Worker] BY <1>7, <2>2 DEF ConnectionLost, TypeOK
  <2> QED BY <1>7, <2>1, <2>3 DEF ConnectionLost, TypeOK
<1> QED BY <1>1, <1>2, <1>3, <1>4, <1>5, <1>6, <1>7 DEF Progress, Fault

(* Every reachable state of the outbox is well typed.                       *)
THEOREM OutboxTypeCorrect == Spec => []TypeOK
<1>1. Init => TypeOK BY OutboxEmptyTypes DEF Init, TypeOK, Free
<1>2. TypeOK /\ [Next]_vars => TypeOK'
  <2> SUFFICES ASSUME TypeOK, [Next]_vars PROVE TypeOK'
    OBVIOUS
  <2>1. ASSUME NEW n \in Rows, WindowPasses(n) \/ BackoffElapses(n) PROVE TypeOK'
    BY <2>1 DEF WindowPasses, BackoffElapses, TypeOK
  <2>2. ASSUME NEW w \in Workers, Start(w) PROVE TypeOK' BY <2>2, StartType
  <2>3. ASSUME NEW w \in Workers, Progress(w) \/ Fault(w) PROVE TypeOK'
    BY <2>3, DeliveryType
  <2>4. CASE UNCHANGED vars BY <2>4 DEF vars, TypeOK
  <2> QED BY <2>1, <2>2, <2>3, <2>4 DEF Next
<1> QED BY <1>1, <1>2, PTL DEF Spec

-----------------------------------------------------------------------------
(* A worker has one current row.                                            *)
LEMMA CurrentUnique ==
    ASSUME NEW w \in Workers, NEW n \in Rows, NEW m \in Rows, Current(w, n), Current(w, m)
    PROVE  n = m
BY DEF Current, Rows

(* Only the row a worker is at matters when that worker moves to a phase    *)
(* without a claim and nothing else changes but its lock.                   *)
LEMMA DropKeepsInv ==
    ASSUME TypeOK, DeliveryInv, NEW w \in Workers, NEW x, NEW n \in Rows,
           worker' = [worker EXCEPT ![w] = x], x.phase \in {"idle", "claim"},
           row' = row, delivered \subseteq delivered',
           lock' = lock \/ lock' = [lock EXCEPT ![n] = Released(w, n)]
    PROVE  DeliveryInv'
<1>1. \A v \in Workers : v # w => worker'[v] = worker[v] BY DEF TypeOK
<1>2. worker'[w].phase \in {"idle", "claim"} BY DEF TypeOK
<1>3. \A v \in Workers, m \in Rows : v # w /\ lock[m] = {v} => lock'[m] = {v}
  BY DEF Released, TypeOK
<1>4. ClaimIsLocked'
  BY <1>1, <1>2, <1>3 DEF DeliveryInv, ClaimIsLocked, Holding, Current
<1>5. PendingIsUntouched' BY DEF DeliveryInv, PendingIsUntouched
<1>6. ClaimOutlivesLock' BY <1>1, <1>2 DEF DeliveryInv, ClaimOutlivesLock, Current
<1>7. OutcomeIsNext' BY <1>1, <1>2 DEF DeliveryInv, OutcomeIsNext, Current
<1>8. SentIsDelivered' BY DEF DeliveryInv, SentIsDelivered
<1> QED BY <1>4, <1>5, <1>6, <1>7, <1>8 DEF DeliveryInv

(* Storing an outcome in a row nobody else holds: the row it replaces was   *)
(* the claimed one, and is now terminal.                                    *)
LEMMA StoreKeepsInv ==
    ASSUME TypeOK, DeliveryInv, NEW w \in Workers, NEW n \in Rows, NEW x,
           worker' = [worker EXCEPT ![w] = x],
           \/ x.phase \in {"idle", "claim"}
           \/ /\ x.phase = "recover" /\ x.todo = worker[w].todo /\ x.base = worker[w].base
              /\ x.outcome = worker[w].outcome /\ x.kind = worker[w].kind,
           worker[w].phase \in {"commit", "recover"}, Current(w, n),
           lock[n] \in {Free, {w}},
           lock' = lock \/ lock' = [lock EXCEPT ![n] = Released(w, n)],
           Store(n, worker[w].outcome), delivered' = delivered
    PROVE  DeliveryInv'
<1>1. \A v \in Workers : v # w => worker'[v] = worker[v] BY DEF TypeOK
<1>2. worker'[w] = x BY DEF TypeOK
<1>3. \A v \in Workers, m \in Rows : v # w /\ lock[m] = {v} => lock'[m] = {v}
  BY DEF Released, TypeOK
<1>4. row'[n] = worker[w].outcome /\ \A m \in Rows : m # n => row'[m] = row[m]
  BY DEF Store, TypeOK
<1>5. row'[n].status \in {"SENT", "FAILED"} /\ (row'[n].status = "SENT" => n \in delivered)
  BY <1>4 DEF DeliveryInv, OutcomeIsNext
<1>6. ASSUME NEW v \in Workers, NEW m \in Rows, v # w, Holding(v, m), ~worker[v].lost
      PROVE  m # n
  BY <1>6 DEF DeliveryInv, ClaimIsLocked, Free
<1>7. ClaimIsLocked'
  BY <1>1, <1>2, <1>3, <1>4, <1>6 DEF DeliveryInv, ClaimIsLocked, Holding, Current
<1>8. PendingIsUntouched' BY <1>4, <1>5 DEF DeliveryInv, PendingIsUntouched
<1>9. ClaimOutlivesLock'
  BY <1>1, <1>2, <1>4, <1>5 DEF DeliveryInv, ClaimOutlivesLock, Current
<1>10. OutcomeIsNext' BY <1>1, <1>2 DEF DeliveryInv, OutcomeIsNext, Current
<1>11. SentIsDelivered' BY <1>4, <1>5 DEF DeliveryInv, SentIsDelivered
<1> QED BY <1>7, <1>8, <1>9, <1>10, <1>11 DEF DeliveryInv

(* Starting a delivery claims nothing yet.                                  *)
LEMMA StartKeepsInv ==
    ASSUME TypeOK, DeliveryInv, NEW w \in Workers, Start(w)
    PROVE  DeliveryInv'
<1>1. ASSUME NEW kind, NEW batch, Begin(w, kind, batch), row' = row,
             lock' = lock, delivered' = delivered
      PROVE  DeliveryInv'
  <2> DEFINE x == [IdleWorker EXCEPT !.phase = "claim", !.kind = kind, !.todo = batch]
  <2>1. worker' = [worker EXCEPT ![w] = x] /\ x.phase \in {"idle", "claim"}
    BY <1>1 DEF Begin, IdleWorker
  <2>2. CASE Rows = {}
    BY <2>2 DEF DeliveryInv, ClaimIsLocked, PendingIsUntouched, ClaimOutlivesLock,
                OutcomeIsNext, SentIsDelivered
  <2>3. CASE Rows # {}
    <3> HIDE DEF x
    <3> QED BY <1>1, <2>1, <2>3, DropKeepsInv
  <2> QED BY <2>2, <2>3
<1>2. ASSUME NEW batch \in SUBSET Rows, Enqueue(w, batch) PROVE DeliveryInv'
  <2> DEFINE x == [IdleWorker EXCEPT !.phase = "claim", !.kind = "initial", !.todo = batch]
  <2>1. worker' = [worker EXCEPT ![w] = x] /\ x.phase = "claim"
    BY <1>2 DEF Enqueue, Begin, IdleWorker
  <2>2. \A v \in Workers : v # w => worker'[v] = worker[v] BY <2>1 DEF TypeOK
  <2>3. worker'[w].phase = "claim" BY <2>1 DEF TypeOK
  <2>4. /\ \A n \in batch : row[n].status = "absent" /\ row'[n] = Pending
        /\ \A n \in Rows : n \notin batch => row'[n] = row[n]
        /\ lock' = lock /\ delivered' = delivered
    BY <1>2 DEF Enqueue, Absent
  <2>5. ASSUME NEW v \in Workers, NEW n \in Rows, Current(v, n),
               worker[v].phase \in {"posting", "commit", "recover"}
        PROVE  n \notin batch
    BY <2>4, <2>5 DEF DeliveryInv, ClaimOutlivesLock
  <2>6. ClaimIsLocked'
    BY <2>2, <2>3, <2>4, <2>5 DEF DeliveryInv, ClaimIsLocked, Holding, Current
  <2>7. PendingIsUntouched' BY <2>4 DEF DeliveryInv, PendingIsUntouched
  <2>8. ClaimOutlivesLock'
    BY <2>2, <2>3, <2>4, <2>5 DEF DeliveryInv, ClaimOutlivesLock, Current
  <2>9. OutcomeIsNext' BY <2>2, <2>3, <2>4 DEF DeliveryInv, OutcomeIsNext, Current
  <2>10. SentIsDelivered'
    BY <2>4 DEF DeliveryInv, SentIsDelivered, Pending, Absent
  <2> QED BY <2>6, <2>7, <2>8, <2>9, <2>10 DEF DeliveryInv
<1> QED BY <1>1, <1>2 DEF Start, StartScan, StartRetry

(* A claim is made on the row as it is.                                     *)
LEMMA ClaimKeepsInv ==
    ASSUME TypeOK, DeliveryInv, NEW w \in Workers, NEW n \in Rows, ClaimRow(w, n)
    PROVE  DeliveryInv'
<1>1. CASE ~MayDeliver(w, n)
  <2>1. worker' = [worker EXCEPT ![w] = Advance(w, n)] /\ row' = row /\ lock' = lock
        /\ delivered' = delivered
    BY <1>1 DEF ClaimRow
  <2>2. Advance(w, n).phase \in {"idle", "claim"} BY DEF Advance, IdleWorker
  <2> QED BY <2>1, <2>2, DropKeepsInv
<1>2. CASE MayDeliver(w, n)
  <2> DEFINE x == IF n \in Malformed
                    THEN [worker[w] EXCEPT !.phase = "commit", !.base = row[n],
                                           !.outcome = Invalid(row[n])]
                    ELSE [worker[w] EXCEPT !.phase = "posting", !.base = row[n]]
  <2>1. /\ worker' = [worker EXCEPT ![w] = x] /\ lock' = [lock EXCEPT ![n] = {w}]
        /\ row' = row /\ delivered' = delivered /\ Current(w, n) /\ lock[n] = Free
    BY <1>2 DEF ClaimRow, RowUnlocked
  <2>2. worker[w] \in Worker /\ row[n] \in Row BY DEF TypeOK
  <2>3. /\ x.base = row[n] /\ x.todo = worker[w].todo /\ x.kind = worker[w].kind
        /\ x.phase = "posting" \/ (x.phase = "commit" /\ n \in Malformed
                                   /\ x.outcome = Invalid(row[n]))
    BY <2>2 DEF Worker
  <2>4. /\ row[n].status \in {"PENDING", "FAILED"}
        /\ worker[w].kind # "retry" => row[n].attempts < MaxAttempts
    <3>1. Pending.attempts < MaxAttempts BY OutboxAssumption DEF Pending, Absent
    <3>2. worker[w].kind \in {"initial", "scan", "retry"} BY <2>2 DEF Worker
    <3> QED BY <1>2, <3>1, <3>2 DEF MayDeliver, Recoverable, DeliveryInv, PendingIsUntouched
  <2>5. \A v \in Workers : v # w => worker'[v] = worker[v] BY <2>1 DEF TypeOK
  <2>6. worker'[w] = x BY <2>1 DEF TypeOK
  <2>7. lock'[n] = {w} /\ \A m \in Rows : m # n => lock'[m] = lock[m] BY <2>1 DEF TypeOK
  <2>8. \A m \in Rows : (Current(w, m))' => m = n
    BY <2>1, <2>3, <2>6 DEF Current, Rows
  <2>9. Invalid(row[n]).status = "FAILED" /\ Invalid(row[n]).attempts = row[n].attempts
    BY <2>2 DEF Invalid, Row
  <2> HIDE DEF x
  <2>10. ClaimIsLocked'
    <3>1. ASSUME NEW v \in Workers, NEW m \in Rows, v # w, Holding(v, m), ~worker[v].lost
          PROVE  m # n
      BY <3>1, <2>1 DEF DeliveryInv, ClaimIsLocked, Free
    <3> QED BY <2>1, <2>3, <2>5, <2>6, <2>7, <2>8, <3>1
            DEF DeliveryInv, ClaimIsLocked, Holding, Current
  <2>11. PendingIsUntouched' BY <2>1 DEF DeliveryInv, PendingIsUntouched
  <2>12. ClaimOutlivesLock'
    BY <2>1, <2>3, <2>4, <2>5, <2>6, <2>8 DEF DeliveryInv, ClaimOutlivesLock, Current
  <2>13. OutcomeIsNext'
    BY <2>1, <2>3, <2>5, <2>6, <2>8, <2>9 DEF DeliveryInv, OutcomeIsNext, Current
  <2>14. SentIsDelivered' BY <2>1 DEF DeliveryInv, SentIsDelivered
  <2> QED BY <2>10, <2>11, <2>12, <2>13, <2>14 DEF DeliveryInv
<1> QED BY <1>1, <1>2

(* An answer turns the claim into an outcome of its next attempt.           *)
LEMMA AnswerKeepsInv ==
    ASSUME TypeOK, DeliveryInv, NEW w \in Workers, NEW n \in Rows,
           NEW result \in Results, NEW received \in BOOLEAN,
           ProviderAnswers(w, n, result, received)
    PROVE  DeliveryInv'
<1> DEFINE x == [worker[w] EXCEPT !.phase = "commit",
                                  !.outcome = Outcome(worker[w].base, result)]
<1>1. /\ worker' = [worker EXCEPT ![w] = x] /\ Current(w, n) /\ worker[w].phase = "posting"
      /\ row' = row /\ lock' = lock /\ delivered \subseteq delivered'
      /\ result = "ok" => n \in delivered'
  BY DEF ProviderAnswers
<1>2. worker[w] \in Worker BY DEF TypeOK
<1>3. /\ x.phase = "commit" /\ x.base = worker[w].base /\ x.todo = worker[w].todo
      /\ x.kind = worker[w].kind /\ x.lost = worker[w].lost
      /\ x.outcome = Outcome(worker[w].base, result)
  BY <1>2 DEF Worker
<1>4. \A v \in Workers : v # w => worker'[v] = worker[v] BY <1>1 DEF TypeOK
<1>5. worker'[w] = x BY <1>1 DEF TypeOK
<1>6. \A m \in Rows : (Current(w, m))' <=> Current(w, m) BY <1>3, <1>5 DEF Current
<1>7. /\ x.outcome.attempts = x.base.attempts + 1
      /\ x.outcome.status = "FAILED" \/ (x.outcome.status = "SENT" /\ result = "ok")
  BY <1>3 DEF Outcome
<1> HIDE DEF x
<1>8. ClaimIsLocked'
  BY <1>1, <1>3, <1>4, <1>5 DEF DeliveryInv, ClaimIsLocked, Holding, Current
<1>9. PendingIsUntouched' BY <1>1 DEF DeliveryInv, PendingIsUntouched
<1>10. ClaimOutlivesLock'
  BY <1>1, <1>3, <1>4, <1>5 DEF DeliveryInv, ClaimOutlivesLock, Current
<1>11. OutcomeIsNext'
  <2>1. \A m \in Rows : (Current(w, m))' => m = n BY <1>1, <1>6, CurrentUnique
  <2> QED BY <1>1, <1>4, <1>5, <1>7, <2>1 DEF DeliveryInv, OutcomeIsNext, Current
<1>12. SentIsDelivered' BY <1>1 DEF DeliveryInv, SentIsDelivered
<1> QED BY <1>8, <1>9, <1>10, <1>11, <1>12 DEF DeliveryInv

(* A worker that keeps its claim but loses its lock.                        *)
LEMMA LoseKeepsInv ==
    ASSUME TypeOK, DeliveryInv, NEW w \in Workers, NEW n \in Rows, NEW x, Current(w, n),
           worker' = [worker EXCEPT ![w] = x],
           x.todo = worker[w].todo, x.base = worker[w].base, x.kind = worker[w].kind,
           x.outcome = worker[w].outcome,
           \/ x.lost /\ x.phase = worker[w].phase
           \/ x.phase = "recover" /\ worker[w].phase \in {"commit", "recover"},
           row' = row, delivered' = delivered,
           lock' = lock \/ lock' = [lock EXCEPT ![n] = Released(w, n)]
    PROVE  DeliveryInv'
<1>1. \A v \in Workers : v # w => worker'[v] = worker[v] BY DEF TypeOK
<1>2. worker'[w] = x BY DEF TypeOK
<1>3. \A v \in Workers, m \in Rows : v # w /\ lock[m] = {v} => lock'[m] = {v}
  BY DEF Released, TypeOK
<1>4. ClaimIsLocked'
  BY <1>1, <1>2, <1>3 DEF DeliveryInv, ClaimIsLocked, Holding, Current
<1>5. PendingIsUntouched' BY DEF DeliveryInv, PendingIsUntouched
<1>6. ClaimOutlivesLock' BY <1>1, <1>2 DEF DeliveryInv, ClaimOutlivesLock, Current
<1>7. OutcomeIsNext' BY <1>1, <1>2 DEF DeliveryInv, OutcomeIsNext, Current
<1>8. SentIsDelivered' BY DEF DeliveryInv, SentIsDelivered
<1> QED BY <1>4, <1>5, <1>6, <1>7, <1>8 DEF DeliveryInv

(* Whoever stores an outcome replaces the row it claimed.                   *)
LEMMA StoreReplacesClaim ==
    ASSUME TypeOK, DeliveryInv, NEW w \in Workers, NEW n \in Rows, Current(w, n),
           \/ worker[w].phase = "commit" /\ ~worker[w].lost
           \/ worker[w].phase = "recover" /\ ~ConcurrentWinner(w, n)
    PROVE  row[n] = worker[w].base
<1>1. row[n].status \in {"absent", "PENDING", "SENT", "FAILED"} BY DEF TypeOK, Row
<1> QED BY <1>1 DEF DeliveryInv, ClaimIsLocked, ClaimOutlivesLock, Holding, ConcurrentWinner

(* Every step of a delivery keeps the invariant.                            *)
LEMMA DeliveryKeepsInv ==
    ASSUME TypeOK, DeliveryInv, NEW w \in Workers, Progress(w) \/ Fault(w)
    PROVE  DeliveryInv'
<1>0. worker[w] \in Worker BY DEF TypeOK
<1>1. ASSUME NEW n \in Rows, Commit(w, n) PROVE DeliveryInv'
  <2>1. Advance(w, n).phase \in {"idle", "claim"} BY DEF Advance, IdleWorker
  <2>2. lock[n] \in {Free, {w}}
    BY <1>1 DEF Commit, DeliveryInv, ClaimIsLocked, Holding
  <2> QED BY <1>1, <2>1, <2>2, StoreKeepsInv DEF Commit
<1>2. ASSUME NEW n \in Rows, NEW applied \in BOOLEAN, CommitFails(w, n, applied)
      PROVE  DeliveryInv'
  <2> DEFINE x == IF worker[w].kind = "retry" /\ n \in Malformed THEN IdleWorker
                  ELSE [worker[w] EXCEPT !.phase = "recover", !.tries = RecoveryBudget,
                                         !.lost = FALSE]
  <2>1. worker' = [worker EXCEPT ![w] = x] BY <1>2 DEF CommitFails
  <2>2. \/ x.phase = "idle"
        \/ /\ x.phase = "recover" /\ x.todo = worker[w].todo /\ x.base = worker[w].base
           /\ x.outcome = worker[w].outcome /\ x.kind = worker[w].kind
    BY <1>0 DEF Worker, IdleWorker
  <2> HIDE DEF x
  <2>3. CASE applied
    <3>1. ~worker[w].lost /\ Store(n, worker[w].outcome) BY <1>2, <2>3 DEF CommitFails
    <3>2. lock[n] \in {Free, {w}}
      BY <1>2, <3>1 DEF CommitFails, DeliveryInv, ClaimIsLocked, Holding
    <3> QED BY <1>2, <2>1, <2>2, <3>1, <3>2, StoreKeepsInv DEF CommitFails
  <2>4. CASE ~applied
    <3>1. row' = row /\ delivered' = delivered BY <1>2, <2>4 DEF CommitFails
    <3>2. CASE x.phase = "idle"
      BY <1>2, <2>1, <3>1, <3>2, DropKeepsInv DEF CommitFails
    <3>3. CASE x.phase # "idle"
      BY <1>2, <2>1, <2>2, <3>1, <3>3, LoseKeepsInv DEF CommitFails
    <3> QED BY <3>2, <3>3
  <2> QED BY <2>3, <2>4
<1>3. ASSUME NEW n \in Rows, NEW commits \in BOOLEAN, NEW applied \in BOOLEAN,
             RecoverOutcome(w, n, commits, applied)
      PROVE  DeliveryInv'
  <2> DEFINE x == IF commits THEN Advance(w, n)
                  ELSE IF worker[w].tries > 1
                  THEN [worker[w] EXCEPT !.tries = worker[w].tries - 1] ELSE IdleWorker
  <2>1. /\ worker' = [worker EXCEPT ![w] = x] /\ lock' = lock /\ delivered' = delivered
        /\ worker[w].phase = "recover" /\ Current(w, n) /\ lock[n] = Free
    BY <1>3 DEF RecoverOutcome, RowUnlocked
  <2>2. \/ x.phase \in {"idle", "claim"}
        \/ /\ x.phase = "recover" /\ x.todo = worker[w].todo /\ x.base = worker[w].base
           /\ x.outcome = worker[w].outcome /\ x.kind = worker[w].kind
    BY <1>0, <2>1 DEF Worker, IdleWorker, Advance
  <2> HIDE DEF x
  <2>3. CASE Store(n, worker[w].outcome)
    BY <2>1, <2>2, <2>3, StoreKeepsInv
  <2>4. CASE row' = row
    <3>1. CASE x.phase \in {"idle", "claim"} BY <2>1, <2>4, <3>1, DropKeepsInv
    <3>2. CASE x.phase \notin {"idle", "claim"}
      BY <2>1, <2>2, <2>4, <3>2, LoseKeepsInv
    <3> QED BY <3>1, <3>2
  <2> QED BY <1>3, <2>3, <2>4 DEF RecoverOutcome
<1>4. ASSUME NEW n \in Rows, NEW received \in BOOLEAN, Crash(w, n, received)
      PROVE  DeliveryInv'
  <2>1. IdleWorker.phase \in {"idle", "claim"} BY DEF IdleWorker
  <2> QED BY <1>4, <2>1, DropKeepsInv DEF Crash
<1>5. ASSUME NEW n \in Rows, ConnectionLost(w, n) PROVE DeliveryInv'
  <2> DEFINE x == [worker[w] EXCEPT !.lost = TRUE]
  <2>1. /\ x.lost /\ x.phase = worker[w].phase /\ x.todo = worker[w].todo
        /\ x.base = worker[w].base /\ x.kind = worker[w].kind
        /\ x.outcome = worker[w].outcome
    BY <1>0 DEF Worker
  <2>2. worker' = [worker EXCEPT ![w] = x] BY <1>5 DEF ConnectionLost
  <2> HIDE DEF x
  <2> QED BY <1>5, <2>1, <2>2, LoseKeepsInv DEF ConnectionLost
<1> QED BY <1>1, <1>2, <1>3, <1>4, <1>5, ClaimKeepsInv, AnswerKeepsInv DEF Progress, Fault

(* The delivery invariant holds in every reachable state.                   *)
THEOREM DeliveryInvariant == Spec => []DeliveryInv
<1>1. Init => DeliveryInv
  BY DEF Init, DeliveryInv, ClaimIsLocked, PendingIsUntouched, ClaimOutlivesLock,
         OutcomeIsNext, SentIsDelivered, Holding, IdleWorker, Absent
<1>2. TypeOK /\ DeliveryInv /\ [Next]_vars => DeliveryInv'
  <2> SUFFICES ASSUME TypeOK, DeliveryInv, [Next]_vars PROVE DeliveryInv'
    OBVIOUS
  <2>0. ASSUME UNCHANGED <<row, lock, worker, delivered>> PROVE DeliveryInv'
    BY <2>0 DEF DeliveryInv, ClaimIsLocked, PendingIsUntouched, ClaimOutlivesLock,
                OutcomeIsNext, SentIsDelivered, Holding, Current
  <2>1. ASSUME NEW n \in Rows, WindowPasses(n) \/ BackoffElapses(n) PROVE DeliveryInv'
    BY <2>0, <2>1 DEF WindowPasses, BackoffElapses
  <2>2. ASSUME NEW w \in Workers, Start(w) PROVE DeliveryInv' BY <2>2, StartKeepsInv
  <2>3. ASSUME NEW w \in Workers, Progress(w) \/ Fault(w) PROVE DeliveryInv'
    BY <2>3, DeliveryKeepsInv
  <2>4. CASE UNCHANGED vars BY <2>0, <2>4 DEF vars
  <2> QED BY <2>1, <2>2, <2>3, <2>4 DEF Next
<1> QED BY <1>1, <1>2, OutboxTypeCorrect, PTL DEF Spec

(* SENT is never recorded for a message the webhook did not receive.        *)
THEOREM SentWasDelivered == Spec => []SentIsDelivered
<1>1. DeliveryInv => SentIsDelivered BY DEF DeliveryInv
<1> QED BY <1>1, DeliveryInvariant, PTL

(* The row lock serialises the POSTs of all processes that keep their       *)
(* database connection.                                                     *)
THEOREM PostsAreSerialised == Spec => []NoConcurrentPost
<1>1. DeliveryInv => NoConcurrentPost
  <2> SUFFICES ASSUME DeliveryInv, NEW v \in Workers, NEW w \in Workers, NEW n \in Rows,
                      v # w, Holding(v, n), Holding(w, n), ~worker[v].lost, ~worker[w].lost
               PROVE  FALSE
    BY DEF NoConcurrentPost, Holding
  <2>1. lock[n] = {v} /\ lock[n] = {w} BY DEF DeliveryInv, ClaimIsLocked
  <2> QED BY <2>1
<1> QED BY <1>1, DeliveryInvariant, PTL

(* What one step may do to the rows.                                        *)
LEMMA RowsChangeByStore ==
    ASSUME TypeOK, DeliveryInv, Next
    PROVE  \/ row' = row
           \/ \E batch \in SUBSET Rows :
                 /\ \A n \in batch : row[n] = Absent /\ row'[n] = Pending
                 /\ \A n \in Rows : n \notin batch => row'[n] = row[n]
           \/ \E w \in Workers, n \in Rows :
                 /\ Current(w, n) /\ worker[w].phase \in {"commit", "recover"}
                 /\ row[n] = worker[w].base /\ Store(n, worker[w].outcome)
<1>1. ASSUME NEW n \in Rows, WindowPasses(n) \/ BackoffElapses(n) PROVE row' = row
  BY <1>1 DEF WindowPasses, BackoffElapses
<1>2. ASSUME NEW w \in Workers, NEW batch \in SUBSET Rows, Enqueue(w, batch)
      PROVE  /\ \A n \in batch : row[n] = Absent /\ row'[n] = Pending
             /\ \A n \in Rows : n \notin batch => row'[n] = row[n]
  BY <1>2 DEF Enqueue
<1>3. ASSUME NEW w \in Workers, StartScan(w) \/ (\E n \in Rows : StartRetry(w, n))
      PROVE  row' = row
  BY <1>3 DEF StartScan, StartRetry
<1>4. ASSUME NEW w \in Workers, NEW n \in Rows, Commit(w, n)
      PROVE  Current(w, n) /\ worker[w].phase = "commit" /\ row[n] = worker[w].base
             /\ Store(n, worker[w].outcome)
  BY <1>4, StoreReplacesClaim DEF Commit
<1>5. ASSUME NEW w \in Workers, NEW n \in Rows, NEW applied \in BOOLEAN,
             CommitFails(w, n, applied), row' # row
      PROVE  Current(w, n) /\ worker[w].phase = "commit" /\ row[n] = worker[w].base
             /\ Store(n, worker[w].outcome)
  BY <1>5, StoreReplacesClaim DEF CommitFails
<1>6. ASSUME NEW w \in Workers, NEW n \in Rows, NEW commits \in BOOLEAN,
             NEW applied \in BOOLEAN, RecoverOutcome(w, n, commits, applied), row' # row
      PROVE  Current(w, n) /\ worker[w].phase = "recover" /\ row[n] = worker[w].base
             /\ Store(n, worker[w].outcome)
  BY <1>6, StoreReplacesClaim DEF RecoverOutcome
<1>7. ASSUME NEW w \in Workers, NEW n \in Rows,
             \/ ClaimRow(w, n) \/ ConnectionLost(w, n)
             \/ \E result \in Results, received \in BOOLEAN :
                   ProviderAnswers(w, n, result, received)
             \/ \E received \in BOOLEAN : Crash(w, n, received)
      PROVE  row' = row
  BY <1>7 DEF ClaimRow, ConnectionLost, ProviderAnswers, Crash
<1>8. ASSUME NEW w \in Workers, Start(w), row' # row
      PROVE  \E batch \in SUBSET Rows :
                 /\ \A n \in batch : row[n] = Absent /\ row'[n] = Pending
                 /\ \A n \in Rows : n \notin batch => row'[n] = row[n]
  BY <1>2, <1>3, <1>8 DEF Start
<1>9. ASSUME NEW w \in Workers, Progress(w) \/ Fault(w), row' # row
      PROVE  \E n \in Rows :
                 /\ Current(w, n) /\ worker[w].phase \in {"commit", "recover"}
                 /\ row[n] = worker[w].base /\ Store(n, worker[w].outcome)
  BY <1>4, <1>5, <1>6, <1>7, <1>9 DEF Progress, Fault
<1> QED BY <1>1, <1>8, <1>9 DEF Next

(* Recovery of an ambiguous commit never overwrites another worker's later  *)
(* outcome, and SENT is final.                                              *)
THEOREM OutcomesKept == Spec => OutcomesAreNotOverwritten
<1> DEFINE kept == \A n \in Rows :
          row[n] # Absent /\ row'[n] # row[n] =>
             /\ row[n].status # "SENT" /\ row'[n].status \in {"SENT", "FAILED"}
             /\ row'[n].attempts = row[n].attempts + 1 \/ n \in Malformed
<1>1. TypeOK /\ DeliveryInv /\ [Next]_vars => [kept]_vars
  <2> SUFFICES ASSUME TypeOK, DeliveryInv, Next PROVE kept
    OBVIOUS
  <2>1. ASSUME NEW w \in Workers, NEW n \in Rows, Current(w, n),
               worker[w].phase \in {"commit", "recover"},
               row[n] = worker[w].base, Store(n, worker[w].outcome)
        PROVE  kept
    <3>1. row'[n] = worker[w].outcome /\ \A m \in Rows : m # n => row'[m] = row[m]
      BY <2>1 DEF Store, TypeOK
    <3>2. row[n].status \in {"PENDING", "FAILED"}
      BY <2>1 DEF DeliveryInv, ClaimOutlivesLock
    <3>3. /\ row'[n].status \in {"SENT", "FAILED"}
          /\ row'[n].attempts = row[n].attempts + 1 \/ n \in Malformed
      BY <2>1, <3>1 DEF DeliveryInv, OutcomeIsNext
    <3> QED BY <3>1, <3>2, <3>3
  <2>2. ASSUME NEW batch \in SUBSET Rows,
               \A n \in batch : row[n] = Absent,
               \A n \in Rows : n \notin batch => row'[n] = row[n]
        PROVE  kept
    BY <2>2
  <2> HIDE DEF kept
  <2>3. row' = row => kept BY DEF kept
  <2> QED BY <2>1, <2>2, <2>3, RowsChangeByStore
<1>2. OutcomesAreNotOverwritten <=> [][kept]_vars BY DEF OutcomesAreNotOverwritten
<1> QED BY <1>1, <1>2, OutboxTypeCorrect, DeliveryInvariant, PTL DEF Spec

(* No automatic attempt is recorded beyond the budget.                      *)
THEOREM AttemptsBounded == Spec => AutomaticAttemptsBounded
<1> DEFINE bounded == \A n \in Rows :
          row'[n].attempts > row[n].attempts /\ row'[n].attempts > MaxAttempts =>
             \E w \in Workers : worker[w].kind = "retry" /\ Current(w, n)
<1>1. TypeOK /\ DeliveryInv /\ [Next]_vars => [bounded]_vars
  <2> SUFFICES ASSUME TypeOK, DeliveryInv, Next PROVE bounded
    OBVIOUS
  <2>1. ASSUME NEW w \in Workers, NEW n \in Rows, Current(w, n),
               worker[w].phase \in {"commit", "recover"},
               row[n] = worker[w].base, Store(n, worker[w].outcome)
        PROVE  bounded
    <3>1. row'[n] = worker[w].outcome /\ \A m \in Rows : m # n => row'[m] = row[m]
      BY <2>1 DEF Store, TypeOK
    <3>2. /\ worker[w].kind # "retry" => row[n].attempts < MaxAttempts
          /\ row'[n].attempts \in {row[n].attempts, row[n].attempts + 1}
      BY <2>1, <3>1 DEF DeliveryInv, ClaimOutlivesLock, OutcomeIsNext
    <3>3. \A m \in Rows : row[m].attempts \in Nat BY DEF TypeOK, Row
    <3> QED BY <2>1, <3>1, <3>2, <3>3, OutboxAssumption
  <2>2. ASSUME NEW batch \in SUBSET Rows,
               \A n \in batch : row'[n] = Pending,
               \A n \in Rows : n \notin batch => row'[n] = row[n]
        PROVE  bounded
    BY <2>2, OutboxAssumption DEF Pending, Absent, TypeOK, Row
  <2>3. row' = row => bounded BY DEF TypeOK, Row
  <2> HIDE DEF bounded
  <2> QED BY <2>1, <2>2, <2>3, RowsChangeByStore
<1>2. AutomaticAttemptsBounded <=> [][bounded]_vars BY DEF AutomaticAttemptsBounded
<1> QED BY <1>1, <1>2, OutboxTypeCorrect, DeliveryInvariant, PTL DEF Spec
=============================================================================
