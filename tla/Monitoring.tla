------------------------------ MODULE Monitoring ------------------------------
(***************************************************************************)
(* What users monitor: watch tables with their stocks and columns, alert   *)
(* rules, the limit on distinct monitored securities, and the demand       *)
(* generation of each analysis stream.  The HTTP handlers of               *)
(* WatchTableService and AlertService run as READ COMMITTED transactions   *)
(* against the evaluation of an alert rule and the publication of a        *)
(* stream; each statement that takes a row lock is a step, the reads and   *)
(* decisions behind it are evaluated in the step, and writes appear at the *)
(* commit.  A column or rule is reduced to the indicator request it stands *)
(* for; its position in the table is the subject of TableLayout.           *)
(***************************************************************************)
EXTENDS Integers, FiniteSets, FiniteSetsExt, Relation, Functions

CONSTANTS Users, Tables, Rules,
          Securities,         \* security ids: lock order is their order
          Targets,            \* indicator requests of columns and rules
          Owner,              \* user of each table and each rule id
          Handlers, Evaluators, Publishers,     \* database sessions
          Limit,              \* 100 in the code
          Defaults,           \* columns of a table on creation
          MaxCommits,         \* bound on committed configuration changes
          Absent, Free, NoOp

Sessions == Handlers \union Evaluators \union Publishers
Rule == [security : Securities, target : Targets, enabled : BOOLEAN]
Table == [members : SUBSET Securities, columns : SUBSET Targets]

ASSUME MonitoringAssumption ==
    /\ Securities \subseteq Nat /\ IsFiniteSet(Securities)
    /\ Owner \in [Tables \union Rules -> Users]
    /\ Limit \in Nat /\ MaxCommits \in Nat /\ Defaults \subseteq Targets
    /\ Handlers \intersect Evaluators = {} /\ Handlers \intersect Publishers = {}
    /\ Evaluators \intersect Publishers = {} /\ Free \notin Sessions
    /\ Absent \notin Rule /\ Absent \notin Table

VARIABLES tables,             \* committed watch_tables with their child rows
          rules,              \* committed alert_rules
          demand_generation,  \* analysis_streams.demand_generation
          published_demand_generation,
          published,          \* requests materialised by the last publication
          account,            \* users row: FOR UPDATE holder
          accountKey,         \* users row: FOR KEY SHARE holders
          ruleRow,            \* alert_rules row: FOR UPDATE holder
          stream,             \* analysis_streams row: exclusive holder
          streamShare,        \* analysis_streams row: FOR SHARE holders
          txn                 \* per session: step, operation, rows to mark

vars == <<tables, rules, demand_generation, published_demand_generation, published,
          account, accountKey, ruleRow, stream, streamShare, txn>>
data == <<tables, rules, demand_generation, published_demand_generation, published>>
locks == <<account, accountKey, ruleRow, stream, streamShare>>

Idle == [pc |-> "idle", op |-> NoOp, mark |-> {}, seen |-> {}]

Init ==
    /\ tables = [t \in Tables |-> Absent]
    /\ rules = [k \in Rules |-> Absent]
    /\ demand_generation = [s \in Securities |-> 0]
    /\ published_demand_generation = [s \in Securities |-> -1]
    /\ published = [s \in Securities |-> {}]
    /\ account = [u \in Users |-> Free] /\ accountKey = [u \in Users |-> {}]
    /\ ruleRow = [k \in Rules |-> Free]
    /\ stream = [s \in Securities |-> Free] /\ streamShare = [s \in Securities |-> {}]
    /\ txn = [p \in Sessions |-> Idle]

-----------------------------------------------------------------------------
(* What the committed rows say.                                            *)

Watched(u) == UNION {tables[t].members : t \in {t \in Tables : Owner[t] = u /\ tables[t] # Absent}}
Alerted(u, except) ==
    {rules[k].security : k \in {k \in Rules \ except :
                                  Owner[k] = u /\ rules[k] # Absent /\ rules[k].enabled}}
Monitored(u) == Watched(u) \union Alerted(u, {})

\* collect_indicator_requests: columns of every table holding s, and enabled rules.
Demand(s) ==
    (UNION {tables[t].columns : t \in {t \in Tables : tables[t] # Absent /\ s \in tables[t].members}})
    \union {rules[k].target : k \in {k \in Rules :
                rules[k] # Absent /\ rules[k].enabled /\ rules[k].security = s}}

\* ensure_monitor_capacity: reads committed rows, the caller holds the account.
HasCapacity(u, s, except) ==
    LET ids == Watched(u) \union Alerted(u, except)
    IN s \in ids \/ Cardinality(ids) < Limit

-----------------------------------------------------------------------------
(* The handlers of the watch-table and alert APIs.                         *)

Operations ==
    [kind : {"create_table", "delete_table"}, id : Tables]
    \union [kind : {"add_stock", "remove_stock"}, id : Tables, security : Securities]
    \union [kind : {"add_column", "delete_column"}, id : Tables, target : Targets]
    \union [kind : {"update_column"}, id : Tables, target : Targets, to : Targets]
    \union [kind : {"create_rule", "update_rule"}, id : Rules, rule : Rule]
    \union [kind : {"delete_rule"}, id : Rules]

\* get_for_evaluation(rule_id, user_id) locks the row that update and delete change.
LocksRule(op) == op.kind \in {"update_rule", "delete_rule"}

\* What a handler does with the committed rows it reads: whether it goes on after
\* its early returns, the securities it hands to mark_demand_changed, and the
\* rows it writes.
Effect(allowed, marks, tables_, rules_) ==
    [allowed |-> allowed, marks |-> marks, tables |-> tables_, rules |-> rules_]
Row(t) == IF tables[t] = Absent THEN [members |-> {}, columns |-> {}] ELSE tables[t]
Owned(t) == tables[t] # Absent

CreateTable(op) ==
    Effect(~Owned(op.id), {},
           [tables EXCEPT ![op.id] = [members |-> {}, columns |-> Defaults]], rules)
DeleteTable(op) ==
    Effect(Owned(op.id), Row(op.id).members, [tables EXCEPT ![op.id] = Absent], rules)
AddStock(op) ==
    LET t == Row(op.id) IN
    Effect(Owned(op.id) /\ op.security \notin t.members /\ HasCapacity(Owner[op.id], op.security, {}),
           {op.security},
           [tables EXCEPT ![op.id] = [t EXCEPT !.members = @ \union {op.security}]], rules)
RemoveStock(op) ==
    LET t == Row(op.id) IN
    Effect(op.security \in t.members, {op.security},
           [tables EXCEPT ![op.id] = [t EXCEPT !.members = @ \ {op.security}]], rules)
AddColumn(op) ==
    LET t == Row(op.id) IN
    Effect(Owned(op.id) /\ op.target \notin t.columns, t.members,
           [tables EXCEPT ![op.id] = [t EXCEPT !.columns = @ \union {op.target}]], rules)

\* Mutant of UpdateColumn: an edited column is taken for a display change.
UpdateColumnUnmarked(op) ==
    LET t == Row(op.id) IN
    Effect(op.target \in t.columns /\ op.to \notin t.columns \ {op.target}, {},
           [tables EXCEPT ![op.id] = [t EXCEPT !.columns = (@ \ {op.target}) \union {op.to}]], rules)
UpdateColumn(op) ==
    LET t == Row(op.id) IN
    Effect(op.target \in t.columns /\ op.to \notin t.columns \ {op.target},
           IF op.to = op.target THEN {} ELSE t.members,
           [tables EXCEPT ![op.id] = [t EXCEPT !.columns = (@ \ {op.target}) \union {op.to}]], rules)
DeleteColumn(op) ==
    LET t == Row(op.id) IN
    Effect(op.target \in t.columns, t.members,
           [tables EXCEPT ![op.id] = [t EXCEPT !.columns = @ \ {op.target}]], rules)
CreateRule(op) ==
    Effect(/\ rules[op.id] = Absent
           /\ op.rule.enabled => HasCapacity(Owner[op.id], op.rule.security, {}),
           IF op.rule.enabled THEN {op.rule.security} ELSE {},
           tables, [rules EXCEPT ![op.id] = op.rule])
\* A changed rule marks the security it leaves and the one it enters.
UpdateRule(op) ==
    Effect(/\ rules[op.id] # Absent
           /\ op.rule.enabled => HasCapacity(Owner[op.id], op.rule.security, {op.id}),
           IF rules[op.id] \in {Absent, op.rule} THEN {}
           ELSE {rules[op.id].security, op.rule.security},
           tables, [rules EXCEPT ![op.id] = op.rule])
DeleteRule(op) ==
    Effect(rules[op.id] # Absent,
           IF rules[op.id] = Absent THEN {} ELSE {rules[op.id].security},
           tables, [rules EXCEPT ![op.id] = Absent])

Handle(op) ==
    CASE op.kind = "create_table" -> CreateTable(op)
      [] op.kind = "delete_table" -> DeleteTable(op)
      [] op.kind = "add_stock" -> AddStock(op)
      [] op.kind = "remove_stock" -> RemoveStock(op)
      [] op.kind = "add_column" -> AddColumn(op)
      [] op.kind = "update_column" -> UpdateColumn(op)
      [] op.kind = "delete_column" -> DeleteColumn(op)
      [] op.kind = "create_rule" -> CreateRule(op)
      [] op.kind = "update_rule" -> UpdateRule(op)
      [] op.kind = "delete_rule" -> DeleteRule(op)
Marks(op) == Handle(op).marks

\* ON CONFLICT DO UPDATE SET demand_generation = demand_generation + 1.
GenerationsAfter(op) ==
    [s \in Securities |-> demand_generation[s] + (IF s \in Marks(op) THEN 1 ELSE 0)]

-----------------------------------------------------------------------------
(* Row locks (PostgreSQL).  FOR UPDATE excludes every holder; FOR SHARE and *)
(* the FOR KEY SHARE of a foreign-key check exclude FOR UPDATE only.        *)

CanUpdateAccount(p, u) == account[u] = Free /\ accountKey[u] \subseteq {p}
CanUpdateStream(p, s) == stream[s] \in {Free, p} /\ streamShare[s] \subseteq {p}

\* End of a transaction, committed or rolled back: every row lock is released.
Release(p) ==
    /\ account' = [u \in Users |-> IF account[u] = p THEN Free ELSE account[u]]
    /\ accountKey' = [u \in Users |-> accountKey[u] \ {p}]
    /\ ruleRow' = [k \in Rules |-> IF ruleRow[k] = p THEN Free ELSE ruleRow[k]]
    /\ stream' = [s \in Securities |-> IF stream[s] = p THEN Free ELSE stream[s]]
    /\ streamShare' = [s \in Securities |-> streamShare[s] \ {p}]
    /\ txn' = [txn EXCEPT ![p] = Idle]

Goto(p, pc) == txn' = [txn EXCEPT ![p].pc = pc]

-----------------------------------------------------------------------------
(* Configuration handlers.                                                 *)

Request(p, op) ==
    /\ txn[p].pc = "idle"
    /\ SumFunction(demand_generation) < MaxCommits
    /\ txn' = [txn EXCEPT ![p] = [Idle EXCEPT !.pc = "account", !.op = op]]
    /\ UNCHANGED <<data, locks>>

\* Mutant of LockAccount: AlertService.create does not lock the account.
CreatesUnlocked(p) ==
    LET u == Owner[txn[p].op.id]
        unlocked == txn[p].op.kind = "create_rule"
    IN
    /\ txn[p].pc = "account" /\ (unlocked \/ CanUpdateAccount(p, u)) = TRUE
    /\ account' = IF unlocked THEN account ELSE [account EXCEPT ![u] = p]
    /\ Goto(p, IF LocksRule(txn[p].op) THEN "rule" ELSE "check")
    /\ UNCHANGED <<data, accountKey, ruleRow, stream, streamShare>>

\* lock_account: SELECT users.id ... FOR UPDATE, before anything is read.
LockAccount(p) ==
    LET u == Owner[txn[p].op.id] IN
    /\ txn[p].pc = "account" /\ CanUpdateAccount(p, u)
    /\ account' = [account EXCEPT ![u] = p]
    /\ Goto(p, IF LocksRule(txn[p].op) THEN "rule" ELSE "check")
    /\ UNCHANGED <<data, accountKey, ruleRow, stream, streamShare>>

LockRule(p) ==
    LET k == txn[p].op.id IN
    /\ p \in Handlers /\ txn[p].pc = "rule" /\ ruleRow[k] = Free
    /\ ruleRow' = [ruleRow EXCEPT ![k] = p]
    /\ Goto(p, "check")
    /\ UNCHANGED <<data, account, accountKey, stream, streamShare>>

Refuse(p) ==
    /\ txn[p].pc = "check" /\ ~Handle(txn[p].op).allowed
    /\ Release(p)
    /\ UNCHANGED data

Decide(p) ==
    /\ txn[p].pc = "check" /\ Handle(txn[p].op).allowed
    /\ txn' = [txn EXCEPT ![p].pc = "mark", ![p].mark = Marks(txn[p].op)]
    /\ UNCHANGED <<data, locks>>

\* Mutant of NextRow: keys in the order of the call, the old security first.
CallOrder(p) ==
    IF txn[p].op.kind = "update_rule" /\ rules[txn[p].op.id].security \in txn[p].mark
    THEN rules[txn[p].op.id].security ELSE Min(txn[p].mark)

\* keys = sorted(...) in mark_demand_changed.
NextRow(p) == Min(txn[p].mark)

\* One row of the multi-row upsert of mark_demand_changed, in key order.
MarkRow(p) ==
    /\ txn[p].pc = "mark" /\ txn[p].mark # {}
    /\ LET s == NextRow(p) IN
       /\ CanUpdateStream(p, s)
       /\ stream' = [stream EXCEPT ![s] = p]
       /\ txn' = [txn EXCEPT ![p].mark = @ \ {s}]
    /\ UNCHANGED <<data, account, accountKey, ruleRow, streamShare>>

Commit(p) ==
    /\ p \in Handlers /\ txn[p].pc = "mark" /\ txn[p].mark = {}
    /\ tables' = Handle(txn[p].op).tables
    /\ rules' = Handle(txn[p].op).rules
    /\ demand_generation' = GenerationsAfter(txn[p].op)
    /\ Release(p)
    /\ UNCHANGED <<published_demand_generation, published>>

-----------------------------------------------------------------------------
(* Alert evaluation of rule k: the rule row, then a share lock on its       *)
(* stream for the observation; a trigger inserts a notification, whose      *)
(* foreign key locks the owner's row.                                       *)

EvaluateRule(p, k) ==
    /\ txn[p].pc = "idle" /\ rules[k] # Absent /\ ruleRow[k] = Free
    /\ ruleRow' = [ruleRow EXCEPT ![k] = p]
    /\ txn' = [txn EXCEPT ![p] = [Idle EXCEPT !.pc = "observe", !.op = k]]
    /\ UNCHANGED <<data, account, accountKey, stream, streamShare>>

Observe(p) ==
    LET s == rules[txn[p].op].security IN
    /\ txn[p].pc = "observe" /\ rules[txn[p].op].enabled /\ stream[s] = Free
    /\ streamShare' = [streamShare EXCEPT ![s] = @ \union {p}]
    /\ Goto(p, "observed")
    /\ UNCHANGED <<data, account, accountKey, ruleRow, stream>>

NoTrigger(p) ==
    /\ \/ txn[p].pc = "observe" /\ ~rules[txn[p].op].enabled
       \/ txn[p].pc = "observed"
    /\ Release(p)
    /\ UNCHANGED data

Trigger(p) ==
    /\ txn[p].pc = "observed"
    /\ Goto(p, "enqueue")
    /\ UNCHANGED <<data, locks>>

Enqueue(p) ==
    /\ txn[p].pc = "enqueue" /\ account[Owner[txn[p].op]] = Free
    /\ accountKey' = [accountKey EXCEPT ![Owner[txn[p].op]] = @ \union {p}]
    /\ Goto(p, "enqueued")
    /\ UNCHANGED <<data, account, ruleRow, stream, streamShare>>

CommitTrigger(p) == txn[p].pc = "enqueued" /\ Release(p) /\ UNCHANGED data

-----------------------------------------------------------------------------
(* AnalysisService.materialize: the stream row, then the demand, then the   *)
(* publication with the generation read under the lock.                     *)

LockStream(p, s) ==
    /\ txn[p].pc = "idle" /\ CanUpdateStream(p, s)
    /\ published_demand_generation[s] # demand_generation[s]
    /\ stream' = [stream EXCEPT ![s] = p]
    /\ txn' = [txn EXCEPT ![p] = [Idle EXCEPT !.pc = "collect", !.op = s]]
    /\ UNCHANGED <<data, account, accountKey, ruleRow, streamShare>>

Collect(p) ==
    /\ txn[p].pc = "collect"
    /\ txn' = [txn EXCEPT ![p].pc = "publish", ![p].seen = Demand(txn[p].op)]
    /\ UNCHANGED <<data, locks>>

Publish(p) ==
    LET s == txn[p].op IN
    /\ txn[p].pc = "publish"
    /\ published' = [published EXCEPT ![s] = txn[p].seen]
    /\ published_demand_generation' = [published_demand_generation EXCEPT ![s] = demand_generation[s]]
    /\ Release(p)
    /\ UNCHANGED <<tables, rules, demand_generation>>

-----------------------------------------------------------------------------
(* PostgreSQL's deadlock detector aborts a transaction of a wait cycle; the  *)
(* session's context manager rolls it back.                                  *)

Waits(p, q) ==
    /\ p # q
    /\ CASE txn[p].pc = "account" -> LET u == Owner[txn[p].op.id] IN q = account[u] \/ q \in accountKey[u]
         [] txn[p].pc = "rule" -> q = ruleRow[txn[p].op.id]
         [] txn[p].pc = "mark" /\ txn[p].mark # {} ->
               LET s == NextRow(p) IN q = stream[s] \/ q \in streamShare[s]
         [] txn[p].pc = "observe" -> q = stream[rules[txn[p].op].security]
         [] txn[p].pc = "enqueue" -> q = account[Owner[txn[p].op]]
         [] OTHER -> FALSE

WaitsFor == [p, q \in Sessions |-> Waits(p, q)]

\* A cycle runs through sessions that wait.
Waiting == {p \in Sessions : \E q \in Sessions : Waits(p, q)}

OnCycle(p) == p \in Waiting /\ TransitiveClosure(WaitsFor, Waiting)[p, p]

Detect(p) ==
    /\ OnCycle(p)
    /\ Release(p)
    /\ UNCHANGED data

-----------------------------------------------------------------------------

HandlerStep(p) == LockAccount(p) \/ LockRule(p) \/ Refuse(p) \/ Decide(p) \/ MarkRow(p) \/ Commit(p)
EvaluatorStep(p) == Observe(p) \/ NoTrigger(p) \/ Trigger(p) \/ Enqueue(p) \/ CommitTrigger(p)
PublisherStep(p) == Collect(p) \/ Publish(p)

Next ==
    \/ \E p \in Handlers : HandlerStep(p) \/ \E op \in Operations : Request(p, op)
    \/ \E p \in Evaluators : EvaluatorStep(p) \/ \E k \in Rules : EvaluateRule(p, k)
    \/ \E p \in Publishers : PublisherStep(p) \/ \E s \in Securities : LockStream(p, s)
    \/ \E p \in Sessions : Detect(p)

Spec == Init /\ [][Next]_vars

-----------------------------------------------------------------------------

\* Committed rows, locks and transactions keep their types.
Work(p) == IF p \in Handlers THEN Operations ELSE IF p \in Evaluators THEN Rules ELSE Securities
Transaction(p) ==
    [pc : {"idle", "account", "rule", "check", "mark", "observe", "observed", "enqueue", "enqueued",
           "collect", "publish"},
     op : {NoOp} \union Work(p), mark : SUBSET Securities, seen : SUBSET Targets]
TypeOK ==
    /\ tables \in [Tables -> Table \union {Absent}] /\ rules \in [Rules -> Rule \union {Absent}]
    /\ demand_generation \in [Securities -> Nat]
    /\ published_demand_generation \in [Securities -> Nat \union {-1}]
    /\ published \in [Securities -> SUBSET Targets]
    /\ account \in [Users -> Sessions \union {Free}] /\ accountKey \in [Users -> SUBSET Sessions]
    /\ ruleRow \in [Rules -> Sessions \union {Free}]
    /\ stream \in [Securities -> Sessions \union {Free}]
    /\ streamShare \in [Securities -> SUBSET Sessions]
    /\ txn = [p \in Sessions |-> txn[p]] /\ \A p \in Sessions : txn[p] \in Transaction(p)

\* ensure_monitor_capacity is effective: whatever the handlers of one user
\* interleave, the distinct securities of the user's tables and enabled rules
\* never exceed the limit.
WithinMonitorLimit == \A u \in Users : Cardinality(Monitored(u)) <= Limit

\* A stream whose published demand generation is current was published with
\* every request that any table or enabled rule makes of the security now: a
\* configuration change is never hidden from publication_is_current.
CurrentPublicationCoversDemand ==
    \A s \in Securities :
        published_demand_generation[s] = demand_generation[s] => Demand(s) \subseteq published[s]

\* lock_account first, then the rule, then streams in key order: handlers alone
\* never wait for each other in a cycle.  A cycle needs an alert evaluation,
\* which takes the owner's row last.
HandlersNeverDeadlock ==
    \A C \in (SUBSET Handlers) \ {{}} : \E p \in C : \A q \in C : ~Waits(p, q)
=============================================================================
