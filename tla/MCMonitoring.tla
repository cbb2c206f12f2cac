----------------------------- MODULE MCMonitoring -----------------------------
(***************************************************************************)
(* What users configure and what follows from it: scenarios of Monitoring, *)
(* TableLayout and HistoryReadiness on small instances.  The initial       *)
(* state picks a scenario; the variables of the others keep their values.  *)
(***************************************************************************)
EXTENDS Configuration, TLC

CONSTANTS u1, u2, t1, k1, k2, x1, x2, x3, b1, b2

VARIABLE scenario

layout == <<columns, stocks, nextId, last>>
readiness == <<demand, prepared, history, lock, worker, faults, edits>>

Owners == (t1 :> u1) @@ (k1 :> u1) @@ (k2 :> u2)

\* Operations of some kinds, with some securities and requests.
Among(kinds, ids, securities, targets) ==
    {op \in Operations :
        /\ op.kind \in kinds /\ op.id \in ids
        /\ op.kind \in {"add_stock", "remove_stock"} => op.security \in securities
        /\ op.kind \in {"add_column", "update_column", "delete_column"} => op.target \in targets
        /\ op.kind = "update_column" => op.to \in targets
        /\ op.kind \in {"create_rule", "update_rule"} =>
              op.rule.security \in securities /\ op.rule.target \in targets}
Membership == {"create_table", "delete_table", "add_stock", "remove_stock"}
Alerting == {"create_rule", "update_rule", "delete_rule"}
\* One user, one more security than the limit allows.
CapacityOps == Among(Membership \union Alerting, {t1, k1}, {2, 3}, {x1})
\* Two users whose table and rule share streams.
OrderOps == Among(Membership \union Alerting, {t1, k2}, {1, 2}, {x1})
\* Default, added and edited columns of one stock.
DemandOps == {op \in Operations : op \in Among({op.kind}, {t1, k1}, {1}, {x1, x2})}

\* A table with one stock.
OneStock ==
    /\ tables = (t1 :> [members |-> {1}, columns |-> Defaults])
    /\ demand_generation = [s \in Securities |-> IF s = 1 THEN 1 ELSE 0]
    /\ rules = [k \in Rules |-> Absent]
    /\ published_demand_generation = [s \in Securities |-> -1]
    /\ published = [s \in Securities |-> {}]
    /\ account = [u \in Users |-> Free] /\ accountKey = [u \in Users |-> {}]
    /\ ruleRow = [k \in Rules |-> Free]
    /\ stream = [s \in Securities |-> Free] /\ streamShare = [s \in Securities |-> {}]
    /\ txn = [p \in Sessions |-> Idle]

Capacity ==
    \/ \E p \in Handlers : HandlerStep(p) \/ \E op \in CapacityOps : Request(p, op)
    \/ \E p \in Evaluators : EvaluatorStep(p) \/ \E k \in Rules : EvaluateRule(p, k)
    \/ \E p \in Sessions : Detect(p)
\* Handlers alone: HandlersNeverDeadlock leaves Detect nothing to do.
Order == \E p \in Handlers : HandlerStep(p) \/ \E op \in OrderOps : Request(p, op)
Demanded ==
    \/ \E p \in Handlers : \/ HandlerStep(p)
                           \/ /\ \A q \in Handlers : txn[q].pc = "idle"
                              /\ SumFunction(demand_generation) < MaxCommits - 1
                              /\ \E op \in DemandOps : Request(p, op)
    \/ \E p \in Publishers : PublisherStep(p) \/ LockStream(p, 1)

Columns == INSTANCE TableLayout WITH
    Targets <- {x1, x2, x3}, Securities <- {}, MaxId <- 4, MaxPosition <- 3
Stocks == INSTANCE TableLayout WITH
    Targets <- {}, Securities <- {1, 2, 3}, MaxId <- 5, MaxPosition <- 2

\* Demands below the minimum, above it and beyond what the stock has traded.  One
\* message prepares two adjustments; beside it two contend for the lock of one symbol.
TwoAdjustments == <<"qfq", "none">>
Contention == INSTANCE HistoryReadiness WITH
    Adjustments <- <<"qfq">>, Depths <- {1, 3, 5}, Earlier <- {2}, Bootstraps <- {b1, b2},
    MaxEdits <- 2, stream <- history

ASSUME Assumptions ==
    /\ Columns!LayoutAssumption /\ Stocks!LayoutAssumption /\ Layout!LayoutAssumption
    /\ Contention!HistoryAssumption /\ Readiness!HistoryAssumption

NoReadiness ==
    /\ demand = 0 /\ prepared = FALSE /\ history = <<>> /\ lock = Free
    /\ worker = [w \in {Eod} |-> Readiness!Idle] /\ faults = 0 /\ edits = 0
MCInit ==
    \/ scenario = "capacity" /\ OneStock /\ Stocks!Init /\ NoReadiness
    \/ scenario \in {"order", "demand"} /\ Init /\ Stocks!Init /\ NoReadiness
    \/ scenario = "columns" /\ Columns!Init /\ Init /\ NoReadiness
    \/ scenario = "stocks" /\ Stocks!Init /\ Init /\ NoReadiness
    \/ scenario = "contention" /\ Contention!Init /\ Init /\ Stocks!Init
    \/ scenario = "history" /\ Readiness!Init /\ Init /\ Stocks!Init

MCNext ==
    \/ scenario = "capacity" /\ Capacity /\ UNCHANGED <<scenario, layout, readiness>>
    \/ scenario = "order" /\ Order /\ UNCHANGED <<scenario, layout, readiness>>
    \/ scenario = "demand" /\ Demanded /\ UNCHANGED <<scenario, layout, readiness>>
    \/ scenario = "columns" /\ Columns!Next /\ UNCHANGED <<scenario, vars, readiness>>
    \/ scenario = "stocks" /\ Stocks!Next /\ UNCHANGED <<scenario, vars, readiness>>
    \/ scenario = "contention" /\ Contention!Next /\ UNCHANGED <<scenario, vars, layout>>
    \/ scenario = "history" /\ Readiness!Next /\ UNCHANGED <<scenario, vars, layout>>

MCSpec == MCInit /\ [][MCNext]_<<scenario, vars, layout, readiness>>

HandlerSymmetry == Permutations(Handlers) \union Permutations({b1, b2})
=============================================================================
