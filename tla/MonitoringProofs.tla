--------------------------- MODULE MonitoringProofs ---------------------------
(***************************************************************************)
(* Proofs about Monitoring, for every set of users, tables, rules, stocks  *)
(* and concurrent sessions: the limit on monitored securities, the demand  *)
(* generation of a publication and the lock order of the handlers; and     *)
(* about HistoryReadiness and TableLayout: what a pipeline run without     *)
(* issues prepares and what an edit of a table shows.                      *)
(***************************************************************************)
EXTENDS Configuration, Sequences, FiniteSetTheorems, TLAPS

-----------------------------------------------------------------------------
(* Sets of securities.                                                     *)

(* A set of naturals has a least member.                                    *)
LEMMA LeastExists ==
    ASSUME NEW X \in SUBSET Nat, X # {}
    PROVE  \E m \in X : \A n \in X : m <= n
<1>1. PICK m \in X : \A n \in X : ~(<<n, m>> \in OpToRel(<, Nat))
  BY NatLessThanWellFounded, WFMin
<1>2. ASSUME NEW n \in X PROVE m <= n
  <2>1. n \in Nat /\ m \in Nat OBVIOUS
  <2>2. n < m => <<n, m>> \in OpToRel(<, Nat) BY <2>1 DEF OpToRel
  <2>3. ~(n < m) BY <1>1, <2>2, Zenon
  <2> QED BY <2>1, <2>3
<1> QED BY <1>2

(* A finite set of naturals has a greatest one: the member with the fewest  *)
(* members above it.                                                        *)
LEMMA GreatestExists ==
    ASSUME NEW X \in SUBSET Nat, IsFiniteSet(X), X # {}
    PROVE  \E m \in X : \A n \in X : n <= m
<1> DEFINE Above(x) == {y \in X : x < y}
           Counts == {Cardinality(Above(x)) : x \in X}
<1>1. ASSUME NEW x \in X PROVE IsFiniteSet(Above(x)) /\ Cardinality(Above(x)) \in Nat
  BY FS_Subset, FS_CardinalityType
<1>2. Counts \in SUBSET Nat /\ Counts # {} BY <1>1
<1>3. PICK c \in Counts : \A d \in Counts : c <= d
  <2> HIDE DEF Counts
  <2> QED BY <1>2, LeastExists
<1>4. PICK m \in X : c = Cardinality(Above(m)) OBVIOUS
<1>5. ASSUME NEW n \in X PROVE n <= m
  <2> SUFFICES ASSUME m < n PROVE FALSE OBVIOUS
  <2>1. Above(n) \in SUBSET Above(m) /\ n \in Above(m) /\ n \notin Above(n)
    <3>1. n \in Nat /\ m \in Nat /\ ~(n < n) OBVIOUS
    <3>2. ASSUME NEW y \in X, n < y PROVE m < y
      <4>1. y \in Nat OBVIOUS
      <4> QED BY <3>1, <3>2, <4>1
    <3> QED BY <3>1, <3>2
  <2>2. Cardinality(Above(n)) <= Cardinality(Above(m)) /\ Cardinality(Above(n)) # Cardinality(Above(m))
    <3> HIDE DEF Above
    <3> QED BY <1>1, <2>1, FS_Subset
  <2>3. Cardinality(Above(m)) <= Cardinality(Above(n)) BY <1>3, <1>4
  <2> QED BY <1>1, <2>2, <2>3
<1> QED BY <1>5

(* Min is the least security of a nonempty set: the first of sorted(keys).  *)
LEMMA MinIsFirst ==
    ASSUME NEW X \in SUBSET Securities, X # {}
    PROVE  Min(X) \in X /\ \A x \in X : Min(X) <= x
<1>1. \E m \in X : \A n \in X : m <= n BY LeastExists, MonitoringAssumption
<1> QED BY <1>1 DEF Min

(* A set of securities has a last one.                                      *)
LEMMA LastExists ==
    ASSUME NEW X \in SUBSET Securities, X # {}
    PROVE  \E m \in X : \A n \in X : n <= m
<1>1. X \in SUBSET Nat /\ IsFiniteSet(X) BY MonitoringAssumption, FS_Subset
<1> QED BY <1>1, GreatestExists

-----------------------------------------------------------------------------
(* What rows say, as functions of the rows.                                *)

WatchedIn(T, u) == UNION {T[t].members : t \in {t \in Tables : Owner[t] = u /\ T[t] # Absent}}
AlertedIn(R, u, except) ==
    {R[k].security : k \in {k \in Rules \ except : Owner[k] = u /\ R[k] # Absent /\ R[k].enabled}}
ColumnsIn(T, s) ==
    UNION {T[t].columns : t \in {t \in Tables : T[t] # Absent /\ s \in T[t].members}}
TargetsIn(R, s) ==
    {R[k].target : k \in {k \in Rules : R[k] # Absent /\ R[k].enabled /\ R[k].security = s}}
WantedIn(T, R, s) == ColumnsIn(T, s) \union TargetsIn(R, s)

LEMMA RowViews ==
    /\ \A u : Watched(u) = WatchedIn(tables, u) /\ Watched(u)' = WatchedIn(tables', u)
    /\ \A u, e : /\ Alerted(u, e) = AlertedIn(rules, u, e)
                 /\ Alerted(u, e)' = AlertedIn(rules', u, e)
    /\ \A s : /\ Demand(s) = WantedIn(tables, rules, s)
              /\ Demand(s)' = WantedIn(tables', rules', s)
<1>1. \A u : Watched(u) = WatchedIn(tables, u) /\ Watched(u)' = WatchedIn(tables', u)
  BY Zenon DEF Watched, WatchedIn
<1>2. \A u, e : Alerted(u, e) = AlertedIn(rules, u, e) /\ Alerted(u, e)' = AlertedIn(rules', u, e)
  BY Zenon DEF Alerted, AlertedIn
<1>3. \A s : Demand(s) = WantedIn(tables, rules, s) /\ Demand(s)' = WantedIn(tables', rules', s)
  BY Zenon DEF Demand, WantedIn, ColumnsIn, TargetsIn
<1> QED BY <1>1, <1>2, <1>3

LEMMA WatchedMember ==
    \A T, u, x : x \in WatchedIn(T, u) <=>
                 \E t \in Tables : Owner[t] = u /\ T[t] # Absent /\ x \in T[t].members
BY Zenon DEF WatchedIn
LEMMA AlertedMember ==
    \A R, u, e, x : x \in AlertedIn(R, u, e) <=>
        \E k \in Rules \ e : Owner[k] = u /\ R[k] # Absent /\ R[k].enabled /\ x = R[k].security
BY Zenon DEF AlertedIn
LEMMA WantedMember ==
    \A T, R, s, x : x \in WantedIn(T, R, s) <=>
        \/ \E t \in Tables : T[t] # Absent /\ s \in T[t].members /\ x \in T[t].columns
        \/ \E k \in Rules : R[k] # Absent /\ R[k].enabled /\ R[k].security = s /\ x = R[k].target
<1>1. \A T, s, x : x \in ColumnsIn(T, s) <=>
                   \E t \in Tables : T[t] # Absent /\ s \in T[t].members /\ x \in T[t].columns
  BY Zenon DEF ColumnsIn
<1>2. \A R, s, x : x \in TargetsIn(R, s) <=>
        \E k \in Rules : R[k] # Absent /\ R[k].enabled /\ R[k].security = s /\ x = R[k].target
  BY Zenon DEF TargetsIn
<1> TAKE T, R, s, x
<1>3. x \in WantedIn(T, R, s) <=> x \in ColumnsIn(T, s) \/ x \in TargetsIn(R, s) BY DEF WantedIn
<1>4. x \in ColumnsIn(T, s) <=> \E t \in Tables : T[t] # Absent /\ s \in T[t].members /\ x \in T[t].columns
  BY <1>1, Zenon
<1>5. x \in TargetsIn(R, s) <=>
        \E k \in Rules : R[k] # Absent /\ R[k].enabled /\ R[k].security = s /\ x = R[k].target
  BY <1>2
<1> QED BY <1>3, <1>4, <1>5, Zenon

-----------------------------------------------------------------------------
(* The ten operations.                                                     *)

LEMMA OperationKinds ==
    ASSUME NEW op \in Operations
    PROVE  \/ op.kind = "create_table" /\ op.id \in Tables /\ Handle(op) = CreateTable(op)
           \/ op.kind = "delete_table" /\ op.id \in Tables /\ Handle(op) = DeleteTable(op)
           \/ /\ op.kind = "add_stock" /\ op.id \in Tables /\ op.security \in Securities
              /\ Handle(op) = AddStock(op)
           \/ /\ op.kind = "remove_stock" /\ op.id \in Tables /\ op.security \in Securities
              /\ Handle(op) = RemoveStock(op)
           \/ /\ op.kind = "add_column" /\ op.id \in Tables /\ op.target \in Targets
              /\ Handle(op) = AddColumn(op)
           \/ /\ op.kind = "update_column" /\ op.id \in Tables /\ op.target \in Targets
              /\ op.to \in Targets /\ Handle(op) = UpdateColumn(op)
           \/ /\ op.kind = "delete_column" /\ op.id \in Tables /\ op.target \in Targets
              /\ Handle(op) = DeleteColumn(op)
           \/ /\ op.kind = "create_rule" /\ op.id \in Rules /\ op.rule \in Rule
              /\ Handle(op) = CreateRule(op)
           \/ /\ op.kind = "update_rule" /\ op.id \in Rules /\ op.rule \in Rule
              /\ Handle(op) = UpdateRule(op)
           \/ op.kind = "delete_rule" /\ op.id \in Rules /\ Handle(op) = DeleteRule(op)
BY DEF Operations, Handle

(* The table row a handler edits, empty when it does not exist.             *)
LEMMA RowType ==
    ASSUME TypeOK, NEW t \in Tables
    PROVE  /\ Row(t) \in Table
           /\ tables[t] # Absent => Row(t) = tables[t]
           /\ tables[t] = Absent => Row(t).members = {} /\ Row(t).columns = {}
BY DEF TypeOK, Row, Table

(* An operation writes at most the row of its own id, and marks securities. *)
OneRowWritten(id, e) ==
    /\ e.marks \in SUBSET Securities
    /\ e.tables \in [Tables -> Table \union {Absent}] /\ e.rules \in [Rules -> Rule \union {Absent}]
    /\ \A t \in Tables : t # id => e.tables[t] = tables[t]
    /\ \A k \in Rules : k # id => e.rules[k] = rules[k]
LEMMA EffectShape ==
    ASSUME TypeOK, NEW op \in Operations
    PROVE  OneRowWritten(op.id, Handle(op)) /\ Marks(op) = Handle(op).marks
<1>0. tables \in [Tables -> Table \union {Absent}] /\ rules \in [Rules -> Rule \union {Absent}]
  BY DEF TypeOK
<1>1. ASSUME op.id \in Tables, NEW row \in Table \union {Absent}, NEW m \in SUBSET Securities,
             NEW allowed, Handle(op) = Effect(allowed, m, [tables EXCEPT ![op.id] = row], rules)
      PROVE  OneRowWritten(op.id, Handle(op))
  BY <1>0, <1>1 DEF OneRowWritten, Effect
<1>2. ASSUME op.id \in Rules, NEW row \in Rule \union {Absent}, NEW m \in SUBSET Securities,
             NEW allowed, Handle(op) = Effect(allowed, m, tables, [rules EXCEPT ![op.id] = row])
      PROVE  OneRowWritten(op.id, Handle(op))
  BY <1>0, <1>2 DEF OneRowWritten, Effect
<1>3. CASE op.kind = "create_table"
  <2>1. [members |-> {}, columns |-> Defaults] \in Table BY MonitoringAssumption DEF Table
  <2> QED BY <1>1, <1>3, <2>1, OperationKinds DEF CreateTable, Marks
<1>4. CASE op.kind = "delete_table"
  <2>1. Row(op.id).members \in SUBSET Securities BY <1>4, OperationKinds, RowType DEF Table
  <2> QED BY <1>1, <1>4, <2>1, OperationKinds DEF DeleteTable, Marks
<1>5. CASE op.kind \in {"add_stock", "remove_stock"}
  <2>0. op.id \in Tables /\ op.security \in Securities BY <1>5, OperationKinds
  <2> DEFINE t == Row(op.id)
  <2>1. t \in Table BY <2>0, RowType
  <2>2. /\ [t EXCEPT !.members = @ \union {op.security}] \in Table
        /\ [t EXCEPT !.members = @ \ {op.security}] \in Table
    BY <2>0, <2>1 DEF Table
  <2>3. op.kind = "add_stock" => Handle(op) = AddStock(op) BY OperationKinds
  <2>4. op.kind = "remove_stock" => Handle(op) = RemoveStock(op) BY OperationKinds
  <2> QED BY <1>1, <1>5, <2>0, <2>2, <2>3, <2>4 DEF AddStock, RemoveStock, Marks
<1>6. CASE op.kind \in {"add_column", "update_column", "delete_column"}
  <2>0. op.id \in Tables /\ op.target \in Targets /\ (op.kind = "update_column" => op.to \in Targets)
    BY <1>6, OperationKinds
  <2> DEFINE t == Row(op.id)
  <2>1. t \in Table /\ t.members \in SUBSET Securities /\ {} \in SUBSET Securities
    BY <2>0, RowType DEF Table
  <2>2. /\ [t EXCEPT !.columns = @ \union {op.target}] \in Table
        /\ [t EXCEPT !.columns = @ \ {op.target}] \in Table
        /\ op.kind = "update_column" => [t EXCEPT !.columns = (@ \ {op.target}) \union {op.to}] \in Table
    BY <2>0, <2>1 DEF Table
  <2>3. CASE op.kind = "add_column"
    BY <1>1, <2>0, <2>1, <2>2, <2>3, OperationKinds DEF AddColumn, Marks
  <2>4. CASE op.kind = "update_column"
    <3>1. (IF op.to = op.target THEN {} ELSE t.members) \in SUBSET Securities BY <2>1
    <3>2. Handle(op) = UpdateColumn(op) BY <2>4, OperationKinds
    <3> QED BY <1>1, <2>0, <2>2, <2>4, <3>1, <3>2 DEF UpdateColumn, Marks
  <2>5. CASE op.kind = "delete_column"
    BY <1>1, <2>0, <2>1, <2>2, <2>5, OperationKinds DEF DeleteColumn, Marks
  <2> QED BY <1>6, <2>3, <2>4, <2>5
<1>7. CASE op.kind = "create_rule"
  <2>1. (IF op.rule.enabled THEN {op.rule.security} ELSE {}) \in SUBSET Securities
    BY <1>7, OperationKinds DEF Rule
  <2> QED BY <1>2, <1>7, <2>1, OperationKinds DEF CreateRule, Marks
<1>8. CASE op.kind = "update_rule"
  <2>0. op.id \in Rules /\ op.rule \in Rule BY <1>8, OperationKinds
  <2>1. (IF rules[op.id] \in {Absent, op.rule} THEN {} ELSE {rules[op.id].security, op.rule.security})
        \in SUBSET Securities
    BY <1>0, <2>0 DEF Rule
  <2> QED BY <1>2, <1>8, <2>1, OperationKinds DEF UpdateRule, Marks
<1>9. CASE op.kind = "delete_rule"
  <2>1. (IF rules[op.id] = Absent THEN {} ELSE {rules[op.id].security}) \in SUBSET Securities
    BY <1>0, <1>9, OperationKinds DEF Rule
  <2> QED BY <1>2, <1>9, <2>1, OperationKinds DEF DeleteRule, Marks
<1> QED BY <1>3, <1>4, <1>5, <1>6, <1>7, <1>8, <1>9, OperationKinds

-----------------------------------------------------------------------------
(* The limit.                                                              *)

(* What a user monitors depends on the user's own rows.                     *)
LEMMA OwnRowsDecide ==
    ASSUME NEW u, NEW T, NEW R,
           \A t \in Tables : Owner[t] = u => T[t] = tables[t],
           \A k \in Rules : Owner[k] = u => R[k] = rules[k]
    PROVE  /\ WatchedIn(T, u) = WatchedIn(tables, u)
           /\ \A e : AlertedIn(R, u, e) = AlertedIn(rules, u, e)
<1>1. ASSUME NEW x PROVE x \in WatchedIn(T, u) <=> x \in WatchedIn(tables, u)
  <2>1. x \in WatchedIn(T, u) <=>
        \E t \in Tables : Owner[t] = u /\ T[t] # Absent /\ x \in T[t].members
    BY WatchedMember
  <2>2. x \in WatchedIn(tables, u) <=>
        \E t \in Tables : Owner[t] = u /\ tables[t] # Absent /\ x \in tables[t].members
    BY WatchedMember
  <2> QED BY <2>1, <2>2, Zenon
<1>2. ASSUME NEW e, NEW x PROVE x \in AlertedIn(R, u, e) <=> x \in AlertedIn(rules, u, e)
  <2>1. x \in AlertedIn(R, u, e) <=>
        \E k \in Rules \ e : Owner[k] = u /\ R[k] # Absent /\ R[k].enabled /\ x = R[k].security
    BY AlertedMember
  <2>2. x \in AlertedIn(rules, u, e) <=>
        \E k \in Rules \ e : Owner[k] = u /\ rules[k] # Absent /\ rules[k].enabled /\ x = rules[k].security
    BY AlertedMember
  <2> QED BY <2>1, <2>2, Zenon
<1> QED BY <1>1, <1>2

(* Rows refer to known securities.                                          *)
LEMMA MonitoredType ==
    ASSUME NEW T \in [Tables -> Table \union {Absent}], NEW R \in [Rules -> Rule \union {Absent}], NEW u
    PROVE  /\ WatchedIn(T, u) \in SUBSET Securities
           /\ \A e : AlertedIn(R, u, e) \in SUBSET Securities
<1>1. ASSUME NEW x \in WatchedIn(T, u) PROVE x \in Securities
  <2>1. PICK t \in Tables : T[t] # Absent /\ x \in T[t].members BY WatchedMember
  <2> QED BY <2>1 DEF Table
<1>2. ASSUME NEW e, NEW x \in AlertedIn(R, u, e) PROVE x \in Securities
  <2>1. PICK k \in Rules \ e : R[k] # Absent /\ x = R[k].security BY AlertedMember
  <2> QED BY <2>1 DEF Rule
<1> QED BY <1>1, <1>2

(* An edited table adds to what is watched only what its new row adds.      *)
LEMMA TableEdit ==
    ASSUME TypeOK, NEW id \in Tables, NEW row \in Table \union {Absent}, NEW Extra, NEW u,
           row # Absent => row.members \subseteq Row(id).members \union Extra
    PROVE  WatchedIn([tables EXCEPT ![id] = row], u) \subseteq WatchedIn(tables, u) \union Extra
<1> DEFINE T == [tables EXCEPT ![id] = row]
<1> SUFFICES ASSUME NEW x \in WatchedIn(T, u), x \notin Extra PROVE x \in WatchedIn(tables, u)
  OBVIOUS
<1>1. PICK t \in Tables : Owner[t] = u /\ T[t] # Absent /\ x \in T[t].members
  <2> HIDE DEF T
  <2> QED BY WatchedMember
<1>2. tables[t] # Absent /\ x \in tables[t].members
  <2>1. CASE t = id
    <3>1. x \in Row(id).members BY <1>1, <2>1 DEF TypeOK
    <3> QED BY <2>1, <3>1, RowType
  <2>2. CASE t # id BY <1>1, <2>2 DEF TypeOK
  <2> QED BY <2>1, <2>2
<1> QED BY <1>1, <1>2, WatchedMember

(* A written rule adds its security when it is enabled.                     *)
LEMMA RuleEdit ==
    ASSUME TypeOK, NEW id \in Rules, NEW row \in Rule \union {Absent}, NEW u
    PROVE  AlertedIn([rules EXCEPT ![id] = row], u, {}) \subseteq
           AlertedIn(rules, u, {id}) \union (IF row # Absent /\ row.enabled THEN {row.security} ELSE {})
<1> DEFINE R == [rules EXCEPT ![id] = row]
<1> SUFFICES ASSUME NEW x \in AlertedIn(R, u, {}), x \notin AlertedIn(rules, u, {id})
             PROVE  row # Absent /\ row.enabled /\ x = row.security
  OBVIOUS
<1>1. PICK k \in Rules \ {} : Owner[k] = u /\ R[k] # Absent /\ R[k].enabled /\ x = R[k].security
  <2> HIDE DEF R
  <2> QED BY AlertedMember
<1>2. k = id
  <2> SUFFICES ASSUME k # id PROVE FALSE OBVIOUS
  <2>1. /\ k \in Rules \ {id} /\ Owner[k] = u /\ rules[k] # Absent /\ rules[k].enabled
        /\ x = rules[k].security
    BY <1>1 DEF TypeOK
  <2> QED BY <2>1, AlertedMember
<1> QED BY <1>1, <1>2 DEF TypeOK

(* One more security where there is room, or one that is monitored already. *)
LEMMA RoomForOne ==
    ASSUME NEW ids \in SUBSET Securities, NEW new \in SUBSET Securities, NEW s,
           Cardinality(ids) <= Limit, s \in ids \/ Cardinality(ids) < Limit,
           new \subseteq ids \union {s}
    PROVE  Cardinality(new) <= Limit
<1>1. IsFiniteSet(ids) /\ Cardinality(ids) \in Nat BY MonitoringAssumption, FS_Subset, FS_CardinalityType
<1>2. /\ IsFiniteSet(ids \union {s})
      /\ Cardinality(ids \union {s}) = IF s \in ids THEN Cardinality(ids) ELSE Cardinality(ids) + 1
  BY <1>1, FS_AddElement
<1>3. Cardinality(new) <= Cardinality(ids \union {s}) /\ IsFiniteSet(new) BY <1>2, FS_Subset
<1>4. Cardinality(new) \in Nat BY <1>3, FS_CardinalityType
<1> QED BY <1>1, <1>2, <1>3, <1>4, MonitoringAssumption
LEMMA SmallerStaysWithin ==
    ASSUME NEW ids \in SUBSET Securities, NEW new \in SUBSET ids, Cardinality(ids) <= Limit
    PROVE  Cardinality(new) <= Limit
<1>1. IsFiniteSet(ids) /\ Cardinality(ids) \in Nat BY MonitoringAssumption, FS_Subset, FS_CardinalityType
<1>2. Cardinality(new) <= Cardinality(ids) /\ Cardinality(new) \in Nat BY <1>1, FS_Subset, FS_CardinalityType
<1> QED BY <1>1, <1>2, MonitoringAssumption

(* A handler that goes on after ensure_monitor_capacity leaves every user   *)
(* within the limit.                                                        *)
MonitoredIn(T, R, u) == WatchedIn(T, u) \union AlertedIn(R, u, {})
LEMMA EffectKeepsLimit ==
    ASSUME TypeOK, WithinMonitorLimit, NEW op \in Operations, Handle(op).allowed, NEW u \in Users
    PROVE  Cardinality(MonitoredIn(Handle(op).tables, Handle(op).rules, u)) <= Limit
<1> DEFINE T == Handle(op).tables
           R == Handle(op).rules
           Old == MonitoredIn(tables, rules, u)
           New == MonitoredIn(T, R, u)
<1>0. T \in [Tables -> Table \union {Absent}] /\ R \in [Rules -> Rule \union {Absent}]
  BY EffectShape DEF OneRowWritten
<1>1. New \in SUBSET Securities
  <2> HIDE DEF T, R
  <2> QED BY <1>0, MonitoredType DEF MonitoredIn
<1>2. Old \in SUBSET Securities BY MonitoredType DEF MonitoredIn, TypeOK
<1>3. Cardinality(Old) <= Limit BY RowViews DEF WithinMonitorLimit, Monitored, MonitoredIn
<1>4. ASSUME New \subseteq Old PROVE Cardinality(New) <= Limit
  <2> HIDE DEF New, Old
  <2> QED BY <1>2, <1>3, <1>4, SmallerStaysWithin
<1>5. ASSUME NEW s, NEW except, u = Owner[op.id], HasCapacity(u, s, except),
             New \subseteq WatchedIn(tables, u) \union AlertedIn(rules, u, except) \union {s}
      PROVE  Cardinality(New) <= Limit
  <2> DEFINE ids == WatchedIn(tables, u) \union AlertedIn(rules, u, except)
  <2>1. ids = Watched(u) \union Alerted(u, except) BY RowViews
  <2>2. s \in ids \/ Cardinality(ids) < Limit BY <1>5, <2>1 DEF HasCapacity
  <2>3. ids \in SUBSET Old
    <3>1. ASSUME NEW x \in AlertedIn(rules, u, except) PROVE x \in AlertedIn(rules, u, {})
      <4>1. PICK k \in Rules : Owner[k] = u /\ rules[k] # Absent /\ rules[k].enabled /\ x = rules[k].security
        BY AlertedMember
      <4> QED BY <4>1, AlertedMember
    <3> QED BY <3>1 DEF MonitoredIn
  <2>4. ids \in SUBSET Securities /\ Cardinality(ids) <= Limit
    <3> HIDE DEF Old, ids
    <3> QED BY <1>2, <1>3, <2>3, SmallerStaysWithin
  <2>5. New \subseteq ids \union {s} BY <1>5
  <2> HIDE DEF New, ids
  <2> QED BY <1>1, <2>2, <2>4, <2>5, RoomForOne
<1>6. CASE u # Owner[op.id]
  <2>1. /\ \A t \in Tables : Owner[t] = u => T[t] = tables[t]
        /\ \A k \in Rules : Owner[k] = u => R[k] = rules[k]
    BY <1>6, EffectShape DEF OneRowWritten
  <2>2. New = Old
    <3> HIDE DEF T, R
    <3> QED BY <2>1, OwnRowsDecide DEF MonitoredIn
  <2> QED BY <1>4, <2>2
<1>7. ASSUME u = Owner[op.id], op.id \in Tables, NEW row \in Table \union {Absent}, NEW allowed, NEW m,
             Handle(op) = Effect(allowed, m, [tables EXCEPT ![op.id] = row], rules),
             row # Absent => row.members \subseteq Row(op.id).members
      PROVE  Cardinality(New) <= Limit
  <2>1. T = [tables EXCEPT ![op.id] = row] /\ R = rules BY <1>7 DEF Effect
  <2>2. WatchedIn(T, u) \subseteq WatchedIn(tables, u) \union {} BY <1>7, <2>1, TableEdit
  <2>3. New \subseteq Old BY <2>1, <2>2 DEF MonitoredIn
  <2> QED BY <1>4, <2>3
<1>8. ASSUME u = Owner[op.id], op.id \in Rules, NEW row \in Rule \union {Absent}, NEW allowed, NEW m,
             Handle(op) = Effect(allowed, m, tables, [rules EXCEPT ![op.id] = row]),
             row # Absent /\ row.enabled => \E e \in {{}, {op.id}} : HasCapacity(u, row.security, e)
      PROVE  Cardinality(New) <= Limit
  <2>1. R = [rules EXCEPT ![op.id] = row] /\ T = tables BY <1>8 DEF Effect
  <2>2. AlertedIn(R, u, {}) \subseteq
        AlertedIn(rules, u, {op.id}) \union (IF row # Absent /\ row.enabled THEN {row.security} ELSE {})
    BY <1>8, <2>1, RuleEdit
  <2>3. AlertedIn(rules, u, {op.id}) \subseteq AlertedIn(rules, u, {})
    <3> SUFFICES ASSUME NEW x \in AlertedIn(rules, u, {op.id}) PROVE x \in AlertedIn(rules, u, {}) OBVIOUS
    <3>1. PICK k \in Rules : Owner[k] = u /\ rules[k] # Absent /\ rules[k].enabled /\ x = rules[k].security
      BY AlertedMember
    <3> QED BY <3>1, AlertedMember
  <2>4. CASE row # Absent /\ row.enabled
    <3>1. PICK e \in {{}, {op.id}} : HasCapacity(u, row.security, e) BY <1>8, <2>4
    <3>2. New \subseteq WatchedIn(tables, u) \union AlertedIn(rules, u, e) \union {row.security}
      <4> HIDE DEF T, R
      <4> QED BY <2>1, <2>2, <2>3, <2>4 DEF MonitoredIn
    <3> QED BY <1>5, <1>8, <3>1, <3>2
  <2>5. CASE ~(row # Absent /\ row.enabled)
    <3>1. New \subseteq Old
      <4> HIDE DEF T, R
      <4> QED BY <2>1, <2>2, <2>3, <2>5 DEF MonitoredIn
    <3> QED BY <1>4, <3>1
  <2> QED BY <2>4, <2>5
<1>9. CASE u = Owner[op.id]
  <2> HIDE DEF New, Old, T, R
  <2>1. CASE op.kind = "create_table"
    <3>1. op.id \in Tables /\ Handle(op) = CreateTable(op) BY <2>1, OperationKinds
    <3>2. [members |-> {}, columns |-> Defaults] \in Table BY MonitoringAssumption DEF Table
    <3> QED BY <1>7, <1>9, <3>1, <3>2 DEF CreateTable, New, T, R
  <2>2. CASE op.kind = "delete_table"
    <3>1. op.id \in Tables /\ Handle(op) = DeleteTable(op) BY <2>2, OperationKinds
    <3> QED BY <1>7, <1>9, <3>1 DEF DeleteTable, New, T, R
  <2>3. CASE op.kind = "add_stock"
    <3>1. op.id \in Tables /\ op.security \in Securities /\ Handle(op) = AddStock(op)
      BY <2>3, OperationKinds
    <3> DEFINE row == [Row(op.id) EXCEPT !.members = @ \union {op.security}]
    <3>2. row \in Table /\ row.members = Row(op.id).members \union {op.security} BY <3>1, RowType DEF Table
    <3>3. T = [tables EXCEPT ![op.id] = row] /\ R = rules /\ HasCapacity(u, op.security, {})
      <4>1. T = [tables EXCEPT ![op.id] = row] /\ R = rules BY <3>1 DEF AddStock, Effect, T, R
      <4>2. AddStock(op).allowed =
              (Owned(op.id) /\ op.security \notin Row(op.id).members /\ HasCapacity(Owner[op.id], op.security, {}))
        BY Zenon DEF AddStock, Effect
      <4>3. HasCapacity(u, op.security, {}) BY <1>9, <3>1, <4>2
      <4> QED BY <4>1, <4>3
    <3>4. WatchedIn(T, u) \subseteq WatchedIn(tables, u) \union {op.security}
      <4> HIDE DEF row
      <4> QED BY <3>1, <3>2, <3>3, TableEdit
    <3>5. New \subseteq WatchedIn(tables, u) \union AlertedIn(rules, u, {}) \union {op.security}
      BY <3>3, <3>4 DEF New, MonitoredIn
    <3> QED BY <1>5, <1>9, <3>3, <3>5 DEF New, T, R
  <2>4. CASE op.kind = "remove_stock"
    <3>1. op.id \in Tables /\ op.security \in Securities /\ Handle(op) = RemoveStock(op)
      BY <2>4, OperationKinds
    <3> DEFINE row == [Row(op.id) EXCEPT !.members = @ \ {op.security}]
    <3>2. row \in Table /\ row.members \subseteq Row(op.id).members BY <3>1, RowType DEF Table
    <3>3. \E a, m : Handle(op) = Effect(a, m, [tables EXCEPT ![op.id] = row], rules)
      BY <3>1 DEF RemoveStock
    <3> HIDE DEF row
    <3> QED BY <1>7, <1>9, <3>1, <3>2, <3>3 DEF New, T, R
  <2>5. CASE op.kind \in {"add_column", "update_column", "delete_column"}
    <3>1. op.id \in Tables /\ op.target \in Targets /\ (op.kind = "update_column" => op.to \in Targets)
      BY <2>5, OperationKinds
    <3>2. PICK targets \in SUBSET Targets : \E a, m :
            Handle(op) = Effect(a, m, [tables EXCEPT ![op.id] = [Row(op.id) EXCEPT !.columns = targets]], rules)
      <4>1. Row(op.id) \in Table BY <3>1, RowType
      <4>2. CASE op.kind = "add_column"
        <5>1. Row(op.id).columns \union {op.target} \in SUBSET Targets BY <3>1, <4>1 DEF Table
        <5>2. Handle(op) = AddColumn(op) BY <4>2, OperationKinds
        <5> QED BY <5>1, <5>2, <4>1 DEF AddColumn, Table
      <4>3. CASE op.kind = "update_column"
        <5>1. (Row(op.id).columns \ {op.target}) \union {op.to} \in SUBSET Targets BY <3>1, <4>1, <4>3 DEF Table
        <5>2. Handle(op) = UpdateColumn(op) BY <4>3, OperationKinds
        <5> QED BY <5>1, <5>2, <4>1 DEF UpdateColumn, Table
      <4>4. CASE op.kind = "delete_column"
        <5>1. Row(op.id).columns \ {op.target} \in SUBSET Targets BY <3>1, <4>1 DEF Table
        <5>2. Handle(op) = DeleteColumn(op) BY <4>4, OperationKinds
        <5> QED BY <5>1, <5>2, <4>1 DEF DeleteColumn, Table
      <4> QED BY <2>5, <4>2, <4>3, <4>4
    <3> DEFINE row == [Row(op.id) EXCEPT !.columns = targets]
    <3>3. row \in Table /\ row.members = Row(op.id).members BY <3>1, RowType DEF Table
    <3>4. \E a, m : Handle(op) = Effect(a, m, [tables EXCEPT ![op.id] = row], rules) BY <3>2
    <3> HIDE DEF row
    <3> QED BY <1>7, <1>9, <3>1, <3>3, <3>4 DEF New, T, R
  <2>6. CASE op.kind = "create_rule"
    <3>1. op.id \in Rules /\ op.rule \in Rule /\ Handle(op) = CreateRule(op) BY <2>6, OperationKinds
    <3>2. op.rule.enabled => HasCapacity(u, op.rule.security, {}) BY <1>9, <3>1 DEF CreateRule, Effect
    <3> QED BY <1>8, <1>9, <3>1, <3>2 DEF CreateRule, New, T, R
  <2>7. CASE op.kind = "update_rule"
    <3>1. op.id \in Rules /\ op.rule \in Rule /\ Handle(op) = UpdateRule(op) BY <2>7, OperationKinds
    <3>2. op.rule.enabled => HasCapacity(u, op.rule.security, {op.id}) BY <1>9, <3>1 DEF UpdateRule, Effect
    <3> QED BY <1>8, <1>9, <3>1, <3>2 DEF UpdateRule, New, T, R
  <2>8. CASE op.kind = "delete_rule"
    <3>1. op.id \in Rules /\ Handle(op) = DeleteRule(op) BY <2>8, OperationKinds
    <3> QED BY <1>8, <1>9, <3>1 DEF DeleteRule, New, T, R
  <2> QED BY <2>1, <2>2, <2>3, <2>4, <2>5, <2>6, <2>7, <2>8, OperationKinds DEF New, T, R
<1> QED BY <1>6, <1>9

-----------------------------------------------------------------------------
(* The demand.                                                             *)

(* Editing a row that asks nothing of s before and after, or the same       *)
(* before and after, leaves the demand of s as it was.                      *)
LEMMA TableEditUnseen ==
    ASSUME TypeOK, NEW id \in Tables, NEW row \in Table \union {Absent}, NEW s, NEW R,
           (row # Absent /\ s \in row.members) <=> s \in Row(id).members,
           row # Absent /\ s \in row.members => row.columns = Row(id).columns
    PROVE  WantedIn([tables EXCEPT ![id] = row], R, s) = WantedIn(tables, R, s)
<1> DEFINE T == [tables EXCEPT ![id] = row]
<1>1. ASSUME NEW t \in Tables
      PROVE  /\ T[t] # Absent /\ s \in T[t].members <=> tables[t] # Absent /\ s \in tables[t].members
             /\ T[t] # Absent /\ s \in T[t].members => T[t].columns = tables[t].columns
  <2>1. CASE t = id
    <3>1. T[t] = row BY <2>1 DEF TypeOK
    <3> QED BY <2>1, <3>1, RowType
  <2>2. CASE t # id
    <3>1. T[t] = tables[t] BY <2>2 DEF TypeOK
    <3> QED BY <3>1
  <2> QED BY <2>1, <2>2
<1>2. ColumnsIn(T, s) = ColumnsIn(tables, s)
  <2> HIDE DEF T
  <2> QED BY <1>1 DEF ColumnsIn
<1> QED BY <1>2 DEF WantedIn

LEMMA RuleEditUnseen ==
    ASSUME TypeOK, NEW id \in Rules, NEW row \in Rule \union {Absent}, NEW s, NEW T,
           row = rules[id] \/ /\ ~(row # Absent /\ row.enabled /\ row.security = s)
                              /\ ~(rules[id] # Absent /\ rules[id].enabled /\ rules[id].security = s)
    PROVE  WantedIn(T, [rules EXCEPT ![id] = row], s) = WantedIn(T, rules, s)
<1> DEFINE R == [rules EXCEPT ![id] = row]
<1>1. ASSUME NEW k \in Rules
      PROVE  /\ R[k] # Absent /\ R[k].enabled /\ R[k].security = s
                 <=> rules[k] # Absent /\ rules[k].enabled /\ rules[k].security = s
             /\ R[k] # Absent /\ R[k].enabled /\ R[k].security = s => R[k].target = rules[k].target
  <2>1. R[k] = IF k = id THEN row ELSE rules[k] BY DEF TypeOK
  <2> QED BY <2>1
<1>2. TargetsIn(R, s) = TargetsIn(rules, s)
  <2> HIDE DEF R
  <2> QED BY <1>1 DEF TargetsIn
<1> QED BY <1>2 DEF WantedIn

(* A security the handler does not mark asks for what it asked for before.  *)
LEMMA UnmarkedDemandStays ==
    ASSUME TypeOK, NEW op \in Operations, Handle(op).allowed, NEW s \in Securities, s \notin Marks(op)
    PROVE  WantedIn(Handle(op).tables, Handle(op).rules, s) = WantedIn(tables, rules, s)
<1>0. s \notin Handle(op).marks BY DEF Marks
<1>1. CASE op.kind = "create_table"
  <2>1. op.id \in Tables /\ Handle(op) = CreateTable(op) BY <1>1, OperationKinds
  <2> DEFINE row == [members |-> {}, columns |-> Defaults]
  <2>2. row \in Table /\ row.members = {} BY MonitoringAssumption DEF Table
  <2>3. tables[op.id] = Absent
    <3>1. CreateTable(op).allowed = (~Owned(op.id)) BY Zenon DEF CreateTable, Effect
    <3> QED BY <2>1, <3>1 DEF Owned
  <2>4. Row(op.id).members = {} BY <2>1, <2>3, RowType
  <2>5. Handle(op).tables = [tables EXCEPT ![op.id] = row] /\ Handle(op).rules = rules
    BY <2>1 DEF CreateTable, Effect
  <2> HIDE DEF row
  <2> QED BY <2>1, <2>2, <2>4, <2>5, TableEditUnseen
<1>2. CASE op.kind = "delete_table"
  <2>1. op.id \in Tables /\ Handle(op) = DeleteTable(op) BY <1>2, OperationKinds
  <2>2. s \notin Row(op.id).members BY <1>0, <2>1 DEF DeleteTable, Effect
  <2>3. Handle(op).tables = [tables EXCEPT ![op.id] = Absent] /\ Handle(op).rules = rules
    BY <2>1 DEF DeleteTable, Effect
  <2> QED BY <2>1, <2>2, <2>3, TableEditUnseen
<1>3. CASE op.kind = "add_stock"
  <2>1. op.id \in Tables /\ op.security \in Securities /\ Handle(op) = AddStock(op)
    BY <1>3, OperationKinds
  <2> DEFINE row == [Row(op.id) EXCEPT !.members = @ \union {op.security}]
  <2>2. /\ row \in Table /\ row.members = Row(op.id).members \union {op.security}
        /\ row.columns = Row(op.id).columns
    BY <2>1, RowType DEF Table
  <2>3. s # op.security BY <1>0, <2>1 DEF AddStock, Effect
  <2>4. Handle(op).tables = [tables EXCEPT ![op.id] = row] /\ Handle(op).rules = rules
    BY <2>1 DEF AddStock, Effect
  <2>5. row # Absent BY <2>2, MonitoringAssumption
  <2> HIDE DEF row
  <2> QED BY <2>1, <2>2, <2>3, <2>4, <2>5, TableEditUnseen
<1>4. CASE op.kind = "remove_stock"
  <2>1. op.id \in Tables /\ op.security \in Securities /\ Handle(op) = RemoveStock(op)
    BY <1>4, OperationKinds
  <2> DEFINE row == [Row(op.id) EXCEPT !.members = @ \ {op.security}]
  <2>2. /\ row \in Table /\ row.members = Row(op.id).members \ {op.security}
        /\ row.columns = Row(op.id).columns
    BY <2>1, RowType DEF Table
  <2>3. s # op.security BY <1>0, <2>1 DEF RemoveStock, Effect
  <2>4. Handle(op).tables = [tables EXCEPT ![op.id] = row] /\ Handle(op).rules = rules
    BY <2>1 DEF RemoveStock, Effect
  <2>5. row # Absent BY <2>2, MonitoringAssumption
  <2> HIDE DEF row
  <2> QED BY <2>1, <2>2, <2>3, <2>4, <2>5, TableEditUnseen
<1>5. ASSUME op.id \in Tables, NEW targets \in SUBSET Targets, NEW row,
             row = [Row(op.id) EXCEPT !.columns = targets],
             Handle(op).tables = [tables EXCEPT ![op.id] = row], Handle(op).rules = rules,
             s \notin Row(op.id).members \/ targets = Row(op.id).columns
      PROVE  WantedIn(Handle(op).tables, Handle(op).rules, s) = WantedIn(tables, rules, s)
  <2>1. row \in Table /\ row.members = Row(op.id).members /\ row.columns = targets
    BY <1>5, RowType DEF Table
  <2>2. row # Absent BY <2>1, MonitoringAssumption
  <2>3. /\ (row # Absent /\ s \in row.members) <=> s \in Row(op.id).members
        /\ row # Absent /\ s \in row.members => row.columns = Row(op.id).columns
    BY <1>5, <2>1, <2>2
  <2>4. WantedIn([tables EXCEPT ![op.id] = row], rules, s) = WantedIn(tables, rules, s)
    <3>1. row \in Table \union {Absent} /\ op.id \in Tables BY <1>5, <2>1
    <3> QED BY <2>3, <3>1, TableEditUnseen
  <2> QED BY <1>5, <2>4
<1>6. CASE op.kind = "add_column"
  <2>1. op.id \in Tables /\ op.target \in Targets /\ Handle(op) = AddColumn(op) BY <1>6, OperationKinds
  <2>2. Row(op.id).columns \union {op.target} \in SUBSET Targets BY <2>1, RowType DEF Table
  <2>3. s \notin Row(op.id).members BY <1>0, <2>1 DEF AddColumn, Effect
  <2>4. /\ Handle(op).tables = [tables EXCEPT ![op.id] = [Row(op.id) EXCEPT !.columns = Row(op.id).columns \union {op.target}]]
        /\ Handle(op).rules = rules
    BY <2>1, RowType DEF AddColumn, Effect, Table
  <2> QED BY <1>5, <2>1, <2>2, <2>3, <2>4
<1>7. CASE op.kind = "update_column"
  <2>1. op.id \in Tables /\ op.target \in Targets /\ op.to \in Targets /\ Handle(op) = UpdateColumn(op)
    BY <1>7, OperationKinds
  <2> DEFINE targets == (Row(op.id).columns \ {op.target}) \union {op.to}
  <2>2. targets \in SUBSET Targets BY <2>1, RowType DEF Table
  <2>3. op.target \in Row(op.id).columns
    <3>1. UpdateColumn(op).allowed =
            (op.target \in Row(op.id).columns /\ op.to \notin Row(op.id).columns \ {op.target})
      BY Zenon DEF UpdateColumn, Effect
    <3> QED BY <2>1, <3>1
  <2>4. s \notin Row(op.id).members \/ targets = Row(op.id).columns
    <3>1. CASE op.to = op.target BY <2>3, <3>1
    <3>2. CASE op.to # op.target BY <1>0, <2>1, <3>2 DEF UpdateColumn, Effect
    <3> QED BY <3>1, <3>2
  <2>5. /\ Handle(op).tables = [tables EXCEPT ![op.id] = [Row(op.id) EXCEPT !.columns = targets]]
        /\ Handle(op).rules = rules
    BY <2>1, RowType DEF UpdateColumn, Effect, Table
  <2> HIDE DEF targets
  <2> QED BY <1>5, <2>1, <2>2, <2>4, <2>5
<1>8. CASE op.kind = "delete_column"
  <2>1. op.id \in Tables /\ op.target \in Targets /\ Handle(op) = DeleteColumn(op) BY <1>8, OperationKinds
  <2>2. Row(op.id).columns \ {op.target} \in SUBSET Targets BY <2>1, RowType DEF Table
  <2>3. s \notin Row(op.id).members BY <1>0, <2>1 DEF DeleteColumn, Effect
  <2>4. /\ Handle(op).tables = [tables EXCEPT ![op.id] = [Row(op.id) EXCEPT !.columns = Row(op.id).columns \ {op.target}]]
        /\ Handle(op).rules = rules
    BY <2>1, RowType DEF DeleteColumn, Effect, Table
  <2> QED BY <1>5, <2>1, <2>2, <2>3, <2>4
<1>9. CASE op.kind = "create_rule"
  <2>1. op.id \in Rules /\ op.rule \in Rule /\ Handle(op) = CreateRule(op) BY <1>9, OperationKinds
  <2>2. rules[op.id] = Absent /\ (op.rule.enabled => s # op.rule.security)
    BY <1>0, <2>1 DEF CreateRule, Effect
  <2>3. Handle(op).tables = tables /\ Handle(op).rules = [rules EXCEPT ![op.id] = op.rule]
    BY <2>1 DEF CreateRule, Effect
  <2> QED BY <2>1, <2>2, <2>3, RuleEditUnseen
<1>10. CASE op.kind = "update_rule"
  <2>1. op.id \in Rules /\ op.rule \in Rule /\ Handle(op) = UpdateRule(op) BY <1>10, OperationKinds
  <2>2. rules[op.id] # Absent
        /\ (rules[op.id] # op.rule => s # op.rule.security /\ s # rules[op.id].security)
    BY <1>0, <2>1 DEF UpdateRule, Effect
  <2>3. Handle(op).tables = tables /\ Handle(op).rules = [rules EXCEPT ![op.id] = op.rule]
    BY <2>1 DEF UpdateRule, Effect
  <2> QED BY <2>1, <2>2, <2>3, RuleEditUnseen
<1>11. CASE op.kind = "delete_rule"
  <2>1. op.id \in Rules /\ Handle(op) = DeleteRule(op) BY <1>11, OperationKinds
  <2>2. rules[op.id] # Absent /\ s # rules[op.id].security
    <3>1. DeleteRule(op).allowed = (rules[op.id] # Absent) BY Zenon DEF DeleteRule, Effect
    <3>2. DeleteRule(op).marks = IF rules[op.id] = Absent THEN {} ELSE {rules[op.id].security}
      BY Zenon DEF DeleteRule, Effect
    <3> QED BY <1>0, <2>1, <3>1, <3>2
  <2>3. Handle(op).tables = tables /\ Handle(op).rules = [rules EXCEPT ![op.id] = Absent]
    BY <2>1 DEF DeleteRule, Effect
  <2> QED BY <2>1, <2>2, <2>3, RuleEditUnseen
<1> QED BY <1>1, <1>2, <1>3, <1>4, <1>6, <1>7, <1>8, <1>9, <1>10, <1>11, OperationKinds

-----------------------------------------------------------------------------
(* What a handler decided stays true while it holds its user's account row: *)
(* its decision depends on the rows of that user only.                      *)

OwnRowsKept(u) ==
    /\ \A t \in Tables : Owner[t] = u => tables'[t] = tables[t]
    /\ \A k \in Rules : Owner[k] = u => rules'[k] = rules[k]
LEMMA CapacityKept ==
    ASSUME NEW u, OwnRowsKept(u), NEW s, NEW e PROVE HasCapacity(u, s, e)' = HasCapacity(u, s, e)
<1>1. Watched(u)' = Watched(u) /\ Alerted(u, e)' = Alerted(u, e)
  <2>1. WatchedIn(tables', u) = WatchedIn(tables, u) /\ AlertedIn(rules', u, e) = AlertedIn(rules, u, e)
    BY OwnRowsDecide DEF OwnRowsKept
  <2> QED BY <2>1, RowViews
<1> QED BY <1>1 DEF HasCapacity

LEMMA DecisionKept ==
    ASSUME NEW op \in Operations, OwnRowsKept(Owner[op.id])
    PROVE  (Handle(op).allowed)' = Handle(op).allowed /\ Marks(op)' = Marks(op)
<1>0. /\ op.id \in Tables => tables'[op.id] = tables[op.id]
      /\ op.id \in Rules => rules'[op.id] = rules[op.id]
  BY DEF OwnRowsKept
<1>1. /\ op.id \in Tables => Row(op.id)' = Row(op.id) /\ Owned(op.id)' = Owned(op.id)
  BY <1>0 DEF Row, Owned
<1>2. ASSUME NEW X, NEW Y, X.allowed = Y.allowed, X.marks = Y.marks, Handle(op)' = X, Handle(op) = Y
      PROVE  (Handle(op).allowed)' = Handle(op).allowed /\ Marks(op)' = Marks(op)
  BY <1>2 DEF Marks
<1>3. CASE op.kind = "create_table"
  <2>1. op.id \in Tables /\ Handle(op) = CreateTable(op) BY <1>3, OperationKinds
  <2>2. Handle(op)' = CreateTable(op)' BY <1>3 DEF Handle
  <2>3. CreateTable(op).allowed' = CreateTable(op).allowed /\ CreateTable(op).marks' = CreateTable(op).marks
    BY <1>1, <2>1, Zenon DEF CreateTable, Effect
  <2> QED BY <1>2, <2>1, <2>2, <2>3
<1>4. CASE op.kind = "delete_table"
  <2>1. op.id \in Tables /\ Handle(op) = DeleteTable(op) BY <1>4, OperationKinds
  <2>2. Handle(op)' = DeleteTable(op)' BY <1>4 DEF Handle
  <2>3. DeleteTable(op).allowed' = DeleteTable(op).allowed /\ DeleteTable(op).marks' = DeleteTable(op).marks
    BY <1>1, <2>1, Zenon DEF DeleteTable, Effect
  <2> QED BY <1>2, <2>1, <2>2, <2>3
<1>5. CASE op.kind = "add_stock"
  <2>1. op.id \in Tables /\ Handle(op) = AddStock(op) BY <1>5, OperationKinds
  <2>2. Handle(op)' = AddStock(op)' BY <1>5 DEF Handle
  <2>3. HasCapacity(Owner[op.id], op.security, {})' = HasCapacity(Owner[op.id], op.security, {})
    BY CapacityKept
  <2>4. AddStock(op).allowed' = AddStock(op).allowed /\ AddStock(op).marks' = AddStock(op).marks
    BY <1>1, <2>1, <2>3, Zenon DEF AddStock, Effect
  <2> QED BY <1>2, <2>1, <2>2, <2>4
<1>6. CASE op.kind = "remove_stock"
  <2>1. op.id \in Tables /\ Handle(op) = RemoveStock(op) BY <1>6, OperationKinds
  <2>2. Handle(op)' = RemoveStock(op)' BY <1>6 DEF Handle
  <2>3. RemoveStock(op).allowed' = RemoveStock(op).allowed /\ RemoveStock(op).marks' = RemoveStock(op).marks
    BY <1>1, <2>1, Zenon DEF RemoveStock, Effect
  <2> QED BY <1>2, <2>1, <2>2, <2>3
<1>7. CASE op.kind = "add_column"
  <2>1. op.id \in Tables /\ Handle(op) = AddColumn(op) BY <1>7, OperationKinds
  <2>2. Handle(op)' = AddColumn(op)' BY <1>7 DEF Handle
  <2>3. AddColumn(op).allowed' = AddColumn(op).allowed /\ AddColumn(op).marks' = AddColumn(op).marks
    BY <1>1, <2>1, Zenon DEF AddColumn, Effect
  <2> QED BY <1>2, <2>1, <2>2, <2>3
<1>8. CASE op.kind = "update_column"
  <2>1. op.id \in Tables /\ Handle(op) = UpdateColumn(op) BY <1>8, OperationKinds
  <2>2. Handle(op)' = UpdateColumn(op)' BY <1>8 DEF Handle
  <2>3. UpdateColumn(op).allowed' = UpdateColumn(op).allowed /\ UpdateColumn(op).marks' = UpdateColumn(op).marks
    BY <1>1, <2>1, Zenon DEF UpdateColumn, Effect
  <2> QED BY <1>2, <2>1, <2>2, <2>3
<1>9. CASE op.kind = "delete_column"
  <2>1. op.id \in Tables /\ Handle(op) = DeleteColumn(op) BY <1>9, OperationKinds
  <2>2. Handle(op)' = DeleteColumn(op)' BY <1>9 DEF Handle
  <2>3. DeleteColumn(op).allowed' = DeleteColumn(op).allowed /\ DeleteColumn(op).marks' = DeleteColumn(op).marks
    BY <1>1, <2>1, Zenon DEF DeleteColumn, Effect
  <2> QED BY <1>2, <2>1, <2>2, <2>3
<1>10. CASE op.kind = "create_rule"
  <2>1. op.id \in Rules /\ Handle(op) = CreateRule(op) BY <1>10, OperationKinds
  <2>2. Handle(op)' = CreateRule(op)' BY <1>10 DEF Handle
  <2>3. HasCapacity(Owner[op.id], op.rule.security, {})' = HasCapacity(Owner[op.id], op.rule.security, {})
    BY CapacityKept
  <2>4. CreateRule(op).allowed' = CreateRule(op).allowed /\ CreateRule(op).marks' = CreateRule(op).marks
    BY <1>0, <2>1, <2>3, Zenon DEF CreateRule, Effect
  <2> QED BY <1>2, <2>1, <2>2, <2>4
<1>11. CASE op.kind = "update_rule"
  <2>1. op.id \in Rules /\ Handle(op) = UpdateRule(op) BY <1>11, OperationKinds
  <2>2. Handle(op)' = UpdateRule(op)' BY <1>11 DEF Handle
  <2>3. HasCapacity(Owner[op.id], op.rule.security, {op.id})' = HasCapacity(Owner[op.id], op.rule.security, {op.id})
    BY CapacityKept
  <2>4. UpdateRule(op).allowed' = UpdateRule(op).allowed /\ UpdateRule(op).marks' = UpdateRule(op).marks
    BY <1>0, <2>1, <2>3, Zenon DEF UpdateRule, Effect
  <2> QED BY <1>2, <2>1, <2>2, <2>4
<1>12. CASE op.kind = "delete_rule"
  <2>1. op.id \in Rules /\ Handle(op) = DeleteRule(op) BY <1>12, OperationKinds
  <2>2. Handle(op)' = DeleteRule(op)' BY <1>12 DEF Handle
  <2>3. DeleteRule(op).allowed' = DeleteRule(op).allowed /\ DeleteRule(op).marks' = DeleteRule(op).marks
    BY <1>0, <2>1, Zenon DEF DeleteRule, Effect
  <2> QED BY <1>2, <2>1, <2>2, <2>3
<1> QED BY <1>3, <1>4, <1>5, <1>6, <1>7, <1>8, <1>9, <1>10, <1>11, <1>12, OperationKinds

-----------------------------------------------------------------------------
(* The inductive invariant.                                                *)

(* A handler from lock_account on holds its user's row, and after its       *)
(* checks its decision is still the right one and every stream row it has   *)
(* passed is locked.                                                        *)
Decided(p, op) ==
    /\ Handle(op).allowed /\ txn[p].mark \subseteq Marks(op)
    /\ \A s \in Marks(op) \ txn[p].mark : stream[s] = p
HandlerInv(p) ==
    /\ txn[p].pc \in {"idle", "account", "rule", "check", "mark"}
    /\ txn[p].pc # "idle" => txn[p].op \in Operations
    /\ txn[p].pc \in {"rule", "check", "mark"} => account[Owner[txn[p].op.id]] = p
    /\ txn[p].pc = "rule" => txn[p].op.id \in Rules
    /\ txn[p].pc = "mark" => \A op \in Operations : op = txn[p].op => Decided(p, op)
EvaluatorInv(p) ==
    /\ txn[p].pc \in {"idle", "observe", "observed", "enqueue", "enqueued"}
    /\ txn[p].pc # "idle" => txn[p].op \in Rules
(* A publisher holds its stream row, so the demand it collected is current. *)
PublisherInv(p) ==
    /\ txn[p].pc \in {"idle", "collect", "publish"}
    /\ txn[p].pc # "idle" => txn[p].op \in Securities /\ stream[txn[p].op] = p
    /\ txn[p].pc = "publish" => \A s \in Securities : s = txn[p].op => txn[p].seen = Demand(s)

(* Who holds which lock, and in which order a handler took its stream rows. *)
HoldsInv(p) ==
    /\ \A u \in Users : account[u] = p =>
          p \in Handlers /\ txn[p].pc \in {"rule", "check", "mark"} /\ u = Owner[txn[p].op.id]
    /\ \A u \in Users : p \in accountKey[u] => p \in Evaluators
    /\ \A k \in Rules : ruleRow[k] = p /\ p \in Handlers =>
          txn[p].pc \in {"check", "mark"} /\ txn[p].op.id = k
    /\ \A s \in Securities : stream[s] = p /\ p \in Handlers =>
          txn[p].pc = "mark" /\ \A x \in txn[p].mark : s < x
    /\ \A s \in Securities : p \in streamShare[s] => p \in Evaluators

SessionInv(p) ==
    /\ HoldsInv(p)
    /\ p \in Handlers => HandlerInv(p)
    /\ p \in Evaluators => EvaluatorInv(p)
    /\ p \in Publishers => PublisherInv(p)
NeverAhead == \A s \in Securities : published_demand_generation[s] <= demand_generation[s]
MonitoringInv ==
    /\ TypeOK /\ \A p \in Sessions : SessionInv(p)
    /\ NeverAhead /\ WithinMonitorLimit /\ CurrentPublicationCoversDemand

(* A session that another one's step leaves alone.                          *)
LeftAlone(q) ==
    /\ txn'[q] = txn[q]
    /\ \A u \in Users : account'[u] = q <=> account[u] = q
    /\ \A u \in Users : q \in accountKey'[u] <=> q \in accountKey[u]
    /\ \A k \in Rules : ruleRow'[k] = q <=> ruleRow[k] = q
    /\ \A s \in Securities : stream'[s] = q <=> stream[s] = q
    /\ \A s \in Securities : q \in streamShare'[s] <=> q \in streamShare[s]
LEMMA OtherSessionStays ==
    ASSUME TypeOK, NEW q \in Sessions, SessionInv(q), LeftAlone(q),
           \A op \in Operations : q \in Handlers /\ txn[q].pc = "mark" /\ op = txn[q].op => OwnRowsKept(Owner[op.id]),
           \A s \in Securities : q \in Publishers /\ txn[q].pc = "publish" /\ s = txn[q].op => Demand(s)' = Demand(s)
    PROVE  SessionInv(q)'
<1>0. txn'[q] = txn[q] BY DEF LeftAlone
<1>1. HoldsInv(q)' BY DEF SessionInv, HoldsInv, LeftAlone
<1>2. ASSUME q \in Handlers PROVE HandlerInv(q)'
  <2>1. HandlerInv(q) BY <1>2 DEF SessionInv
  <2>2. txn[q].pc \in {"rule", "check", "mark"} => account'[Owner[txn[q].op.id]] = q
    <3>1. SUFFICES ASSUME txn[q].pc \in {"rule", "check", "mark"} PROVE account'[Owner[txn[q].op.id]] = q
      OBVIOUS
    <3>2. txn[q].op \in Operations /\ account[Owner[txn[q].op.id]] = q BY <2>1, <3>1 DEF HandlerInv
    <3>3. Owner[txn[q].op.id] \in Users BY <3>2, OperationKinds, MonitoringAssumption
    <3> QED BY <3>2, <3>3 DEF LeftAlone
  <2>3. ASSUME txn[q].pc = "mark", NEW op \in Operations, op = txn[q].op PROVE Decided(q, op)'
    <3>1. Decided(q, op) BY <2>1, <2>3 DEF HandlerInv
    <3>2. (Handle(op).allowed)' = Handle(op).allowed /\ Marks(op)' = Marks(op) BY <1>2, <2>3, DecisionKept
    <3>3. Marks(op) \in SUBSET Securities BY EffectShape DEF OneRowWritten
    <3> QED BY <1>0, <3>1, <3>2, <3>3 DEF Decided, LeftAlone
  <2> QED BY <1>0, <2>1, <2>2, <2>3 DEF HandlerInv
<1>3. ASSUME q \in Evaluators PROVE EvaluatorInv(q)' BY <1>0, <1>3 DEF SessionInv, EvaluatorInv
<1>4. ASSUME q \in Publishers PROVE PublisherInv(q)'
  <2>1. PublisherInv(q) BY <1>4 DEF SessionInv
  <2>2. txn[q].pc # "idle" => stream'[txn[q].op] = q BY <2>1 DEF PublisherInv, LeftAlone
  <2>3. ASSUME txn[q].pc = "publish", NEW s \in Securities, s = txn[q].op PROVE txn[q].seen = Demand(s)'
    BY <1>4, <2>1, <2>3 DEF PublisherInv
  <2> QED BY <1>0, <2>1, <2>2, <2>3 DEF PublisherInv
<1> QED BY <1>1, <1>2, <1>3, <1>4 DEF SessionInv

LEMMA SessionsApart ==
    /\ Handlers \subseteq Sessions /\ Evaluators \subseteq Sessions /\ Publishers \subseteq Sessions
    /\ \A p \in Handlers : p \notin Evaluators /\ p \notin Publishers
    /\ \A p \in Evaluators : p \notin Publishers
    /\ Free \notin Sessions
BY MonitoringAssumption DEF Sessions

(* One session's transaction changes.                                       *)
LEMMA TransactionStep ==
    ASSUME TypeOK, NEW p \in Sessions, NEW v \in Transaction(p), txn' = [txn EXCEPT ![p] = v]
    PROVE  /\ txn' = [q \in Sessions |-> txn'[q]] /\ \A q \in Sessions : txn'[q] \in Transaction(q)
           /\ txn'[p] = v /\ \A q \in Sessions : q # p => txn'[q] = txn[q]
BY DEF TypeOK

LEMMA IdleType == \A p \in Sessions : Idle \in Transaction(p)
BY DEF Idle, Transaction

(* A step of one session that writes no row.                                *)
LEMMA QuietStep ==
    ASSUME MonitoringInv, NEW p \in Sessions, UNCHANGED data, TypeOK', SessionInv(p)',
           \A q \in Sessions : q # p => LeftAlone(q)
    PROVE  MonitoringInv'
<1>0. /\ tables' = tables /\ rules' = rules /\ demand_generation' = demand_generation
      /\ published_demand_generation' = published_demand_generation /\ published' = published
  BY DEF data
<1>1. /\ \A u : Watched(u)' = Watched(u) /\ \A e : Alerted(u, e)' = Alerted(u, e)
      /\ \A s : Demand(s)' = Demand(s)
  BY <1>0, RowViews
<1>2. \A u : OwnRowsKept(u) BY <1>0 DEF OwnRowsKept
<1>3. ASSUME NEW q \in Sessions PROVE SessionInv(q)'
  <2>1. CASE q = p BY <2>1
  <2>2. CASE q # p
    <3>1. TypeOK /\ SessionInv(q) /\ LeftAlone(q) BY <2>2 DEF MonitoringInv
    <3> QED BY <1>1, <1>2, <3>1, OtherSessionStays
  <2> QED BY <2>1, <2>2
<1>4. NeverAhead' BY <1>0 DEF MonitoringInv, NeverAhead
<1>5. WithinMonitorLimit' BY <1>1 DEF MonitoringInv, WithinMonitorLimit, Monitored
<1>6. CurrentPublicationCoversDemand' BY <1>0, <1>1 DEF MonitoringInv, CurrentPublicationCoversDemand
<1> QED BY <1>3, <1>4, <1>5, <1>6 DEF MonitoringInv

(* The end of a transaction.                                                *)
LEMMA ReleaseFrees ==
    ASSUME TypeOK, NEW p \in Sessions, Release(p)
    PROVE  /\ account' \in [Users -> Sessions \union {Free}] /\ accountKey' \in [Users -> SUBSET Sessions]
           /\ ruleRow' \in [Rules -> Sessions \union {Free}]
           /\ stream' \in [Securities -> Sessions \union {Free}]
           /\ streamShare' \in [Securities -> SUBSET Sessions]
           /\ txn' = [q \in Sessions |-> txn'[q]] /\ \A q \in Sessions : txn'[q] \in Transaction(q)
           /\ SessionInv(p)'
           /\ \A q \in Sessions : q # p => LeftAlone(q)
<1>1. /\ account' \in [Users -> Sessions \union {Free}] /\ accountKey' \in [Users -> SUBSET Sessions]
      /\ ruleRow' \in [Rules -> Sessions \union {Free}]
      /\ stream' \in [Securities -> Sessions \union {Free}]
      /\ streamShare' \in [Securities -> SUBSET Sessions]
  BY DEF Release, TypeOK
<1>2. /\ txn' = [q \in Sessions |-> txn'[q]] /\ \A q \in Sessions : txn'[q] \in Transaction(q)
      /\ txn'[p] = Idle /\ \A q \in Sessions : q # p => txn'[q] = txn[q]
  BY IdleType, TransactionStep DEF Release
<1>3. /\ \A u \in Users : account'[u] # p /\ p \notin accountKey'[u]
      /\ \A k \in Rules : ruleRow'[k] # p
      /\ \A s \in Securities : stream'[s] # p /\ p \notin streamShare'[s]
  BY SessionsApart DEF Release
<1>4. HoldsInv(p)' BY <1>3 DEF HoldsInv
<1>5. SessionInv(p)'
  <2>1. txn'[p].pc = "idle" BY <1>2 DEF Idle
  <2> QED BY <1>4, <2>1 DEF SessionInv, HandlerInv, EvaluatorInv, PublisherInv
<1>6. ASSUME NEW q \in Sessions, q # p PROVE LeftAlone(q)
  BY <1>2, <1>6, SessionsApart DEF LeftAlone, Release, TypeOK
<1> QED BY <1>1, <1>2, <1>5, <1>6
LEMMA ReleaseQuietly ==
    ASSUME MonitoringInv, NEW p \in Sessions, Release(p), UNCHANGED data
    PROVE  MonitoringInv'
<1>1. TypeOK BY DEF MonitoringInv
<1>2. SessionInv(p)' /\ \A q \in Sessions : q # p => LeftAlone(q) BY <1>1, ReleaseFrees
<1>3. TypeOK' BY <1>1, ReleaseFrees DEF TypeOK, data
<1> QED BY <1>2, <1>3, QuietStep

-----------------------------------------------------------------------------
(* The handlers' steps.                                                    *)

LEMMA RequestStep ==
    ASSUME MonitoringInv, NEW p \in Handlers, NEW op \in Operations, Request(p, op)
    PROVE  MonitoringInv'
<1>0. TypeOK /\ SessionInv(p) /\ p \in Sessions BY SessionsApart DEF MonitoringInv
<1> DEFINE v == [Idle EXCEPT !.pc = "account", !.op = op]
<1>1. v \in Transaction(p) /\ v.pc = "account" /\ v.op = op BY DEF Transaction, Work, Idle
<1>2. txn' = [txn EXCEPT ![p] = v] /\ UNCHANGED data /\ UNCHANGED locks BY DEF Request
<1> HIDE DEF v
<1>3. /\ txn' = [q \in Sessions |-> txn'[q]] /\ \A q \in Sessions : txn'[q] \in Transaction(q)
      /\ txn'[p] = v /\ \A q \in Sessions : q # p => txn'[q] = txn[q]
  BY <1>0, <1>1, <1>2, TransactionStep
<1>4. TypeOK' BY <1>0, <1>2, <1>3 DEF TypeOK, data, locks
<1>5. \A q \in Sessions : q # p => LeftAlone(q) BY <1>2, <1>3 DEF LeftAlone, locks
<1>6. SessionInv(p)'
  <2>1. HoldsInv(p)' BY <1>0, <1>2 DEF Request, SessionInv, HoldsInv, locks
  <2>2. HandlerInv(p)' BY <1>1, <1>3 DEF HandlerInv
  <2> QED BY <2>1, <2>2, SessionsApart DEF SessionInv
<1> QED BY <1>0, <1>2, <1>4, <1>5, <1>6, QuietStep

LEMMA LockAccountStep ==
    ASSUME MonitoringInv, NEW p \in Handlers, LockAccount(p)
    PROVE  MonitoringInv'
<1>0. TypeOK /\ SessionInv(p) /\ p \in Sessions BY SessionsApart DEF MonitoringInv
<1>1. PICK op \in Operations : op = txn[p].op BY <1>0 DEF LockAccount, SessionInv, HandlerInv
<1> DEFINE u == Owner[op.id]
           pc == IF LocksRule(op) THEN "rule" ELSE "check"
           v == [txn[p] EXCEPT !.pc = pc]
<1>2. u \in Users /\ (pc = "rule" => op.id \in Rules)
  BY OperationKinds, MonitoringAssumption DEF LocksRule
<1>3. v \in Transaction(p) /\ v.pc = pc /\ v.op = op /\ pc \in {"rule", "check"}
  BY <1>0, <1>1 DEF TypeOK, Transaction
<1>4. /\ txn[p].pc = "account" /\ account[u] = Free /\ account' = [account EXCEPT ![u] = p]
      /\ txn' = [txn EXCEPT ![p] = v] /\ UNCHANGED <<data, accountKey, ruleRow, stream, streamShare>>
  BY <1>1 DEF LockAccount, CanUpdateAccount, Goto
<1> HIDE DEF u, v, pc
<1>5. /\ txn' = [q \in Sessions |-> txn'[q]] /\ \A q \in Sessions : txn'[q] \in Transaction(q)
      /\ txn'[p] = v /\ \A q \in Sessions : q # p => txn'[q] = txn[q]
  BY <1>0, <1>3, <1>4, TransactionStep
<1>6. TypeOK' BY <1>0, <1>2, <1>4, <1>5 DEF TypeOK, data
<1>7. \A q \in Sessions : q # p => LeftAlone(q)
  BY <1>0, <1>2, <1>4, <1>5, SessionsApart DEF LeftAlone, TypeOK
<1>8. SessionInv(p)'
  <2>1. \A w \in Users : account[w] # p BY <1>0, <1>4 DEF SessionInv, HoldsInv
  <2>2. account' \in [Users -> Sessions \union {Free}] /\ account'[u] = p /\ \A w \in Users : account'[w] = p => w = u
    BY <1>0, <1>2, <1>4, <2>1 DEF TypeOK
  <2>3. HoldsInv(p)' BY <1>0, <1>3, <1>4, <1>5, <2>2 DEF SessionInv, HoldsInv, u
  <2>4. HandlerInv(p)' BY <1>2, <1>3, <1>5, <2>2 DEF HandlerInv, u
  <2> QED BY <2>3, <2>4, SessionsApart DEF SessionInv
<1> QED BY <1>0, <1>4, <1>6, <1>7, <1>8, QuietStep

LEMMA LockRuleStep ==
    ASSUME MonitoringInv, NEW p \in Handlers, LockRule(p)
    PROVE  MonitoringInv'
<1>0. TypeOK /\ SessionInv(p) /\ p \in Sessions BY SessionsApart DEF MonitoringInv
<1>1. PICK op \in Operations : op = txn[p].op BY <1>0 DEF LockRule, SessionInv, HandlerInv
<1> DEFINE k == op.id
           v == [txn[p] EXCEPT !.pc = "check"]
<1>2. v \in Transaction(p) /\ v.pc = "check" /\ v.op = op BY <1>0, <1>1 DEF TypeOK, Transaction
<1>3. /\ txn[p].pc = "rule" /\ ruleRow[k] = Free /\ ruleRow' = [ruleRow EXCEPT ![k] = p]
      /\ txn' = [txn EXCEPT ![p] = v] /\ UNCHANGED <<data, account, accountKey, stream, streamShare>>
  BY <1>1 DEF LockRule, Goto
<1>4. k \in Rules /\ account[Owner[k]] = p BY <1>0, <1>1, <1>3 DEF SessionInv, HandlerInv
<1> HIDE DEF k, v
<1>5. /\ txn' = [q \in Sessions |-> txn'[q]] /\ \A q \in Sessions : txn'[q] \in Transaction(q)
      /\ txn'[p] = v /\ \A q \in Sessions : q # p => txn'[q] = txn[q]
  BY <1>0, <1>2, <1>3, TransactionStep
<1>6. TypeOK' BY <1>0, <1>3, <1>4, <1>5 DEF TypeOK, data
<1>7. \A q \in Sessions : q # p => LeftAlone(q)
  BY <1>0, <1>3, <1>4, <1>5, SessionsApart DEF LeftAlone, TypeOK
<1>8. SessionInv(p)'
  <2>1. \A r \in Rules : ruleRow'[r] = p => r = k
    BY <1>0, <1>3, <1>4 DEF SessionInv, HoldsInv, TypeOK
  <2>2. HoldsInv(p)' BY <1>0, <1>1, <1>2, <1>3, <1>5, <2>1 DEF SessionInv, HoldsInv, k
  <2>3. HandlerInv(p)' BY <1>2, <1>3, <1>4, <1>5 DEF HandlerInv, k
  <2> QED BY <2>2, <2>3, SessionsApart DEF SessionInv
<1> QED BY <1>0, <1>3, <1>6, <1>7, <1>8, QuietStep

LEMMA DecideStep ==
    ASSUME MonitoringInv, NEW p \in Handlers, Decide(p)
    PROVE  MonitoringInv'
<1>0. TypeOK /\ SessionInv(p) /\ p \in Sessions BY SessionsApart DEF MonitoringInv
<1>1. PICK op \in Operations : op = txn[p].op BY <1>0 DEF Decide, SessionInv, HandlerInv
<1> DEFINE v == [txn[p] EXCEPT !.pc = "mark", !.mark = Marks(op)]
<1>2. Marks(op) \in SUBSET Securities BY <1>0, EffectShape DEF OneRowWritten
<1>3. v \in Transaction(p) /\ v.pc = "mark" /\ v.op = op /\ v.mark = Marks(op)
  BY <1>0, <1>1, <1>2 DEF TypeOK, Transaction
<1>4. /\ txn[p].pc = "check" /\ Handle(op).allowed
      /\ txn' = [txn EXCEPT ![p] = v] /\ UNCHANGED data /\ UNCHANGED locks
  BY <1>0, <1>1 DEF Decide, TypeOK
<1> HIDE DEF v
<1>5. /\ txn' = [q \in Sessions |-> txn'[q]] /\ \A q \in Sessions : txn'[q] \in Transaction(q)
      /\ txn'[p] = v /\ \A q \in Sessions : q # p => txn'[q] = txn[q]
  BY <1>0, <1>3, <1>4, TransactionStep
<1>6. TypeOK' BY <1>0, <1>4, <1>5 DEF TypeOK, data, locks
<1>7. \A q \in Sessions : q # p => LeftAlone(q) BY <1>4, <1>5 DEF LeftAlone, locks
<1>8. SessionInv(p)'
  <2>1. HoldsInv(p)' BY <1>0, <1>1, <1>3, <1>4, <1>5 DEF SessionInv, HoldsInv, locks
  <2>2. Decided(p, op)'
    <3>1. OwnRowsKept(Owner[op.id]) BY <1>4 DEF OwnRowsKept, data
    <3>2. (Handle(op).allowed)' = Handle(op).allowed /\ Marks(op)' = Marks(op) BY <3>1, DecisionKept
    <3> QED BY <1>3, <1>4, <1>5, <3>2 DEF Decided
  <2>3. HandlerInv(p)' BY <1>0, <1>1, <1>3, <1>4, <1>5, <2>2 DEF SessionInv, HandlerInv, locks
  <2> QED BY <2>1, <2>3, SessionsApart DEF SessionInv
<1> QED BY <1>0, <1>4, <1>6, <1>7, <1>8, QuietStep

LEMMA MarkRowStep ==
    ASSUME MonitoringInv, NEW p \in Handlers, MarkRow(p)
    PROVE  MonitoringInv'
<1>0. TypeOK /\ SessionInv(p) /\ p \in Sessions BY SessionsApart DEF MonitoringInv
<1>1. PICK op \in Operations : op = txn[p].op BY <1>0 DEF MarkRow, SessionInv, HandlerInv
<1>2. txn[p].mark \in SUBSET Securities /\ txn[p].mark # {} BY <1>0 DEF TypeOK, Transaction, MarkRow
<1>3. PICK s \in txn[p].mark : s = NextRow(p) /\ \A x \in txn[p].mark : s <= x
  BY <1>2, MinIsFirst DEF NextRow
<1> DEFINE v == [txn[p] EXCEPT !.mark = @ \ {s}]
<1>4. v \in Transaction(p) /\ v.pc = txn[p].pc /\ v.op = op /\ v.mark = txn[p].mark \ {s}
  BY <1>0, <1>1, <1>2 DEF TypeOK, Transaction
<1>5. /\ txn[p].pc = "mark" /\ stream[s] \in {Free, p} /\ stream' = [stream EXCEPT ![s] = p]
      /\ txn' = [txn EXCEPT ![p] = v] /\ UNCHANGED <<data, account, accountKey, ruleRow, streamShare>>
  BY <1>3 DEF MarkRow, CanUpdateStream
<1> HIDE DEF v
<1>6. /\ txn' = [q \in Sessions |-> txn'[q]] /\ \A q \in Sessions : txn'[q] \in Transaction(q)
      /\ txn'[p] = v /\ \A q \in Sessions : q # p => txn'[q] = txn[q]
  BY <1>0, <1>4, <1>5, TransactionStep
<1>7. TypeOK' BY <1>0, <1>2, <1>5, <1>6 DEF TypeOK, data
<1>8. \A q \in Sessions : q # p => LeftAlone(q)
  BY <1>0, <1>2, <1>5, <1>6, SessionsApart DEF LeftAlone, TypeOK
<1>9. SessionInv(p)'
  <2>1. \A r \in Securities : stream'[r] = IF r = s THEN p ELSE stream[r] BY <1>0, <1>2, <1>5 DEF TypeOK
  <2>2. ASSUME NEW r \in Securities, stream'[r] = p, NEW x \in v.mark PROVE r < x
    <3>1. x \in txn[p].mark /\ x # s /\ x \in Nat /\ s \in Nat BY <1>2, <1>4, MonitoringAssumption
    <3>2. CASE r = s BY <1>3, <3>1, <3>2
    <3>3. CASE r # s BY <1>0, <2>1, <2>2, <3>1, <3>3 DEF SessionInv, HoldsInv
    <3> QED BY <3>2, <3>3
  <2>3. HoldsInv(p)' BY <1>0, <1>1, <1>4, <1>5, <1>6, <2>2 DEF SessionInv, HoldsInv
  <2>4. Decided(p, op)'
    <3>1. OwnRowsKept(Owner[op.id]) BY <1>5 DEF OwnRowsKept, data
    <3>2. (Handle(op).allowed)' = Handle(op).allowed /\ Marks(op)' = Marks(op) BY <3>1, DecisionKept
    <3>3. Decided(p, op) BY <1>0, <1>1, <1>5 DEF SessionInv, HandlerInv
    <3>4. Marks(op) \in SUBSET Securities BY <1>0, EffectShape DEF OneRowWritten
    <3> QED BY <1>4, <1>6, <2>1, <3>2, <3>3, <3>4 DEF Decided
  <2>5. HandlerInv(p)' BY <1>0, <1>1, <1>4, <1>5, <1>6, <2>4 DEF SessionInv, HandlerInv
  <2> QED BY <2>3, <2>5, SessionsApart DEF SessionInv
<1> QED BY <1>0, <1>5, <1>7, <1>8, <1>9, QuietStep

(* The commit: other users' decisions, the demand publishers collected and  *)
(* both invariants survive, because every marked stream row is locked by    *)
(* the committing session.                                                  *)
LEMMA CommitStep ==
    ASSUME MonitoringInv, NEW p \in Handlers, Commit(p)
    PROVE  MonitoringInv'
<1>0. TypeOK /\ SessionInv(p) /\ p \in Sessions BY SessionsApart DEF MonitoringInv
<1>1. PICK op \in Operations : op = txn[p].op BY <1>0 DEF Commit, SessionInv, HandlerInv
<1>2. /\ txn[p].pc = "mark" /\ txn[p].mark = {} /\ Release(p)
      /\ tables' = Handle(op).tables /\ rules' = Handle(op).rules
      /\ demand_generation' = GenerationsAfter(op)
      /\ published_demand_generation' = published_demand_generation /\ published' = published
  BY <1>1 DEF Commit
<1>3. OneRowWritten(op.id, Handle(op)) /\ Marks(op) \in SUBSET Securities
  BY <1>0, EffectShape DEF OneRowWritten
<1>4. Handle(op).allowed /\ \A s \in Marks(op) : stream[s] = p
  BY <1>0, <1>1, <1>2 DEF SessionInv, HandlerInv, Decided
<1>5. /\ demand_generation' \in [Securities -> Nat]
      /\ \A s \in Securities : demand_generation'[s] = demand_generation[s] + (IF s \in Marks(op) THEN 1 ELSE 0)
  BY <1>0, <1>2 DEF GenerationsAfter, TypeOK
<1>6. TypeOK' BY <1>0, <1>2, <1>3, <1>5, ReleaseFrees DEF TypeOK, OneRowWritten
<1>7. SessionInv(p)' /\ \A q \in Sessions : q # p => LeftAlone(q) BY <1>0, <1>2, ReleaseFrees
<1>8. ASSUME NEW s \in Securities, s \notin Marks(op) PROVE Demand(s)' = Demand(s)
  <2>1. WantedIn(tables', rules', s) = WantedIn(tables, rules, s)
    BY <1>0, <1>2, <1>4, <1>8, UnmarkedDemandStays
  <2> QED BY <2>1, RowViews
<1>9. ASSUME NEW q \in Sessions, q # p PROVE SessionInv(q)'
  <2>0. SessionInv(q) /\ LeftAlone(q) BY <1>7, <1>9 DEF MonitoringInv
  <2>1. ASSUME NEW o \in Operations, q \in Handlers, txn[q].pc = "mark", o = txn[q].op
        PROVE  OwnRowsKept(Owner[o.id])
    <3>1. account[Owner[o.id]] = q BY <2>0, <2>1 DEF SessionInv, HandlerInv
    <3>2. account[Owner[op.id]] = p BY <1>0, <1>1, <1>2 DEF SessionInv, HandlerInv
    <3>3. Owner[o.id] # Owner[op.id] BY <1>9, <3>1, <3>2
    <3> QED BY <1>2, <1>3, <3>3 DEF OwnRowsKept, OneRowWritten
  <2>2. ASSUME NEW s \in Securities, q \in Publishers, txn[q].pc = "publish", s = txn[q].op
        PROVE  Demand(s)' = Demand(s)
    <3>1. stream[s] = q BY <2>0, <2>2 DEF SessionInv, PublisherInv
    <3> QED BY <1>4, <1>8, <1>9, <3>1
  <2> QED BY <1>0, <2>0, <2>1, <2>2, OtherSessionStays
<1>10. NeverAhead'
  <2> SUFFICES ASSUME NEW s \in Securities PROVE published_demand_generation'[s] <= demand_generation'[s]
    BY DEF NeverAhead
  <2>1. /\ published_demand_generation[s] <= demand_generation[s] /\ demand_generation[s] \in Nat
        /\ published_demand_generation[s] \in Int
    BY <1>0 DEF MonitoringInv, NeverAhead, TypeOK
  <2> QED BY <1>2, <1>5, <2>1
<1>11. WithinMonitorLimit'
  <2> SUFFICES ASSUME NEW u \in Users PROVE Cardinality(Monitored(u)') <= Limit BY DEF WithinMonitorLimit
  <2>1. Monitored(u)' = MonitoredIn(tables', rules', u) BY RowViews DEF Monitored, MonitoredIn
  <2>2. WithinMonitorLimit BY DEF MonitoringInv
  <2> QED BY <1>0, <1>2, <1>4, <2>1, <2>2, EffectKeepsLimit
<1>12. CurrentPublicationCoversDemand'
  <2> SUFFICES ASSUME NEW s \in Securities, published_demand_generation'[s] = demand_generation'[s]
               PROVE  Demand(s)' \subseteq published'[s]
    BY DEF CurrentPublicationCoversDemand
  <2>1. /\ published_demand_generation[s] <= demand_generation[s] /\ demand_generation[s] \in Nat
        /\ published_demand_generation[s] \in Int
    BY <1>0 DEF MonitoringInv, NeverAhead, TypeOK
  <2>2. s \notin Marks(op) /\ published_demand_generation[s] = demand_generation[s] BY <1>2, <1>5, <2>1
  <2> QED BY <1>2, <1>8, <2>2 DEF MonitoringInv, CurrentPublicationCoversDemand
<1> QED BY <1>6, <1>7, <1>9, <1>10, <1>11, <1>12 DEF MonitoringInv

-----------------------------------------------------------------------------
(* The steps of evaluations and publications.                              *)

LEMMA EvaluateStep ==
    ASSUME MonitoringInv, NEW p \in Evaluators, NEW k \in Rules, EvaluateRule(p, k)
    PROVE  MonitoringInv'
<1>0. TypeOK /\ SessionInv(p) /\ p \in Sessions /\ p \notin Handlers BY SessionsApart DEF MonitoringInv
<1> DEFINE v == [Idle EXCEPT !.pc = "observe", !.op = k]
<1>1. v \in Transaction(p) /\ v.pc = "observe" /\ v.op = k BY <1>0 DEF Transaction, Work, Idle
<1>2. /\ ruleRow[k] = Free /\ ruleRow' = [ruleRow EXCEPT ![k] = p]
      /\ txn' = [txn EXCEPT ![p] = v] /\ UNCHANGED <<data, account, accountKey, stream, streamShare>>
  BY DEF EvaluateRule
<1> HIDE DEF v
<1>3. /\ txn' = [q \in Sessions |-> txn'[q]] /\ \A q \in Sessions : txn'[q] \in Transaction(q)
      /\ txn'[p] = v /\ \A q \in Sessions : q # p => txn'[q] = txn[q]
  BY <1>0, <1>1, <1>2, TransactionStep
<1>4. TypeOK' BY <1>0, <1>2, <1>3 DEF TypeOK, data
<1>5. \A q \in Sessions : q # p => LeftAlone(q)
  BY <1>0, <1>2, <1>3, SessionsApart DEF LeftAlone, TypeOK
<1>6. SessionInv(p)'
  <2>1. HoldsInv(p)' BY <1>0, <1>2 DEF SessionInv, HoldsInv
  <2>2. EvaluatorInv(p)' BY <1>1, <1>3 DEF EvaluatorInv
  <2> QED BY <2>1, <2>2, SessionsApart DEF SessionInv
<1> QED BY <1>0, <1>2, <1>4, <1>5, <1>6, QuietStep

(* An evaluation that moves on takes share locks only.                      *)
LEMMA EvaluatorMoves ==
    ASSUME MonitoringInv, NEW p \in Evaluators, Observe(p) \/ Trigger(p) \/ Enqueue(p)
    PROVE  MonitoringInv'
<1>0. TypeOK /\ SessionInv(p) /\ p \in Sessions /\ p \notin Handlers BY SessionsApart DEF MonitoringInv
<1>1. PICK pc \in {"observed", "enqueue", "enqueued"} : txn' = [txn EXCEPT ![p].pc = pc]
  BY DEF Observe, Trigger, Enqueue, Goto
<1> DEFINE v == [txn[p] EXCEPT !.pc = pc]
<1>2. v \in Transaction(p) /\ v.pc = pc /\ v.op = txn[p].op BY <1>0 DEF TypeOK, Transaction
<1>3. txn[p].op \in Rules BY <1>0 DEF SessionInv, EvaluatorInv, Observe, Trigger, Enqueue
<1>4. txn' = [txn EXCEPT ![p] = v] /\ UNCHANGED <<data, account, ruleRow, stream>>
  BY <1>1 DEF Observe, Trigger, Enqueue, locks
<1>5. /\ accountKey' \in [Users -> SUBSET Sessions] /\ streamShare' \in [Securities -> SUBSET Sessions]
      /\ \A q \in Sessions : q # p =>
            /\ \A u \in Users : q \in accountKey'[u] <=> q \in accountKey[u]
            /\ \A s \in Securities : q \in streamShare'[s] <=> q \in streamShare[s]
  BY <1>0 DEF TypeOK, Observe, Trigger, Enqueue, locks
<1> HIDE DEF v
<1>6. /\ txn' = [q \in Sessions |-> txn'[q]] /\ \A q \in Sessions : txn'[q] \in Transaction(q)
      /\ txn'[p] = v /\ \A q \in Sessions : q # p => txn'[q] = txn[q]
  BY <1>0, <1>2, <1>4, TransactionStep
<1>7. TypeOK' BY <1>0, <1>4, <1>5, <1>6 DEF TypeOK, data
<1>8. \A q \in Sessions : q # p => LeftAlone(q) BY <1>4, <1>5, <1>6 DEF LeftAlone
<1>9. SessionInv(p)'
  <2>1. HoldsInv(p)' BY <1>0, <1>4 DEF SessionInv, HoldsInv
  <2>2. EvaluatorInv(p)' BY <1>2, <1>3, <1>6 DEF EvaluatorInv
  <2> QED BY <1>0, <2>1, <2>2, SessionsApart DEF SessionInv
<1> QED BY <1>0, <1>4, <1>7, <1>8, <1>9, QuietStep

LEMMA LockStreamStep ==
    ASSUME MonitoringInv, NEW p \in Publishers, NEW s \in Securities, LockStream(p, s)
    PROVE  MonitoringInv'
<1>0. TypeOK /\ SessionInv(p) /\ p \in Sessions /\ p \notin Handlers /\ p \notin Evaluators
  BY SessionsApart DEF MonitoringInv
<1> DEFINE v == [Idle EXCEPT !.pc = "collect", !.op = s]
<1>1. v \in Transaction(p) /\ v.pc = "collect" /\ v.op = s BY <1>0 DEF Transaction, Work, Idle
<1>2. /\ stream[s] \in {Free, p} /\ stream' = [stream EXCEPT ![s] = p]
      /\ txn' = [txn EXCEPT ![p] = v] /\ UNCHANGED <<data, account, accountKey, ruleRow, streamShare>>
  BY DEF LockStream, CanUpdateStream
<1> HIDE DEF v
<1>3. /\ txn' = [q \in Sessions |-> txn'[q]] /\ \A q \in Sessions : txn'[q] \in Transaction(q)
      /\ txn'[p] = v /\ \A q \in Sessions : q # p => txn'[q] = txn[q]
  BY <1>0, <1>1, <1>2, TransactionStep
<1>4. TypeOK' BY <1>0, <1>2, <1>3 DEF TypeOK, data
<1>5. \A q \in Sessions : q # p => LeftAlone(q)
  BY <1>0, <1>2, <1>3, SessionsApart DEF LeftAlone, TypeOK
<1>6. SessionInv(p)'
  <2>1. HoldsInv(p)' BY <1>0, <1>2 DEF SessionInv, HoldsInv
  <2>2. stream'[s] = p BY <1>0, <1>2 DEF TypeOK
  <2>3. PublisherInv(p)' BY <1>1, <1>3, <2>2 DEF PublisherInv
  <2> QED BY <1>0, <2>1, <2>3 DEF SessionInv
<1> QED BY <1>0, <1>2, <1>4, <1>5, <1>6, QuietStep

LEMMA CollectStep ==
    ASSUME MonitoringInv, NEW p \in Publishers, Collect(p)
    PROVE  MonitoringInv'
<1>0. TypeOK /\ SessionInv(p) /\ p \in Sessions /\ p \notin Handlers /\ p \notin Evaluators
  BY SessionsApart DEF MonitoringInv
<1>1. PICK s \in Securities : s = txn[p].op BY <1>0 DEF Collect, SessionInv, PublisherInv
<1> DEFINE v == [txn[p] EXCEPT !.pc = "publish", !.seen = Demand(s)]
<1>2. Demand(s) \in SUBSET Targets
  <2> SUFFICES ASSUME NEW x \in WantedIn(tables, rules, s) PROVE x \in Targets BY RowViews
  <2>1. CASE \E t \in Tables : tables[t] # Absent /\ s \in tables[t].members /\ x \in tables[t].columns
    BY <1>0, <2>1 DEF TypeOK, Table
  <2>2. CASE \E k \in Rules : /\ rules[k] # Absent /\ rules[k].enabled
                              /\ rules[k].security = s /\ x = rules[k].target
    BY <1>0, <2>2 DEF TypeOK, Rule
  <2> QED BY <2>1, <2>2, WantedMember
<1>3. v \in Transaction(p) /\ v.pc = "publish" /\ v.op = s /\ v.seen = Demand(s)
  BY <1>0, <1>1, <1>2 DEF TypeOK, Transaction
<1>4. txn[p].pc = "collect" /\ txn' = [txn EXCEPT ![p] = v] /\ UNCHANGED data /\ UNCHANGED locks
  BY <1>0, <1>1 DEF Collect, TypeOK
<1>5. Demand(s)' = Demand(s) BY <1>4, RowViews DEF data
<1>6. PICK w \in Transaction(p) : w = v /\ w.pc = "publish" /\ w.op = s /\ w.seen = Demand(s) BY <1>3
<1> HIDE DEF v
<1>7. /\ txn' = [q \in Sessions |-> txn'[q]] /\ \A q \in Sessions : txn'[q] \in Transaction(q)
      /\ txn'[p] = w /\ \A q \in Sessions : q # p => txn'[q] = txn[q]
  BY <1>0, <1>4, <1>6, TransactionStep
<1>8. TypeOK' BY <1>0, <1>4, <1>7 DEF TypeOK, data, locks
<1>9. \A q \in Sessions : q # p => LeftAlone(q) BY <1>4, <1>7 DEF LeftAlone, locks
<1>10. SessionInv(p)'
  <2>1. HoldsInv(p)' BY <1>0, <1>4 DEF SessionInv, HoldsInv, locks
  <2>2. stream'[s] = p BY <1>0, <1>1, <1>4 DEF SessionInv, PublisherInv, locks
  <2>3. PublisherInv(p)' BY <1>5, <1>6, <1>7, <2>2 DEF PublisherInv
  <2> QED BY <1>0, <2>1, <2>3 DEF SessionInv
<1> QED BY <1>0, <1>4, <1>8, <1>9, <1>10, QuietStep

LEMMA PublishStep ==
    ASSUME MonitoringInv, NEW p \in Publishers, Publish(p)
    PROVE  MonitoringInv'
<1>0. TypeOK /\ SessionInv(p) /\ p \in Sessions /\ p \notin Handlers /\ p \notin Evaluators
  BY SessionsApart DEF MonitoringInv
<1>1. PICK s \in Securities : s = txn[p].op BY <1>0 DEF Publish, SessionInv, PublisherInv
<1>2. /\ published' = [published EXCEPT ![s] = Demand(s)]
      /\ published_demand_generation' = [published_demand_generation EXCEPT ![s] = demand_generation[s]]
      /\ Release(p) /\ tables' = tables /\ rules' = rules /\ demand_generation' = demand_generation
  BY <1>0, <1>1 DEF Publish, SessionInv, PublisherInv
<1>3. Demand(s) \in SUBSET Targets
  <2>1. txn[p].seen \in SUBSET Targets BY <1>0 DEF TypeOK, Transaction
  <2> QED BY <1>0, <1>1, <2>1 DEF Publish, SessionInv, PublisherInv
<1>4. TypeOK' BY <1>0, <1>2, <1>3, ReleaseFrees DEF TypeOK
<1>5. SessionInv(p)' /\ \A q \in Sessions : q # p => LeftAlone(q) BY <1>0, <1>2, ReleaseFrees
<1>6. /\ \A u : Watched(u)' = Watched(u) /\ \A e : Alerted(u, e)' = Alerted(u, e)
      /\ \A x : Demand(x)' = Demand(x)
  BY <1>2, RowViews
<1>7. \A u : OwnRowsKept(u) BY <1>2 DEF OwnRowsKept
<1>8. ASSUME NEW q \in Sessions, q # p PROVE SessionInv(q)'
  <2>1. SessionInv(q) /\ LeftAlone(q) BY <1>5, <1>8 DEF MonitoringInv
  <2> QED BY <1>0, <1>6, <1>7, <2>1, OtherSessionStays
<1>9. NeverAhead' BY <1>0, <1>2 DEF MonitoringInv, NeverAhead, TypeOK
<1>10. WithinMonitorLimit' BY <1>6 DEF MonitoringInv, WithinMonitorLimit, Monitored
<1>11. CurrentPublicationCoversDemand'
  <2> SUFFICES ASSUME NEW x \in Securities, published_demand_generation'[x] = demand_generation'[x]
               PROVE  Demand(x)' \subseteq published'[x]
    BY DEF CurrentPublicationCoversDemand
  <2>1. CASE x = s BY <1>0, <1>2, <1>6, <2>1 DEF TypeOK
  <2>2. CASE x # s
    BY <1>0, <1>2, <1>6, <2>2 DEF TypeOK, MonitoringInv, CurrentPublicationCoversDemand
  <2> QED BY <2>1, <2>2
<1> QED BY <1>4, <1>5, <1>8, <1>9, <1>10, <1>11 DEF MonitoringInv

-----------------------------------------------------------------------------
(* Initially, and by every step.                                           *)

LEMMA InitialMonitoring == Init => MonitoringInv
<1> SUFFICES ASSUME Init PROVE MonitoringInv OBVIOUS
<1>1. TypeOK
  <2>1. \A p \in Sessions : txn[p] \in Transaction(p) BY IdleType DEF Init
  <2> QED BY <2>1 DEF Init, TypeOK
<1>2. ASSUME NEW p \in Sessions PROVE SessionInv(p)
  <2>1. txn[p].pc = "idle" BY DEF Init, Idle
  <2>2. HoldsInv(p) BY SessionsApart DEF Init, HoldsInv
  <2> QED BY <2>1, <2>2 DEF SessionInv, HandlerInv, EvaluatorInv, PublisherInv
<1>3. NeverAhead BY DEF Init, NeverAhead
<1>4. WithinMonitorLimit
  <2> SUFFICES ASSUME NEW u \in Users PROVE Cardinality(Monitored(u)) <= Limit BY DEF WithinMonitorLimit
  <2>1. Watched(u) = {} /\ Alerted(u, {}) = {}
    <3>1. WatchedIn(tables, u) = {} BY WatchedMember DEF Init
    <3>2. AlertedIn(rules, u, {}) = {} BY AlertedMember DEF Init
    <3> QED BY <3>1, <3>2, RowViews
  <2>2. Monitored(u) = {} BY <2>1 DEF Monitored
  <2> QED BY <2>2, FS_EmptySet, MonitoringAssumption
<1>5. CurrentPublicationCoversDemand BY DEF Init, CurrentPublicationCoversDemand
<1> QED BY <1>1, <1>2, <1>3, <1>4, <1>5 DEF MonitoringInv

LEMMA MonitoringStep == MonitoringInv /\ [Next]_vars => MonitoringInv'
<1> SUFFICES ASSUME MonitoringInv, [Next]_vars PROVE MonitoringInv' OBVIOUS
<1>1. ASSUME NEW p \in Handlers, HandlerStep(p) \/ \E op \in Operations : Request(p, op) PROVE MonitoringInv'
  <2>1. CASE LockAccount(p) BY <2>1, LockAccountStep
  <2>2. CASE LockRule(p) BY <2>2, LockRuleStep
  <2>3. CASE Refuse(p) BY <2>3, SessionsApart, ReleaseQuietly DEF Refuse
  <2>4. CASE Decide(p) BY <2>4, DecideStep
  <2>5. CASE MarkRow(p) BY <2>5, MarkRowStep
  <2>6. CASE Commit(p) BY <2>6, CommitStep
  <2>7. CASE \E op \in Operations : Request(p, op) BY <2>7, RequestStep
  <2> QED BY <1>1, <2>1, <2>2, <2>3, <2>4, <2>5, <2>6, <2>7 DEF HandlerStep
<1>2. ASSUME NEW p \in Evaluators, EvaluatorStep(p) \/ \E k \in Rules : EvaluateRule(p, k) PROVE MonitoringInv'
  <2>1. CASE Observe(p) \/ Trigger(p) \/ Enqueue(p) BY <2>1, EvaluatorMoves
  <2>2. CASE NoTrigger(p) \/ CommitTrigger(p)
    BY <2>2, SessionsApart, ReleaseQuietly DEF NoTrigger, CommitTrigger
  <2>3. CASE \E k \in Rules : EvaluateRule(p, k) BY <2>3, EvaluateStep
  <2> QED BY <1>2, <2>1, <2>2, <2>3 DEF EvaluatorStep
<1>3. ASSUME NEW p \in Publishers, PublisherStep(p) \/ \E s \in Securities : LockStream(p, s) PROVE MonitoringInv'
  BY <1>3, CollectStep, PublishStep, LockStreamStep DEF PublisherStep
<1>4. ASSUME NEW p \in Sessions, Detect(p) PROVE MonitoringInv' BY <1>4, ReleaseQuietly DEF Detect
<1>5. CASE UNCHANGED vars
  <2>1. UNCHANGED data /\ UNCHANGED locks /\ txn' = txn BY <1>5 DEF vars, data, locks
  <2>2. TypeOK' BY <2>1 DEF MonitoringInv, TypeOK, data, locks
  <2>3. ASSUME NEW q \in Sessions PROVE LeftAlone(q) BY <2>1 DEF LeftAlone, locks
  <2>4. ASSUME NEW q \in Sessions PROVE SessionInv(q)'
    <3>1. TypeOK /\ SessionInv(q) BY DEF MonitoringInv
    <3>2. \A u : OwnRowsKept(u) BY <2>1 DEF OwnRowsKept, data
    <3>3. \A s : Demand(s)' = Demand(s) BY <2>1, RowViews DEF data
    <3> QED BY <2>3, <3>1, <3>2, <3>3, OtherSessionStays
  <2>5. CASE Sessions # {} BY <2>1, <2>2, <2>3, <2>4, <2>5, QuietStep
  <2>6. CASE Sessions = {}
    <3>1. /\ tables' = tables /\ rules' = rules /\ demand_generation' = demand_generation
          /\ published_demand_generation' = published_demand_generation /\ published' = published
      BY <2>1 DEF data
    <3>2. /\ \A u : Watched(u)' = Watched(u) /\ \A e : Alerted(u, e)' = Alerted(u, e)
          /\ \A s : Demand(s)' = Demand(s)
      BY <3>1, RowViews
    <3>3. NeverAhead' BY <3>1 DEF MonitoringInv, NeverAhead
    <3>4. WithinMonitorLimit' BY <3>2 DEF MonitoringInv, WithinMonitorLimit, Monitored
    <3>5. CurrentPublicationCoversDemand' BY <3>1, <3>2 DEF MonitoringInv, CurrentPublicationCoversDemand
    <3> QED BY <2>2, <2>4, <3>3, <3>4, <3>5 DEF MonitoringInv
  <2> QED BY <2>5, <2>6
<1> QED BY <1>1, <1>2, <1>3, <1>4, <1>5 DEF Next

(* The invariant holds of every session, lock and row throughout.           *)
THEOREM MonitoringInvariant == Spec => []MonitoringInv
BY InitialMonitoring, MonitoringStep, PTL DEF Spec

-----------------------------------------------------------------------------
(* What follows.                                                           *)

(* Rows, locks and transactions keep their types.                           *)
THEOREM MonitoringTypeCorrect == Spec => []TypeOK
BY MonitoringInvariant, PTL DEF MonitoringInv

(* ensure_monitor_capacity is effective: however the handlers of one user   *)
(* interleave, the user's tables and enabled rules never hold more distinct *)
(* securities than the limit.                                               *)
THEOREM LimitHolds == Spec => []WithinMonitorLimit
BY MonitoringInvariant, PTL DEF MonitoringInv

(* A stream whose published generation equals its demand generation was     *)
(* published with every request that is made of it now.                     *)
THEOREM CurrentPublicationsCoverDemand == Spec => []CurrentPublicationCoversDemand
BY MonitoringInvariant, PTL DEF MonitoringInv

(* A handler waits for a handler or publisher only as these two lemmas say. *)
LEMMA AwaitedHandler ==
    ASSUME MonitoringInv, NEW p \in Handlers, NEW q \in Handlers, Waits(p, q)
    PROVE  /\ txn[p].pc = "account" \/ (txn[p].pc = "mark" /\ txn[p].mark # {})
           /\ txn[q].pc \in {"rule", "check", "mark"}
           /\ txn[p].pc = "mark" => txn[q].pc = "mark" /\ \A x \in txn[q].mark : NextRow(p) < x
<1>0. /\ TypeOK /\ SessionInv(p) /\ SessionInv(q) /\ HandlerInv(p) /\ HoldsInv(p) /\ HoldsInv(q)
      /\ p \in Sessions /\ q \in Sessions /\ q \notin Evaluators /\ p # q
  BY SessionsApart DEF MonitoringInv, SessionInv, Waits
<1>1. txn[p].pc \in {"account", "rule"} \/ (txn[p].pc = "mark" /\ txn[p].mark # {})
  BY <1>0 DEF Waits, HandlerInv
<1>2. CASE txn[p].pc = "account"
  <2>1. txn[p].op \in Operations BY <1>0, <1>2 DEF HandlerInv
  <2>2. Owner[txn[p].op.id] \in Users BY <2>1, OperationKinds, MonitoringAssumption
  <2>3. q = account[Owner[txn[p].op.id]] BY <1>0, <1>2, <2>2 DEF Waits, HoldsInv
  <2> QED BY <1>0, <1>2, <2>2, <2>3 DEF HoldsInv
<1>3. CASE txn[p].pc = "rule"
  <2>1. q = ruleRow[txn[p].op.id] /\ txn[p].op.id \in Rules BY <1>0, <1>3 DEF Waits, HandlerInv
  <2>2. txn[q].pc \in {"check", "mark"} /\ txn[q].op.id = txn[p].op.id BY <1>0, <2>1 DEF HoldsInv
  <2>3. account[Owner[txn[p].op.id]] = p /\ account[Owner[txn[q].op.id]] = q
    BY <1>0, <1>3, <2>2 DEF SessionInv, HandlerInv
  <2> QED BY <1>0, <2>2, <2>3
<1>4. CASE txn[p].pc = "mark" /\ txn[p].mark # {}
  <2>1. txn[p].mark \in SUBSET Securities BY <1>0 DEF TypeOK, Transaction
  <2>2. NextRow(p) \in Securities BY <1>4, <2>1, MinIsFirst DEF NextRow
  <2>3. q = stream[NextRow(p)] BY <1>0, <1>4, <2>2 DEF Waits, HoldsInv
  <2> QED BY <1>0, <1>4, <2>2, <2>3 DEF HoldsInv
<1> QED BY <1>1, <1>2, <1>3, <1>4

LEMMA PublishersNeverWait ==
    ASSUME MonitoringInv, NEW p \in Publishers, NEW q PROVE ~Waits(p, q)
<1>1. txn[p].pc \in {"idle", "collect", "publish"}
  BY SessionsApart DEF MonitoringInv, SessionInv, PublisherInv
<1> QED BY <1>1 DEF Waits

(* A cycle of waits contains an alert evaluation: among handlers and        *)
(* publications the stream row waited for grows along a chain of waits.     *)
NoWaitCycle(S) == \A C \in (SUBSET S) \ {{}} : \E p \in C : \A q \in C : ~Waits(p, q)
LEMMA CyclesNeedEvaluations == MonitoringInv => NoWaitCycle(Handlers \union Publishers)
<1> SUFFICES ASSUME MonitoringInv, NEW C \in SUBSET (Handlers \union Publishers), C # {},
                    \A p \in C : \E q \in C : Waits(p, q)
             PROVE  FALSE
  BY DEF NoWaitCycle
<1>1. ASSUME NEW p \in C PROVE p \in Handlers BY PublishersNeverWait
<1> DEFINE Marking == {p \in C : txn[p].pc = "mark" /\ txn[p].mark # {}}
           Awaited == {NextRow(p) : p \in Marking}
<1>2. ASSUME NEW p \in C PROVE \E q \in Marking : Waits(p, q)
  <2>1. PICK q \in C : Waits(p, q) OBVIOUS
  <2>2. txn[q].pc \in {"rule", "check", "mark"} BY <1>1, <2>1, AwaitedHandler
  <2>3. PICK r \in C : Waits(q, r) OBVIOUS
  <2>4. txn[q].pc = "account" \/ (txn[q].pc = "mark" /\ txn[q].mark # {}) BY <1>1, <2>3, AwaitedHandler
  <2> QED BY <2>1, <2>2, <2>4
<1>3. ASSUME NEW p \in Marking
      PROVE  txn[p].mark \in SUBSET Securities /\ NextRow(p) \in txn[p].mark /\ NextRow(p) \in Securities
  <2>1. TypeOK /\ p \in Sessions /\ txn[p].mark # {} BY <1>1, SessionsApart DEF MonitoringInv
  <2>2. txn[p].mark \in SUBSET Securities BY <2>1 DEF TypeOK, Transaction
  <2> QED BY <2>1, <2>2, MinIsFirst DEF NextRow
<1>4. Awaited \in SUBSET Securities /\ Awaited # {} BY <1>2, <1>3
<1>5. PICK m \in Awaited : \A n \in Awaited : n <= m
  <2> HIDE DEF Awaited
  <2> QED BY <1>4, LastExists
<1>6. PICK p \in Marking : m = NextRow(p) OBVIOUS
<1>7. PICK q \in Marking : Waits(p, q) BY <1>2
<1>8. NextRow(p) < NextRow(q) BY <1>1, <1>3, <1>7, AwaitedHandler
<1>9. NextRow(q) <= NextRow(p) BY <1>5, <1>6
<1>10. NextRow(p) \in Nat /\ NextRow(q) \in Nat BY <1>3, MonitoringAssumption
<1> QED BY <1>8, <1>9, <1>10

(* No wait cycle consists of handlers and publications.                     *)
THEOREM EveryCycleHasAnEvaluation == Spec => []NoWaitCycle(Handlers \union Publishers)
BY MonitoringInvariant, CyclesNeedEvaluations, PTL

(* Handlers alone never deadlock: account row, rule row, sorted stream rows. *)
THEOREM HandlersNeverWaitInCycle == Spec => []HandlersNeverDeadlock
<1>1. NoWaitCycle(Handlers \union Publishers) => HandlersNeverDeadlock
  BY DEF NoWaitCycle, HandlersNeverDeadlock
<1> QED BY <1>1, EveryCycleHasAnEvaluation, PTL

-----------------------------------------------------------------------------
(* Enough history: HistoryReadiness.                                         *)

Modes == Readiness!Modes
Workers == Bootstraps \union {Eod}
Stored == [bars : SUBSET (1..today), through : 0..today, depth : Nat]
Fields == {"pc", "required", "end", "todo", "retries", "issue", "failed", "dividends", "published"}

(* A recorded depth was synchronised once, up to some day.                  *)
StoredInv(h) ==
    /\ h \in [Modes -> Stored]
    /\ \A a \in Modes : h[a].depth # 0 =>
          \E e \in 1..today : Readiness!LastBars(h[a].depth, e) \subseteq h[a].bars

(* Enough for readiness: n bars stored, or a depth of n once asked for.     *)
Covered(h, a, n) == n <= Cardinality(h[a].bars) \/ n <= h[a].depth

(* What a task at work knows.                                               *)
RunOk(r) ==
    /\ DOMAIN r = Fields /\ r.required \in Nat /\ r.end \in 0..today /\ r.todo \subseteq Modes
    /\ r.published \subseteq Modes
    /\ r.pc \notin {"idle", "queued"} => 1 <= r.required /\ r.end \in 1..today
    /\ r.pc \in {"begin", "check", "sync", "materialize", "daily_sync"} => r.todo # {}

(* How far a run of the pipeline has got: the adjustments that are covered, *)
(* then those that have today's bar, then those that are published.         *)
PhaseOk(r, h) ==
    /\ r.pc \in {"readiness", "begin", "check", "sync", "materialize"} => r.end = today
    /\ r.pc \in {"begin", "check", "sync"} =>
          \A a \in Modes : a \in r.todo \/ Covered(h, a, r.required)
    /\ r.pc = "materialize" =>
          \A a \in Modes : a \in Readiness!Rest(r.todo) \/ Covered(h, a, r.required)
    /\ r.pc \in {"dividends", "stamp"} => \A a \in Modes : Covered(h, a, r.required)
    /\ r.pc \in {"daily_sync", "dividend_sync", "adjustment_ready", "snapshots"} /\ ~r.issue =>
          \A a \in Modes : Covered(h, a, r.required)
    /\ r.pc = "daily_sync" =>
          \A a \in Modes : a \in r.todo \/ a \in r.failed \/ today \in h[a].bars
    /\ r.pc \in {"dividend_sync", "adjustment_ready"} =>
          \A a \in Modes : a \in r.failed \/ today \in h[a].bars
    /\ r.pc = "snapshots" => \A a \in r.todo : today \in h[a].bars
    /\ r.pc = "snapshots" /\ ~r.issue /\ r.failed = {} =>
          \A a \in Modes : /\ today \in h[a].bars
                           /\ a \in r.todo \/ (a \in r.published /\ h[a].through = today)

ReadinessInv ==
    /\ demand \in Nat /\ faults \in Nat
    /\ StoredInv(history)
    /\ DOMAIN worker = Workers /\ \A w \in Workers : RunOk(worker[w])
    /\ PhaseOk(worker[Eod], history)

(* Stored history only grows, and today's publication stands.               *)
Grows(h, k) ==
    \A a \in Modes : /\ h[a].bars \subseteq k[a].bars /\ h[a].depth <= k[a].depth
                     /\ h[a].through = today => k[a].through = today

LEMMA GreatestDay ==
    ASSUME today \in Nat, NEW S \in SUBSET (0..today), S # {}
    PROVE  Readiness!Max(S) \in S /\ \A x \in S : x <= Readiness!Max(S)
<1> DEFINE T == {today - x : x \in S}
<1>0. \A x \in S : x \in Nat /\ x <= today /\ today - x \in Nat OBVIOUS
<1>1. T \in SUBSET Nat /\ T # {} BY <1>0
<1>2. PICK m \in T : \A n \in T : m <= n
  <2> HIDE DEF T
  <2> QED BY <1>1, LeastExists
<1>3. PICK x \in S : m = today - x OBVIOUS
<1>4. ASSUME NEW y \in S PROVE y <= x
  <2>1. today - y \in T /\ today - x <= today - y BY <1>2, <1>3
  <2>2. x \in Nat /\ y \in Nat BY <1>0
  <2> QED BY <1>0, <2>1, <2>2
<1>5. \E z \in S : \A y \in S : z >= y
  <2>1. \A y \in S : x >= y BY <1>4
  <2> QED BY <2>1
<1>6. Readiness!Max(S) \in S /\ \A y \in S : Readiness!Max(S) >= y BY <1>5 DEF Readiness!Max
<1>7. Readiness!Max(S) \in Nat /\ \A y \in S : y \in Nat BY <1>0, <1>6
<1> QED BY <1>6, <1>7

LEMMA FirstOfTodo ==
    ASSUME Readiness!HistoryAssumption, NEW T \in SUBSET Modes, T # {}
    PROVE  Readiness!First(T) \in T
<1> DEFINE I == {i \in DOMAIN Adjustments : Adjustments[i] \in T}
<1>1. Adjustments \in Seq(Readiness!ToSet(Adjustments)) BY DEF Readiness!HistoryAssumption
<1>2. DOMAIN Adjustments \in SUBSET Nat BY <1>1
<1>3. I \in SUBSET Nat /\ I # {}
  <2>1. PICK a \in T : a \in Readiness!ToSet(Adjustments) BY DEF Modes, Readiness!Modes
  <2>2. PICK i \in DOMAIN Adjustments : a = Adjustments[i] BY <2>1 DEF Readiness!ToSet
  <2> QED BY <1>2, <2>1, <2>2
<1>4. Readiness!Min(I) \in I
  <2> HIDE DEF I
  <2>1. \E m \in I : \A n \in I : m <= n BY <1>3, LeastExists
  <2> QED BY <2>1 DEF Readiness!Min
<1>5. Readiness!First(T) = Adjustments[Readiness!Min(I)] BY DEF Readiness!First
<1> QED BY <1>4, <1>5

LEMMA EnoughRequired ==
    ASSUME Readiness!HistoryAssumption, demand \in Nat
    PROVE  Readiness!Required \in Nat /\ 1 <= Readiness!Required
<1> DEFINE S == {MinBars, demand}
<1>1. MinBars \in Nat /\ 1 <= MinBars BY DEF Readiness!HistoryAssumption
<1>2. \E x \in S : \A y \in S : x >= y
  <2>1. CASE MinBars >= demand BY <1>1, <2>1
  <2>2. CASE ~(MinBars >= demand) BY <1>1, <2>2
  <2> QED BY <2>1, <2>2
<1>3. Readiness!Max(S) \in S /\ \A y \in S : Readiness!Max(S) >= y BY <1>2 DEF Readiness!Max
<1> QED BY <1>1, <1>3 DEF Readiness!Required

LEMMA CoverGrows ==
    ASSUME today \in Nat, NEW h, NEW k, h \in [Modes -> Stored], k \in [Modes -> Stored], Grows(h, k),
           NEW a \in Modes, NEW n \in Nat, Covered(h, a, n)
    PROVE  Covered(k, a, n)
<1>1. h[a].bars \in SUBSET (1..today) /\ k[a].bars \in SUBSET (1..today) /\ h[a].bars \subseteq k[a].bars
      /\ h[a].depth \in Nat /\ k[a].depth \in Nat /\ h[a].depth <= k[a].depth
  BY DEF Grows, Stored
<1>2. IsFiniteSet(1..today) BY FS_Interval
<1>3. IsFiniteSet(k[a].bars) BY <1>1, <1>2, FS_Subset
<1>4. /\ IsFiniteSet(h[a].bars) /\ Cardinality(h[a].bars) <= Cardinality(k[a].bars)
      /\ Cardinality(h[a].bars) \in Nat /\ Cardinality(k[a].bars) \in Nat
  BY <1>1, <1>3, FS_Subset, FS_CardinalityType
<1> QED BY <1>1, <1>4 DEF Covered

LEMMA PhaseGrows ==
    ASSUME today \in Nat, NEW h, NEW k, h \in [Modes -> Stored], k \in [Modes -> Stored], Grows(h, k),
           NEW r, RunOk(r), PhaseOk(r, h)
    PROVE  PhaseOk(r, k)
<1>1. r.required \in Nat /\ r.todo \subseteq Modes BY DEF RunOk
<1>2. \A a \in Modes : Covered(h, a, r.required) => Covered(k, a, r.required) BY <1>1, CoverGrows
<1>3. \A a \in Modes : /\ today \in h[a].bars => today \in k[a].bars
                       /\ h[a].through = today => k[a].through = today
  BY DEF Grows
<1> QED BY <1>1, <1>2, <1>3 DEF PhaseOk

(* A step of one worker, seen from the others.                              *)
LEMMA WorkerStep ==
    ASSUME Readiness!HistoryAssumption, ReadinessInv, NEW w \in Workers, NEW x, RunOk(x),
           worker' = [worker EXCEPT ![w] = x], StoredInv(history'), Grows(history, history'),
           w = Eod => PhaseOk(x, history'), demand' \in Nat, faults' \in Nat
    PROVE  ReadinessInv'
<1>1. today \in Nat BY DEF Readiness!HistoryAssumption
<1>2. Eod \in Workers BY DEF Workers
<1>3. /\ DOMAIN worker' = Workers
      /\ \A v \in Workers : worker'[v] = IF v = w THEN x ELSE worker[v]
  BY DEF ReadinessInv
<1>4. \A v \in Workers : RunOk(worker'[v]) BY <1>3 DEF ReadinessInv
<1>5. PhaseOk(worker'[Eod], history')
  <2>1. CASE w = Eod BY <1>2, <1>3, <2>1
  <2>2. CASE w # Eod
    <3>1. worker'[Eod] = worker[Eod] /\ RunOk(worker[Eod]) BY <1>2, <1>3, <2>2 DEF ReadinessInv
    <3> QED BY <1>1, <3>1, PhaseGrows DEF ReadinessInv, StoredInv
  <2> QED BY <2>1, <2>2
<1> QED BY <1>3, <1>4, <1>5 DEF ReadinessInv

LEMMA GrowsAlways ==
    ASSUME NEW h \in [Modes -> Stored] PROVE Grows(h, h)
BY DEF Grows, Stored

(* A step that only moves a worker on.                                      *)
LEMMA WorkerMoves ==
    ASSUME Readiness!HistoryAssumption, ReadinessInv, NEW w \in Workers, NEW x, RunOk(x),
           worker' = [worker EXCEPT ![w] = x], UNCHANGED history,
           w = Eod => PhaseOk(x, history), demand' \in Nat, faults' \in Nat
    PROVE  ReadinessInv'
BY WorkerStep, GrowsAlways DEF ReadinessInv, StoredInv

LEMMA NobodyMoves ==
    ASSUME ReadinessInv, UNCHANGED <<worker, history>>, demand' \in Nat, faults' \in Nat
    PROVE  ReadinessInv'
BY DEF ReadinessInv

LEMMA IdleRun ==
    ASSUME Readiness!HistoryAssumption
    PROVE  /\ RunOk(Readiness!Idle) /\ \A h : PhaseOk(Readiness!Idle, h)
           /\ RunOk([Readiness!Idle EXCEPT !.pc = "queued"])
           /\ \A n : RunOk([Readiness!Idle EXCEPT !.pc = "queued", !.retries = n])
<1>1. 0 \in 0..today /\ 0 \in Nat BY DEF Readiness!HistoryAssumption
<1>2. /\ DOMAIN Readiness!Idle = Fields /\ Readiness!Idle.pc = "idle" /\ Readiness!Idle.required = 0
      /\ Readiness!Idle.end = 0 /\ Readiness!Idle.todo = {} /\ Readiness!Idle.published = {}
  BY DEF Readiness!Idle, Readiness!None, Fields
<1>3. RunOk(Readiness!Idle) BY <1>1, <1>2 DEF RunOk
<1>4. \A h : PhaseOk(Readiness!Idle, h) BY <1>2 DEF PhaseOk
<1>5. ASSUME NEW n PROVE RunOk([Readiness!Idle EXCEPT !.pc = "queued", !.retries = n])
  <2> DEFINE x == [Readiness!Idle EXCEPT !.pc = "queued", !.retries = n]
  <2>1. /\ DOMAIN x = Fields /\ x.pc = "queued" /\ x.required = 0 /\ x.end = 0 /\ x.todo = {}
         /\ x.published = {}
    BY <1>2 DEF Fields
  <2> HIDE DEF x
  <2>2. RunOk(x) BY <1>1, <2>1 DEF RunOk
  <2> QED BY <2>2 DEF x
<1>6. RunOk([Readiness!Idle EXCEPT !.pc = "queued"])
  <2> DEFINE x == [Readiness!Idle EXCEPT !.pc = "queued"]
  <2>1. /\ DOMAIN x = Fields /\ x.pc = "queued" /\ x.required = 0 /\ x.end = 0 /\ x.todo = {}
         /\ x.published = {}
    BY <1>2 DEF Fields
  <2> HIDE DEF x
  <2>2. RunOk(x) BY <1>1, <2>1 DEF RunOk
  <2> QED BY <2>2 DEF x
<1> QED BY <1>3, <1>4, <1>5, <1>6

-----------------------------------------------------------------------------
(* What is stored.                                                          *)

LEMMA DeepenedKeeps ==
    ASSUME Readiness!HistoryAssumption, StoredInv(history), NEW a \in Modes,
           NEW n \in Nat, 1 <= n, NEW e \in 1..today, NEW k, k = Readiness!Deepened(a, n, e)
    PROVE  /\ StoredInv(k) /\ Grows(history, k) /\ n <= k[a].depth
           /\ e \in k[a].bars
<1> DEFINE old == history[a]
           L == Readiness!LastBars(n, e)
           d == Readiness!Max({old.depth, n})
           new == [old EXCEPT !.bars = old.bars \union L, !.depth = d]
<1>1. /\ old.bars \in SUBSET (1..today) /\ old.through \in 0..today /\ old.depth \in Nat
      /\ old \in Stored
      /\ today \in Nat /\ e \in Nat /\ 1 <= e /\ e <= today
  BY DEF StoredInv, Stored, Readiness!HistoryAssumption
<1>2. d \in {old.depth, n} /\ old.depth <= d /\ n <= d
  <2>1. \E x \in {old.depth, n} : \A y \in {old.depth, n} : x >= y
    <3>1. CASE old.depth >= n BY <1>1, <3>1
    <3>2. CASE ~(old.depth >= n) BY <1>1, <3>2
    <3> QED BY <3>1, <3>2
  <2>2. d \in {old.depth, n} /\ \A y \in {old.depth, n} : d >= y BY <2>1 DEF Readiness!Max
  <2> QED BY <1>1, <2>2
<1>3. L \in SUBSET (1..today) /\ e \in L
  <2>1. \A x \in 1..e : x \in 1..today BY <1>1
  <2>2. e \in 1..e /\ e - n < e BY <1>1
  <2> QED BY <2>1, <2>2 DEF Readiness!LastBars
<1>4. k = [history EXCEPT ![a] = new]
  <2>1. k = [history EXCEPT ![a].bars = @ \union L, ![a].depth = Readiness!Max({@, n})]
    BY DEF Readiness!Deepened
  <2> QED BY <2>1 DEF StoredInv
<1> HIDE DEF L, d, old
<1>5. /\ new \in Stored /\ new.bars = old.bars \union L /\ new.through = old.through /\ new.depth = d
  BY <1>1, <1>2, <1>3 DEF Stored
<1>6. k \in [Modes -> Stored] /\ \A m \in Modes : k[m] = IF m = a THEN new ELSE history[m]
  BY <1>4, <1>5 DEF StoredInv
<1>7. k[a].bars = old.bars \union L /\ k[a].through = old.through /\ k[a].depth = d
  BY <1>5, <1>6
<1>8. \A m \in Modes : m # a => k[m] = history[m] BY <1>6
<1>9. Grows(history, k)
  <2>1. \A m \in Modes : history[m].depth \in Nat BY DEF StoredInv, Stored
  <2> QED BY <1>2, <1>7, <1>8, <2>1 DEF Grows, old
<1>10. \E x \in 1..today : Readiness!LastBars(d, x) \subseteq k[a].bars
  <2>1. CASE d = n BY <1>7, <2>1 DEF L
  <2>2. CASE d = old.depth
    <3>1. old.depth # 0 BY <1>1, <1>2, <2>2
    <3>2. PICK x \in 1..today : Readiness!LastBars(old.depth, x) \subseteq old.bars
      BY <3>1 DEF StoredInv, old
    <3> QED BY <1>7, <2>2, <3>2
  <2> QED BY <1>2, <2>1, <2>2
<1>11. StoredInv(k) BY <1>6, <1>7, <1>8, <1>10 DEF StoredInv
<1> QED BY <1>2, <1>3, <1>7, <1>9, <1>11

LEMMA BarsAdded ==
    ASSUME Readiness!HistoryAssumption, StoredInv(history), NEW a \in Modes,
           NEW D \in SUBSET (1..today), NEW k, k = [history EXCEPT ![a].bars = @ \union D]
    PROVE  StoredInv(k) /\ Grows(history, k) /\ D \subseteq k[a].bars
<1> DEFINE old == history[a]
           new == [bars |-> old.bars \union D, through |-> old.through, depth |-> old.depth]
<1>1. /\ old.bars \in SUBSET (1..today) /\ old.through \in 0..today /\ old.depth \in Nat
      /\ old = [bars |-> old.bars, through |-> old.through, depth |-> old.depth]
  BY DEF StoredInv, Stored
<1>2. k = [history EXCEPT ![a] = new]
  <2>1. k = [history EXCEPT ![a] = [old EXCEPT !.bars = old.bars \union D]] OBVIOUS
  <2>2. [old EXCEPT !.bars = old.bars \union D] = new BY <1>1
  <2> QED BY <2>1, <2>2
<1> HIDE DEF old
<1>3. new \in Stored BY <1>1 DEF Stored
<1>4. k \in [Modes -> Stored] /\ \A m \in Modes : k[m] = IF m = a THEN new ELSE history[m]
  BY <1>2, <1>3 DEF StoredInv
<1>5. k[a].bars = old.bars \union D /\ k[a].through = old.through /\ k[a].depth = old.depth BY <1>4
<1>6. \A m \in Modes : m # a => k[m] = history[m] BY <1>4
<1>7. Grows(history, k)
  <2>1. \A m \in Modes : history[m].depth \in Nat BY DEF StoredInv, Stored
  <2> QED BY <1>1, <1>5, <1>6, <2>1 DEF Grows, old
<1>8. \A m \in Modes : k[m].depth = history[m].depth /\ history[m].bars \subseteq k[m].bars
  BY <1>5, <1>6 DEF old
<1>9. StoredInv(k)
  <2> SUFFICES ASSUME NEW m \in Modes, k[m].depth # 0
               PROVE  \E e \in 1..today : Readiness!LastBars(k[m].depth, e) \subseteq k[m].bars
    BY <1>4 DEF StoredInv
  <2>1. PICK e \in 1..today : Readiness!LastBars(history[m].depth, e) \subseteq history[m].bars
    BY <1>8 DEF StoredInv
  <2> QED BY <1>8, <2>1
<1> QED BY <1>5, <1>7, <1>9

(* The last stored day up to e.                                             *)
LEMMA LatestStored ==
    ASSUME Readiness!HistoryAssumption, StoredInv(history), NEW a \in Modes, NEW e \in 1..today
    PROVE  /\ Readiness!Latest(a, e) \in 0..today /\ Readiness!Latest(a, e) <= e
           /\ Readiness!Latest(a, e) # 0 => Readiness!Latest(a, e) \in history[a].bars
           /\ \A d \in history[a].bars : d <= e => d <= Readiness!Latest(a, e)
<1> DEFINE S == {Readiness!None} \union (history[a].bars \cap 1..e)
<1>1. today \in Nat /\ e \in Nat /\ e <= today BY DEF Readiness!HistoryAssumption
<1>2. history[a].bars \in SUBSET (1..today) BY DEF StoredInv, Stored
<1>3. S \in SUBSET (0..today) /\ S # {} BY <1>1, <1>2 DEF Readiness!None
<1>4. Readiness!Max(S) \in S /\ \A x \in S : x <= Readiness!Max(S)
  <2> HIDE DEF S
  <2> QED BY <1>1, <1>3, GreatestDay
<1>5. \A d \in history[a].bars : d <= e => d \in S BY <1>1, <1>2
<1>6. Readiness!Latest(a, e) = Readiness!Max(S) BY DEF Readiness!Latest
<1> QED BY <1>1, <1>2, <1>3, <1>4, <1>5, <1>6 DEF Readiness!None

LEMMA PublishedKeeps ==
    ASSUME Readiness!HistoryAssumption, StoredInv(history), NEW a \in Modes, NEW e \in 1..today,
           Readiness!Publishable(a, e), NEW k, k = [history EXCEPT ![a].through = Readiness!Latest(a, e)]
    PROVE  /\ StoredInv(k) /\ Grows(history, k)
           /\ \A m \in Modes : k[m].bars = history[m].bars /\ k[m].depth = history[m].depth
                               /\ (m # a => k[m] = history[m])
           /\ k[a].through = Readiness!Latest(a, e)
<1> DEFINE old == history[a]
           t == Readiness!Latest(a, e)
           new == [bars |-> old.bars, through |-> t, depth |-> old.depth]
<1>1. /\ old.bars \in SUBSET (1..today) /\ old.through \in 0..today /\ old.depth \in Nat
      /\ old = [bars |-> old.bars, through |-> old.through, depth |-> old.depth]
      /\ today \in Nat /\ e \in Nat /\ e <= today
  BY DEF StoredInv, Stored, Readiness!HistoryAssumption
<1>2. t \in 0..today /\ t <= e /\ old.through <= t
  BY LatestStored DEF Readiness!Publishable
<1>3. k = [history EXCEPT ![a] = new]
  <2>1. k = [history EXCEPT ![a] = [old EXCEPT !.through = t]] OBVIOUS
  <2>2. [old EXCEPT !.through = t] = new BY <1>1
  <2> QED BY <2>1, <2>2
<1> HIDE DEF old, t
<1>4. new \in Stored BY <1>1, <1>2 DEF Stored
<1>5. k \in [Modes -> Stored] /\ \A m \in Modes : k[m] = IF m = a THEN new ELSE history[m]
  BY <1>3, <1>4 DEF StoredInv
<1>6. k[a].bars = old.bars /\ k[a].through = t /\ k[a].depth = old.depth BY <1>5
<1>7. \A m \in Modes : m # a => k[m] = history[m] BY <1>5
<1>8. \A m \in Modes : k[m].bars = history[m].bars /\ k[m].depth = history[m].depth
  BY <1>6, <1>7 DEF old
<1>9. Grows(history, k)
  <2>1. \A m \in Modes : history[m].depth \in Nat BY DEF StoredInv, Stored
  <2>2. old.through = today => t = today BY <1>1, <1>2
  <2> QED BY <1>6, <1>7, <1>8, <2>1, <2>2 DEF Grows, old
<1>10. StoredInv(k) BY <1>5, <1>8 DEF StoredInv
<1> QED BY <1>6, <1>7, <1>8, <1>9, <1>10 DEF t

-----------------------------------------------------------------------------
(* The steps of ensure_ready.                                               *)

LEMMA NotNeeded ==
    ASSUME Readiness!HistoryAssumption, StoredInv(history), NEW a \in Modes, NEW n \in Nat, NEW e \in 1..today,
           ~Readiness!NeedsHistory(a, n, e)
    PROVE  Covered(history, a, n)
<1> DEFINE B == history[a].bars
           C == B \cap 1..e
<1>1. B \in SUBSET (1..today) /\ C \subseteq B /\ history[a].depth \in Nat /\ today \in Nat
  BY DEF StoredInv, Stored, Readiness!HistoryAssumption
<1>2. IsFiniteSet(1..today) BY <1>1, FS_Interval
<1>3. IsFiniteSet(B) BY <1>1, <1>2, FS_Subset
<1>4. IsFiniteSet(C) /\ Cardinality(C) <= Cardinality(B) BY <1>1, <1>3, FS_Subset
<1>5. Cardinality(C) \in Nat /\ Cardinality(B) \in Nat BY <1>3, <1>4, FS_CardinalityType
<1>6. ~(Cardinality(C) < n /\ history[a].depth < n)
  BY DEF Readiness!NeedsHistory, Readiness!Cardinality, Cardinality
<1> HIDE DEF C
<1> QED BY <1>1, <1>4, <1>5, <1>6 DEF Covered

LEMMA BeginPrepares ==
    ASSUME Readiness!HistoryAssumption, ReadinessInv, NEW w \in Workers, Readiness!Begin(w)
    PROVE  ReadinessInv'
<1> DEFINE r == worker[w]
           S == {r.end} \union {history[a].through : a \in Modes}
           m == Readiness!Max(S)
           x == [r EXCEPT !.pc = "check", !.end = m]
<1>1. /\ RunOk(r) /\ r.pc = "begin" /\ DOMAIN r = Fields
      /\ worker' = [worker EXCEPT ![w] = x] /\ UNCHANGED <<demand, history, faults>>
  BY DEF ReadinessInv, Readiness!Begin, Readiness!Set, RunOk, Modes
<1>2. /\ x.pc = "check" /\ x.end = m /\ x.required = r.required /\ x.todo = r.todo /\ x.issue = r.issue
      /\ x.failed = r.failed /\ x.published = r.published /\ DOMAIN x = Fields
  BY <1>1 DEF Fields
<1>3. m \in 1..today /\ (r.end = today => m = today)
  <2>1. \A a \in Modes : history[a].through \in 0..today BY DEF ReadinessInv, StoredInv, Stored
  <2>2. r.end \in 1..today /\ today \in Nat BY <1>1 DEF RunOk, Readiness!HistoryAssumption
  <2>3. S \in SUBSET (0..today) /\ S # {} /\ r.end \in S BY <2>1, <2>2
  <2>4. m \in S /\ \A y \in S : y <= m
    <3> HIDE DEF S
    <3> QED BY <2>2, <2>3, GreatestDay
  <2>5. r.end <= m /\ m \in 0..today BY <2>3, <2>4
  <2> HIDE DEF m, r
  <2> QED BY <2>2, <2>5
<1> HIDE DEF x, m
<1>4. RunOk(x) BY <1>1, <1>2, <1>3 DEF RunOk
<1>5. w = Eod => PhaseOk(x, history) BY <1>1, <1>2, <1>3 DEF ReadinessInv, PhaseOk
<1>6. demand' \in Nat /\ faults' \in Nat BY <1>1 DEF ReadinessInv
<1> QED BY <1>1, <1>4, <1>5, <1>6, WorkerMoves

LEMMA CheckPrepares ==
    ASSUME Readiness!HistoryAssumption, ReadinessInv, NEW w \in Workers, Readiness!Check(w)
    PROVE  ReadinessInv'
<1> DEFINE r == worker[w]
           needs == Readiness!NeedsHistory(Readiness!First(r.todo), r.required, r.end)
           p == IF needs THEN "sync" ELSE "materialize"
           x == [r EXCEPT !.pc = p]
<1>1. /\ RunOk(r) /\ r.pc = "check" /\ DOMAIN r = Fields
      /\ worker' = [worker EXCEPT ![w] = x] /\ UNCHANGED <<demand, history, faults>>
  BY DEF ReadinessInv, Readiness!Check, Readiness!Set, RunOk
<1>2. /\ x.pc = p /\ x.end = r.end /\ x.required = r.required /\ x.todo = r.todo /\ x.issue = r.issue
      /\ x.failed = r.failed /\ x.published = r.published /\ DOMAIN x = Fields
  BY <1>1 DEF Fields
<1>3. /\ r.required \in Nat /\ r.todo \in SUBSET Modes /\ r.todo # {} /\ r.end \in 1..today
      /\ 1 <= r.required /\ StoredInv(history)
  BY <1>1 DEF RunOk, ReadinessInv
<1>4. Readiness!First(r.todo) \in Modes BY <1>3, FirstOfTodo
<1>5. ~needs => Covered(history, Readiness!First(r.todo), r.required)
  BY <1>3, <1>4, NotNeeded
<1>6. p \in {"sync", "materialize"} /\ (p = "materialize" => ~needs) OBVIOUS
<1> HIDE DEF x, p, needs
<1>7. RunOk(x) BY <1>1, <1>2, <1>3, <1>6 DEF RunOk
<1>8. ASSUME w = Eod PROVE PhaseOk(x, history)
  <2>1. /\ r.end = today
        /\ \A a \in Modes : a \in r.todo \/ Covered(history, a, r.required)
    BY <1>1, <1>8 DEF ReadinessInv, PhaseOk
  <2>2. CASE p = "sync" BY <1>2, <2>1, <2>2 DEF PhaseOk
  <2>3. CASE p = "materialize"
    <3>1. \A a \in Modes : a \in Readiness!Rest(r.todo) \/ Covered(history, a, r.required)
      BY <1>5, <1>6, <2>1, <2>3 DEF Readiness!Rest
    <3> QED BY <1>2, <2>1, <2>3, <3>1 DEF PhaseOk
  <2> QED BY <1>6, <2>2, <2>3
<1>9. demand' \in Nat /\ faults' \in Nat BY <1>1 DEF ReadinessInv
<1> QED BY <1>1, <1>7, <1>8, <1>9, WorkerMoves

LEMMA SyncHistoryPrepares ==
    ASSUME Readiness!HistoryAssumption, ReadinessInv, NEW w \in Workers, Readiness!SyncHistory(w)
    PROVE  ReadinessInv'
<1> DEFINE r == worker[w]
           x == [r EXCEPT !.pc = "materialize"]
           f == Readiness!First(r.todo)
<1>1. /\ RunOk(r) /\ r.pc = "sync" /\ DOMAIN r = Fields
      /\ worker' = [worker EXCEPT ![w] = x] /\ UNCHANGED <<demand, faults>>
      /\ history' = Readiness!Deepened(f, r.required, r.end)
  BY DEF ReadinessInv, Readiness!SyncHistory, Readiness!Set, RunOk
<1>2. /\ x.pc = "materialize" /\ x.end = r.end /\ x.required = r.required /\ x.todo = r.todo
      /\ x.issue = r.issue /\ x.failed = r.failed /\ x.published = r.published /\ DOMAIN x = Fields
  BY <1>1 DEF Fields
<1>3. /\ r.required \in Nat /\ r.todo \in SUBSET Modes /\ r.todo # {} /\ r.end \in 1..today
      /\ 1 <= r.required /\ StoredInv(history) /\ today \in Nat
  BY <1>1 DEF RunOk, ReadinessInv, Readiness!HistoryAssumption
<1>4. f \in Modes BY <1>3, FirstOfTodo
<1> HIDE DEF f, x
<1>5. PICK k : k = history' OBVIOUS
<1>6. StoredInv(k) /\ Grows(history, k) /\ r.required <= k[f].depth
  BY <1>1, <1>3, <1>4, <1>5, DeepenedKeeps
<1>7. RunOk(x) BY <1>1, <1>2, <1>3 DEF RunOk
<1>8. ASSUME w = Eod PROVE PhaseOk(x, k)
  <2>1. /\ r.end = today
        /\ \A a \in Modes : a \in r.todo \/ Covered(history, a, r.required)
    BY <1>1, <1>8 DEF ReadinessInv, PhaseOk
  <2>2. \A a \in Modes : Covered(history, a, r.required) => Covered(k, a, r.required)
    BY <1>3, <1>6, CoverGrows DEF StoredInv
  <2>3. Covered(k, f, r.required) BY <1>6 DEF Covered
  <2>4. \A a \in Modes : a \in Readiness!Rest(r.todo) \/ Covered(k, a, r.required)
    BY <2>1, <2>2, <2>3 DEF Readiness!Rest, f
  <2> QED BY <1>2, <2>1, <2>4 DEF PhaseOk
<1>9. demand' \in Nat /\ faults' \in Nat BY <1>1 DEF ReadinessInv
<1> QED BY <1>1, <1>5, <1>6, <1>7, <1>8, <1>9, WorkerStep

LEMMA MaterializePrepares ==
    ASSUME Readiness!HistoryAssumption, ReadinessInv, NEW w \in Workers, Readiness!Materialize(w)
    PROVE  ReadinessInv'
<1> DEFINE r == worker[w]
           f == Readiness!First(r.todo)
           rest == Readiness!Rest(r.todo)
           p == IF rest # {} THEN "check" ELSE "dividends"
           x == [r EXCEPT !.todo = rest, !.pc = p]
<1>1. /\ RunOk(r) /\ r.pc = "materialize" /\ DOMAIN r = Fields
      /\ worker' = [worker EXCEPT ![w] = x] /\ UNCHANGED <<demand, faults>>
      /\ history' = [history EXCEPT ![f].through = Readiness!Latest(f, r.end)]
      /\ Readiness!Publishable(f, r.end)
  BY DEF ReadinessInv, Readiness!Materialize, Readiness!Set, RunOk
<1>2. /\ x.pc = p /\ x.end = r.end /\ x.required = r.required /\ x.todo = rest
      /\ x.issue = r.issue /\ x.failed = r.failed /\ x.published = r.published /\ DOMAIN x = Fields
  BY <1>1 DEF Fields
<1>3. /\ r.required \in Nat /\ r.todo \in SUBSET Modes /\ r.todo # {} /\ r.end \in 1..today
      /\ 1 <= r.required /\ StoredInv(history) /\ today \in Nat /\ rest \subseteq Modes
  BY <1>1 DEF RunOk, ReadinessInv, Readiness!HistoryAssumption, Readiness!Rest
<1>4. f \in Modes BY <1>3, FirstOfTodo
<1>5. \/ p = "check" /\ rest # {}
      \/ p = "dividends" /\ rest = {}
  OBVIOUS
<1> HIDE DEF f, x, p, rest
<1>6. PICK k : k = history' OBVIOUS
<1>7. StoredInv(k) /\ Grows(history, k)
  BY <1>1, <1>3, <1>4, <1>6, PublishedKeeps
<1>8. RunOk(x) BY <1>1, <1>2, <1>3, <1>5 DEF RunOk
<1>9. ASSUME w = Eod PROVE PhaseOk(x, k)
  <2>1. /\ r.end = today
        /\ \A a \in Modes : a \in rest \/ Covered(history, a, r.required)
    BY <1>1, <1>9 DEF ReadinessInv, PhaseOk, rest
  <2>2. \A a \in Modes : Covered(history, a, r.required) => Covered(k, a, r.required)
    BY <1>3, <1>7, CoverGrows DEF StoredInv
  <2> QED BY <1>2, <1>5, <2>1, <2>2 DEF PhaseOk
<1>10. demand' \in Nat /\ faults' \in Nat BY <1>1 DEF ReadinessInv
<1> QED BY <1>1, <1>6, <1>7, <1>8, <1>9, <1>10, WorkerStep

LEMMA DividendsPrepare ==
    ASSUME Readiness!HistoryAssumption, ReadinessInv, NEW w \in Workers, Readiness!SyncDividends(w)
    PROVE  ReadinessInv'
<1> DEFINE r == worker[w]
           x == [r EXCEPT !.pc = "stamp"]
<1>1. /\ RunOk(r) /\ r.pc = "dividends" /\ DOMAIN r = Fields
      /\ worker' = [worker EXCEPT ![w] = x] /\ UNCHANGED <<demand, history, faults>>
  BY DEF ReadinessInv, Readiness!SyncDividends, Readiness!Set, RunOk
<1>2. /\ x.pc = "stamp" /\ x.end = r.end /\ x.required = r.required /\ x.todo = r.todo /\ x.issue = r.issue
      /\ x.failed = r.failed /\ x.published = r.published /\ DOMAIN x = Fields
  BY <1>1 DEF Fields
<1> HIDE DEF x
<1>3. RunOk(x) BY <1>1, <1>2 DEF RunOk
<1>4. w = Eod => PhaseOk(x, history) BY <1>1, <1>2 DEF ReadinessInv, PhaseOk
<1>5. demand' \in Nat /\ faults' \in Nat BY <1>1 DEF ReadinessInv
<1> QED BY <1>1, <1>3, <1>4, <1>5, WorkerMoves

(* The pipeline goes on to its daily synchronisation.                       *)
LEMMA GoesOn ==
    ASSUME Readiness!HistoryAssumption, NEW r, RunOk(r), r.pc \notin {"idle", "queued"},
           NEW x, DOMAIN x = Fields, x.pc = "daily_sync", x.todo = Modes, x.end = r.end,
           x.required = r.required, x.published = r.published,
           x.issue \/ \A a \in Modes : Covered(history, a, r.required)
    PROVE  RunOk(x) /\ PhaseOk(x, history)
<1>1. Modes # {}
  <2>1. Adjustments \in Seq(Readiness!ToSet(Adjustments)) /\ Adjustments # <<>>
    BY DEF Readiness!HistoryAssumption
  <2>2. 1 \in DOMAIN Adjustments BY <2>1
  <2> QED BY <2>2 DEF Modes, Readiness!Modes, Readiness!ToSet
<1>2. RunOk(x) BY <1>1 DEF RunOk
<1>3. PhaseOk(x, history) BY DEF PhaseOk
<1> QED BY <1>2, <1>3

LEMMA StampPrepares ==
    ASSUME Readiness!HistoryAssumption, ReadinessInv, NEW w \in Workers, Readiness!Stamp(w)
    PROVE  ReadinessInv'
<1> DEFINE r == worker[w]
<1>1. /\ RunOk(r) /\ r.pc = "stamp" /\ DOMAIN r = Fields /\ UNCHANGED <<demand, history, faults>>
  BY DEF ReadinessInv, Readiness!Stamp, RunOk
<1>2. demand' \in Nat /\ faults' \in Nat BY <1>1 DEF ReadinessInv
<1>3. CASE w = Eod
  <2> DEFINE x == [r EXCEPT !.pc = "daily_sync", !.todo = Modes]
  <2>1. worker' = [worker EXCEPT ![w] = x] BY <1>3 DEF Readiness!Stamp, Readiness!Set, Modes
  <2>2. /\ x.pc = "daily_sync" /\ x.end = r.end /\ x.required = r.required /\ x.todo = Modes
        /\ x.published = r.published /\ DOMAIN x = Fields
    BY <1>1 DEF Fields
  <2>3. \A a \in Modes : Covered(history, a, r.required) BY <1>1, <1>3 DEF ReadinessInv, PhaseOk
  <2> HIDE DEF x, r
  <2>4. RunOk(x) /\ PhaseOk(x, history) BY <1>1, <2>2, <2>3, GoesOn
  <2> QED BY <1>1, <1>2, <2>1, <2>4, WorkerMoves
<1>4. CASE w # Eod
  <2> DEFINE x == [r EXCEPT !.pc = "completed"]
  <2>1. worker' = [worker EXCEPT ![w] = x] BY <1>4 DEF Readiness!Stamp, Readiness!Set
  <2>2. /\ x.pc = "completed" /\ x.end = r.end /\ x.required = r.required /\ x.todo = r.todo
        /\ x.published = r.published /\ DOMAIN x = Fields
    BY <1>1 DEF Fields
  <2> HIDE DEF x
  <2>3. RunOk(x) BY <1>1, <2>2 DEF RunOk
  <2> QED BY <1>1, <1>2, <1>4, <2>1, <2>3, WorkerMoves
<1> QED BY <1>3, <1>4

LEMMA AbandonedPrepares ==
    ASSUME Readiness!HistoryAssumption, ReadinessInv, NEW w \in Workers, Readiness!Abandoned(w),
           w = Eod => worker[w].pc \notin {"idle", "queued"},
           UNCHANGED history, demand' \in Nat, faults' \in Nat
    PROVE  ReadinessInv'
<1> DEFINE r == worker[w]
<1>1. RunOk(r) /\ DOMAIN r = Fields BY DEF ReadinessInv, RunOk
<1>2. CASE w = Eod
  <2> DEFINE x == [r EXCEPT !.pc = "daily_sync", !.todo = Modes, !.issue = TRUE]
  <2>1. worker' = [worker EXCEPT ![w] = x] BY <1>2 DEF Readiness!Abandoned, Readiness!Set, Modes
  <2>2. /\ x.pc = "daily_sync" /\ x.end = r.end /\ x.required = r.required /\ x.todo = Modes
        /\ x.published = r.published /\ DOMAIN x = Fields
    BY <1>1 DEF Fields
  <2>3. x.issue BY <1>1 DEF Fields
  <2>4. r.pc \notin {"idle", "queued"} BY <1>2
  <2> HIDE DEF x, r
  <2>5. RunOk(x) /\ PhaseOk(x, history) BY <1>1, <2>2, <2>3, <2>4, GoesOn
  <2> QED BY <2>1, <2>5, WorkerMoves
<1>3. CASE w # Eod
  <2>1. PICK x : x = Readiness!Retried(w) OBVIOUS
  <2>2. worker' = [worker EXCEPT ![w] = x] BY <1>3, <2>1 DEF Readiness!Abandoned, Readiness!Set
  <2>3. RunOk(x) BY <2>1, IdleRun DEF Readiness!Retried
  <2> QED BY <1>3, <2>2, <2>3, WorkerMoves
<1> QED BY <1>2, <1>3

LEMMA RefusedPrepares ==
    ASSUME Readiness!HistoryAssumption, ReadinessInv, NEW w \in Workers,
           Readiness!Refused(w) \/ Readiness!SyncFails(w)
    PROVE  ReadinessInv'
<1>1. CASE Readiness!Refused(w)
  <2>1. /\ Readiness!Abandoned(w) /\ UNCHANGED <<demand, history, faults>>
        /\ w = Eod => worker[w].pc \notin {"idle", "queued"}
    BY <1>1 DEF Readiness!Refused
  <2>2. demand' \in Nat /\ faults' \in Nat BY <2>1 DEF ReadinessInv
  <2> QED BY <2>1, <2>2, AbandonedPrepares
<1>2. CASE Readiness!SyncFails(w)
  <2>1. /\ Readiness!Abandoned(w) /\ UNCHANGED <<demand, history>> /\ faults' = faults + 1
        /\ worker[w].pc \notin {"idle", "queued"}
    BY <1>2 DEF Readiness!SyncFails, Readiness!Fault
  <2>2. demand' \in Nat /\ faults' \in Nat BY <2>1 DEF ReadinessInv
  <2> QED BY <2>1, <2>2, AbandonedPrepares
<1> QED BY <1>1, <1>2

-----------------------------------------------------------------------------
(* The messages and the API.                                                *)

LEMMA AcquirePrepares ==
    ASSUME Readiness!HistoryAssumption, ReadinessInv, NEW b \in Bootstraps, Readiness!Acquire(b)
    PROVE  ReadinessInv'
<1>1. b \in Workers /\ b # Eod BY DEF Workers, Readiness!HistoryAssumption
<1>2. UNCHANGED <<demand, history, faults>> /\ demand' \in Nat /\ faults' \in Nat
  BY DEF ReadinessInv, Readiness!Acquire
<1>3. CASE lock = Free
  <2> DEFINE r == worker[b]
             x == [r EXCEPT !.pc = "begin", !.required = Readiness!Required, !.end = today - 1, !.todo = Modes]
  <2>1. worker' = [worker EXCEPT ![b] = x] BY <1>3 DEF Readiness!Acquire, Readiness!Set, Modes
  <2>2. RunOk(r) /\ DOMAIN r = Fields BY <1>1 DEF ReadinessInv, RunOk
  <2>3. /\ x.pc = "begin" /\ x.end = today - 1 /\ x.required = Readiness!Required /\ x.todo = Modes
        /\ x.published = r.published /\ DOMAIN x = Fields
    BY <2>2 DEF Fields
  <2>4. today - 1 \in 1..today BY DEF Readiness!HistoryAssumption
  <2>5. Modes # {}
    <3>1. Adjustments \in Seq(Readiness!ToSet(Adjustments)) /\ Adjustments # <<>>
      BY DEF Readiness!HistoryAssumption
    <3>2. 1 \in DOMAIN Adjustments BY <3>1
    <3> QED BY <3>2 DEF Modes, Readiness!Modes, Readiness!ToSet
  <2>6. Readiness!Required \in Nat /\ 1 <= Readiness!Required BY EnoughRequired DEF ReadinessInv
  <2>7. \A e \in 1..today : e \in 0..today BY DEF Readiness!HistoryAssumption
  <2> HIDE DEF x
  <2>8. RunOk(x) BY <2>2, <2>3, <2>4, <2>5, <2>6, <2>7 DEF RunOk
  <2> QED BY <1>1, <1>2, <2>1, <2>8, WorkerMoves
<1>4. CASE lock # Free
  <2>1. worker' = [worker EXCEPT ![b] = Readiness!Idle] BY <1>4 DEF Readiness!Acquire, Readiness!Set
  <2> QED BY <1>1, <1>2, <2>1, IdleRun, WorkerMoves
<1> QED BY <1>3, <1>4

LEMMA TaskEnds ==
    ASSUME Readiness!HistoryAssumption, ReadinessInv, NEW b \in Bootstraps,
           Readiness!Complete(b) \/ Readiness!Crash(b) \/ Readiness!Stall(b)
    PROVE  ReadinessInv'
<1>1. b \in Workers /\ b # Eod BY DEF Workers, Readiness!HistoryAssumption
<1>2. UNCHANGED <<demand, history>> /\ demand' \in Nat /\ faults' \in Nat
  BY DEF ReadinessInv, Readiness!Complete, Readiness!Crash, Readiness!Stall, Readiness!Fault
<1>3. CASE Readiness!Complete(b)
  <2>1. worker' = [worker EXCEPT ![b] = Readiness!Idle] BY <1>3 DEF Readiness!Complete, Readiness!Set
  <2> QED BY <1>1, <1>2, <2>1, IdleRun, WorkerMoves
<1>4. CASE Readiness!Crash(b)
  <2>1. PICK x : x = [Readiness!Idle EXCEPT !.pc = "queued", !.retries = worker[b].retries] OBVIOUS
  <2>2. worker' = [worker EXCEPT ![b] = x] BY <1>4, <2>1 DEF Readiness!Crash, Readiness!Set
  <2>3. RunOk(x) BY <2>1, IdleRun
  <2> QED BY <1>1, <1>2, <2>2, <2>3, WorkerMoves
<1>5. CASE Readiness!Stall(b)
  <2>1. UNCHANGED worker BY <1>5 DEF Readiness!Stall
  <2> QED BY <1>2, <2>1, NobodyMoves
<1> QED BY <1>3, <1>4, <1>5

LEMMA ChangesAreSent ==
    ASSUME Readiness!HistoryAssumption, ReadinessInv, NEW n \in Depths,
           Readiness!AddStock(n) \/ Readiness!ChangeTarget(n)
    PROVE  ReadinessInv'
<1>1. UNCHANGED <<history, faults>> /\ demand' \in Nat /\ faults' \in Nat
  BY DEF ReadinessInv, Readiness!AddStock, Readiness!ChangeTarget, Readiness!HistoryAssumption
<1>2. Readiness!Enqueue BY DEF Readiness!AddStock, Readiness!ChangeTarget
<1>3. CASE UNCHANGED worker BY <1>1, <1>3, NobodyMoves
<1>4. ASSUME NEW b \in Bootstraps, Readiness!Set(b, [Readiness!Idle EXCEPT !.pc = "queued"])
      PROVE  ReadinessInv'
  <2>1. b \in Workers /\ b # Eod BY DEF Workers, Readiness!HistoryAssumption
  <2>2. PICK x : x = [Readiness!Idle EXCEPT !.pc = "queued"] OBVIOUS
  <2>3. worker' = [worker EXCEPT ![b] = x] BY <1>4, <2>2 DEF Readiness!Set
  <2>4. RunOk(x) BY <2>2, IdleRun
  <2> QED BY <1>1, <2>1, <2>3, <2>4, WorkerMoves
<1> QED BY <1>2, <1>3, <1>4 DEF Readiness!Enqueue

-----------------------------------------------------------------------------
(* The steps of the pipeline.                                               *)

LEMMA SendEodPrepares ==
    ASSUME Readiness!HistoryAssumption, ReadinessInv, Readiness!SendEod
    PROVE  ReadinessInv'
<1> DEFINE x == [Readiness!Idle EXCEPT !.pc = "readiness", !.required = Readiness!Required, !.end = today]
<1>1. worker' = [worker EXCEPT ![Eod] = x] /\ UNCHANGED <<demand, history, faults>> /\ Eod \in Workers
  BY DEF Readiness!SendEod, Readiness!Set, Workers
<1>2. /\ x.pc = "readiness" /\ x.end = today /\ x.required = Readiness!Required /\ x.todo = {}
      /\ x.published = {} /\ DOMAIN x = Fields
  BY DEF Readiness!Idle, Fields
<1>3. Readiness!Required \in Nat /\ 1 <= Readiness!Required BY EnoughRequired DEF ReadinessInv
<1>4. today \in 1..today /\ today \in 0..today BY DEF Readiness!HistoryAssumption
<1> HIDE DEF x
<1>5. RunOk(x) BY <1>2, <1>3, <1>4 DEF RunOk
<1>6. PhaseOk(x, history) BY <1>2 DEF PhaseOk
<1>7. demand' \in Nat /\ faults' \in Nat BY <1>1 DEF ReadinessInv
<1> QED BY <1>1, <1>5, <1>6, <1>7, WorkerMoves

LEMMA ReadinessPrepares ==
    ASSUME Readiness!HistoryAssumption, ReadinessInv, Readiness!Readiness
    PROVE  ReadinessInv'
<1> DEFINE r == worker[Eod]
           missing == {a \in Modes : Readiness!NeedsHistory(a, r.required, r.end)}
<1>1. /\ RunOk(r) /\ r.pc = "readiness" /\ DOMAIN r = Fields /\ UNCHANGED <<demand, history, faults>>
      /\ Eod \in Workers /\ StoredInv(history)
  BY DEF ReadinessInv, Readiness!Readiness, RunOk, Workers
<1>2. demand' \in Nat /\ faults' \in Nat BY <1>1 DEF ReadinessInv
<1>3. /\ r.required \in Nat /\ r.end \in 1..today /\ 1 <= r.required /\ r.end = today
      /\ r.published \subseteq Modes
  BY <1>1 DEF RunOk, ReadinessInv, PhaseOk
<1>4. \A a \in Modes : a \in missing \/ Covered(history, a, r.required) BY <1>1, <1>3, NotNeeded
<1>5. CASE missing = {}
  <2> DEFINE x == [r EXCEPT !.pc = "daily_sync", !.todo = Modes]
  <2>1. worker' = [worker EXCEPT ![Eod] = x]
    BY <1>5 DEF Readiness!Readiness, Readiness!Set, Modes
  <2>2. /\ x.pc = "daily_sync" /\ x.end = r.end /\ x.required = r.required /\ x.todo = Modes
        /\ x.published = r.published /\ DOMAIN x = Fields
    BY <1>1 DEF Fields
  <2>3. \A a \in Modes : Covered(history, a, r.required) BY <1>4, <1>5
  <2> HIDE DEF x, r
  <2>4. RunOk(x) /\ PhaseOk(x, history) BY <1>1, <2>2, <2>3, GoesOn
  <2> QED BY <1>1, <1>2, <2>1, <2>4, WorkerMoves
<1>6. CASE missing # {}
  <2> DEFINE x == [r EXCEPT !.pc = "begin", !.todo = missing]
  <2>1. worker' = [worker EXCEPT ![Eod] = x]
    BY <1>6 DEF Readiness!Readiness, Readiness!Set, Modes
  <2>2. /\ x.pc = "begin" /\ x.end = r.end /\ x.required = r.required /\ x.todo = missing
        /\ x.published = r.published /\ DOMAIN x = Fields
    BY <1>1 DEF Fields
  <2>3. missing \subseteq Modes OBVIOUS
  <2>4. r.end \in 0..today BY <1>1 DEF RunOk
  <2> HIDE DEF x, r, missing
  <2>5. RunOk(x) BY <1>3, <1>6, <2>2, <2>3, <2>4 DEF RunOk
  <2>6. PhaseOk(x, history) BY <1>3, <1>4, <2>2 DEF PhaseOk
  <2> QED BY <1>1, <1>2, <2>1, <2>5, <2>6, WorkerMoves
<1> QED BY <1>5, <1>6

(* The daily synchronisation brings today's bar.                            *)
LEMMA RecentBringsToday ==
    ASSUME Readiness!HistoryAssumption, StoredInv(history), NEW a \in Modes,
           NEW r, RunOk(r), r.pc = "daily_sync", NEW k, k = Readiness!Recent(a, r)
    PROVE  StoredInv(k) /\ Grows(history, k) /\ today \in k[a].bars
<1>1. today \in Nat /\ today \in 1..today BY DEF Readiness!HistoryAssumption
<1>2. r.required \in Nat /\ 1 <= r.required BY DEF RunOk
<1> DEFINE newest == Readiness!Latest(a, today)
<1>3. CASE newest = Readiness!None
  <2>1. k = Readiness!Deepened(a, r.required, today) BY <1>3 DEF Readiness!Recent
  <2> QED BY <1>1, <1>2, <2>1, DeepenedKeeps
<1>4. CASE newest # Readiness!None
  <2> DEFINE S == {1, newest - Overlap}
             m == Readiness!Max(S)
             D == m..today
  <2>1. newest \in Nat /\ newest <= today /\ Overlap \in Nat
    BY <1>1, LatestStored DEF Readiness!HistoryAssumption
  <2> HIDE DEF newest
  <2>2. \E x \in S : \A y \in S : x >= y
    <3>1. CASE 1 >= newest - Overlap BY <2>1, <3>1
    <3>2. CASE ~(1 >= newest - Overlap) BY <2>1, <3>2
    <3> QED BY <3>1, <3>2
  <2>3. m \in S /\ \A y \in S : m >= y BY <2>2 DEF Readiness!Max
  <2>4. m \in Int /\ 1 <= m /\ m <= today BY <1>1, <2>1, <2>3
  <2>5. k = [history EXCEPT ![a].bars = @ \union D] BY <1>4 DEF Readiness!Recent, newest
  <2> HIDE DEF m
  <2>6. D \in SUBSET (1..today) /\ today \in D BY <1>1, <2>4
  <2> HIDE DEF D
  <2> QED BY <2>5, <2>6, BarsAdded
<1> QED BY <1>3, <1>4

LEMMA DailySyncPrepares ==
    ASSUME Readiness!HistoryAssumption, ReadinessInv, NEW fails \in BOOLEAN, Readiness!DailySync(fails)
    PROVE  ReadinessInv'
<1> DEFINE r == worker[Eod]
           f == Readiness!First(r.todo)
           rest == Readiness!Rest(r.todo)
           lost == IF fails THEN r.failed \union {f} ELSE r.failed
           p == IF rest # {} THEN r.pc ELSE "dividend_sync"
           x == [r EXCEPT !.failed = lost, !.todo = rest, !.pc = p]
<1>1. /\ RunOk(r) /\ r.pc = "daily_sync" /\ DOMAIN r = Fields /\ Eod \in Workers /\ StoredInv(history)
      /\ worker' = [worker EXCEPT ![Eod] = x] /\ UNCHANGED demand
      /\ IF fails THEN UNCHANGED history ELSE history' = Readiness!Recent(f, r)
      /\ IF fails THEN faults' = faults + 1 ELSE UNCHANGED faults
  BY DEF ReadinessInv, Readiness!DailySync, Readiness!Set, Readiness!Fault, RunOk, Workers
<1>2. /\ x.pc = p /\ x.end = r.end /\ x.required = r.required /\ x.todo = rest
      /\ x.issue = r.issue /\ x.failed = lost /\ x.published = r.published /\ DOMAIN x = Fields
  BY <1>1 DEF Fields
<1>3. /\ r.required \in Nat /\ r.todo \in SUBSET Modes /\ r.todo # {} /\ r.end \in 1..today
      /\ 1 <= r.required /\ today \in Nat /\ rest \subseteq Modes
  BY <1>1 DEF RunOk, Readiness!HistoryAssumption, Readiness!Rest
<1>4. f \in Modes BY <1>3, FirstOfTodo
<1>5. \/ p = "daily_sync" /\ rest # {}
      \/ p = "dividend_sync" /\ rest = {}
  BY <1>1
<1>6. rest = r.todo \ {f} BY DEF Readiness!Rest
<1>7. f \notin lost => ~fails OBVIOUS
<1>8. r.failed \subseteq lost OBVIOUS
<1> HIDE DEF f, rest, lost, p, x
<1>9. PICK k : k = history' OBVIOUS
<1>10. /\ StoredInv(k) /\ Grows(history, k)
       /\ ~fails => today \in k[f].bars
  <2>1. CASE fails BY <1>1, <1>9, <2>1, GrowsAlways DEF StoredInv
  <2>2. CASE ~fails BY <1>1, <1>4, <1>9, <2>2, RecentBringsToday
  <2> QED BY <2>1, <2>2
<1>11. RunOk(x) BY <1>1, <1>2, <1>3, <1>5 DEF RunOk
<1>12. PhaseOk(x, k)
  <2>1. /\ ~r.issue => \A a \in Modes : Covered(history, a, r.required)
        /\ \A a \in Modes : a \in r.todo \/ a \in r.failed \/ today \in history[a].bars
    BY <1>1 DEF ReadinessInv, PhaseOk
  <2>2. \A a \in Modes : Covered(history, a, r.required) => Covered(k, a, r.required)
    <3>1. history \in [Modes -> Stored] /\ k \in [Modes -> Stored] BY <1>1, <1>10 DEF StoredInv
    <3> QED BY <1>3, <1>10, <3>1, CoverGrows
  <2>3. \A a \in Modes : today \in history[a].bars => today \in k[a].bars BY <1>10 DEF Grows
  <2>4. \A a \in Modes : a \in rest \/ a \in lost \/ today \in k[a].bars
    BY <1>6, <1>7, <1>8, <1>10, <2>1, <2>3
  <2> QED BY <1>2, <1>5, <2>1, <2>2, <2>4 DEF PhaseOk
<1>13. demand' \in Nat /\ faults' \in Nat BY <1>1 DEF ReadinessInv
<1> QED BY <1>1, <1>9, <1>10, <1>11, <1>12, <1>13, WorkerStep

LEMMA DividendSyncPrepares ==
    ASSUME Readiness!HistoryAssumption, ReadinessInv, NEW fails \in BOOLEAN, Readiness!DividendSync(fails)
    PROVE  ReadinessInv'
<1> DEFINE r == worker[Eod]
           x == [r EXCEPT !.pc = "adjustment_ready", !.dividends = ~fails]
<1>1. /\ RunOk(r) /\ r.pc = "dividend_sync" /\ DOMAIN r = Fields /\ Eod \in Workers
      /\ worker' = [worker EXCEPT ![Eod] = x] /\ UNCHANGED <<demand, history>>
      /\ IF fails THEN faults' = faults + 1 ELSE UNCHANGED faults
  BY DEF ReadinessInv, Readiness!DividendSync, Readiness!Set, Readiness!Fault, RunOk, Workers
<1>2. /\ x.pc = "adjustment_ready" /\ x.end = r.end /\ x.required = r.required /\ x.todo = r.todo
      /\ x.issue = r.issue /\ x.failed = r.failed /\ x.published = r.published /\ DOMAIN x = Fields
  BY <1>1 DEF Fields
<1> HIDE DEF x
<1>3. RunOk(x) BY <1>1, <1>2 DEF RunOk
<1>4. PhaseOk(x, history) BY <1>1, <1>2 DEF ReadinessInv, PhaseOk
<1>5. demand' \in Nat /\ faults' \in Nat BY <1>1 DEF ReadinessInv
<1> QED BY <1>1, <1>3, <1>4, <1>5, WorkerMoves

LEMMA AdjustmentReadyPrepares ==
    ASSUME Readiness!HistoryAssumption, ReadinessInv, Readiness!AdjustmentReady
    PROVE  ReadinessInv'
<1> DEFINE r == worker[Eod]
           T == {a \in Modes : today \in history[a].bars /\ a \notin r.failed /\ ~r.issue}
           x == [r EXCEPT !.pc = "snapshots", !.todo = T]
<1>1. /\ RunOk(r) /\ r.pc = "adjustment_ready" /\ DOMAIN r = Fields /\ Eod \in Workers
      /\ worker' = [worker EXCEPT ![Eod] = x] /\ UNCHANGED <<demand, history, faults>>
  BY DEF ReadinessInv, Readiness!AdjustmentReady, Readiness!Set, RunOk, Workers, Modes
<1>2. /\ x.pc = "snapshots" /\ x.end = r.end /\ x.required = r.required /\ x.todo = T
      /\ x.issue = r.issue /\ x.failed = r.failed /\ x.published = r.published /\ DOMAIN x = Fields
  BY <1>1 DEF Fields
<1>3. T \subseteq Modes OBVIOUS
<1> HIDE DEF x
<1>4. RunOk(x) BY <1>1, <1>2, <1>3 DEF RunOk
<1>5. PhaseOk(x, history) BY <1>1, <1>2 DEF ReadinessInv, PhaseOk
<1>6. demand' \in Nat /\ faults' \in Nat BY <1>1 DEF ReadinessInv
<1> QED BY <1>1, <1>4, <1>5, <1>6, WorkerMoves

LEMMA SnapshotsPrepare ==
    ASSUME Readiness!HistoryAssumption, ReadinessInv, Readiness!Snapshots
    PROVE  ReadinessInv'
<1> DEFINE r == worker[Eod]
           f == Readiness!First(r.todo)
           rest == Readiness!Rest(r.todo)
           x == [r EXCEPT !.todo = rest, !.published = r.published \union {f}]
<1>1. /\ RunOk(r) /\ r.pc = "snapshots" /\ r.todo # {} /\ r.todo \in SUBSET Modes /\ DOMAIN r = Fields
      /\ Eod \in Workers /\ StoredInv(history) /\ UNCHANGED <<demand, faults>>
      /\ r.required \in Nat /\ r.published \subseteq Modes
  BY DEF ReadinessInv, Readiness!Snapshots, RunOk, Workers
<1>2. f \in r.todo /\ f \in Modes BY <1>1, FirstOfTodo
<1>3. today \in 1..today /\ today \in Nat /\ today # 0 BY DEF Readiness!HistoryAssumption
<1>4. today \in history[f].bars BY <1>1, <1>2 DEF ReadinessInv, PhaseOk
<1>5. Readiness!Latest(f, today) = today
  <2> DEFINE l == Readiness!Latest(f, today)
  <2>1. l \in 0..today /\ today <= l BY <1>1, <1>2, <1>3, <1>4, LatestStored
  <2> HIDE DEF l
  <2> QED BY <1>3, <2>1 DEF l
<1>6. Readiness!Publishable(f, today)
  <2>1. history[f].through \in 0..today BY <1>1, <1>2 DEF StoredInv, Stored
  <2> QED BY <1>3, <1>5, <2>1 DEF Readiness!Publishable, Readiness!None
<1>7. /\ worker' = [worker EXCEPT ![Eod] = x]
      /\ history' = [history EXCEPT ![f].through = Readiness!Latest(f, today)]
  BY <1>6 DEF Readiness!Snapshots, Readiness!Set
<1>8. /\ x.pc = "snapshots" /\ x.end = r.end /\ x.required = r.required /\ x.todo = rest
      /\ x.issue = r.issue /\ x.failed = r.failed /\ x.published = r.published \union {f} /\ DOMAIN x = Fields
  BY <1>1 DEF Fields
<1>9. rest = r.todo \ {f} BY DEF Readiness!Rest
<1> HIDE DEF f, rest, x
<1>10. PICK k : k = history' OBVIOUS
<1>11. /\ StoredInv(k) /\ Grows(history, k) /\ k[f].through = today
       /\ \A m \in Modes : k[m].bars = history[m].bars /\ (m # f => k[m] = history[m])
  <2>1. k = [history EXCEPT ![f].through = Readiness!Latest(f, today)] BY <1>7, <1>10
  <2>2. StoredInv(history) /\ f \in Modes /\ today \in 1..today BY <1>1, <1>2, <1>3
  <2>3. StoredInv(k) /\ Grows(history, k) BY <1>6, <2>1, <2>2, PublishedKeeps
  <2>4. k[f].through = Readiness!Latest(f, today) BY <1>6, <2>1, <2>2, PublishedKeeps
  <2>5. \A m \in Modes : k[m].bars = history[m].bars /\ (m # f => k[m] = history[m])
    BY <1>6, <2>1, <2>2, PublishedKeeps
  <2> QED BY <1>5, <2>3, <2>4, <2>5
<1>12. rest \subseteq Modes /\ x.published \subseteq Modes BY <1>1, <1>2, <1>8, <1>9
<1>13. RunOk(x) BY <1>1, <1>8, <1>12 DEF RunOk
<1>14. PhaseOk(x, k)
  <2>1. /\ ~r.issue => \A a \in Modes : Covered(history, a, r.required)
        /\ \A a \in r.todo : today \in history[a].bars
        /\ ~r.issue /\ r.failed = {} =>
              \A a \in Modes : /\ today \in history[a].bars
                               /\ a \in r.todo \/ (a \in r.published /\ history[a].through = today)
    BY <1>1 DEF ReadinessInv, PhaseOk
  <2>2. ~r.issue => \A a \in Modes : Covered(k, a, r.required)
    BY <1>1, <1>3, <1>11, <2>1, CoverGrows DEF StoredInv
  <2>3. \A a \in rest : today \in k[a].bars BY <1>9, <1>11, <1>12, <2>1
  <2>4. ~r.issue /\ r.failed = {} =>
           \A a \in Modes : /\ today \in k[a].bars
                            /\ a \in rest \/ (a \in x.published /\ k[a].through = today)
    BY <1>8, <1>9, <1>11, <2>1
  <2> QED BY <1>8, <2>2, <2>3, <2>4 DEF PhaseOk
<1>15. demand' \in Nat /\ faults' \in Nat BY <1>1 DEF ReadinessInv
<1> QED BY <1>1, <1>7, <1>10, <1>11, <1>13, <1>14, <1>15, WorkerStep

LEMMA PipelineEnds ==
    ASSUME Readiness!HistoryAssumption, ReadinessInv, Readiness!States \/ Readiness!EodFails
    PROVE  ReadinessInv'
<1>1. /\ worker' = [worker EXCEPT ![Eod] = Readiness!Idle] /\ UNCHANGED <<demand, history>>
      /\ faults' \in {faults, faults + 1} /\ Eod \in Workers
  BY DEF Readiness!States, Readiness!EodFails, Readiness!Set, Readiness!Fault, Workers
<1>2. demand' \in Nat /\ faults' \in Nat BY <1>1 DEF ReadinessInv
<1> QED BY <1>1, <1>2, IdleRun, WorkerMoves

-----------------------------------------------------------------------------
(* What the stored bars are worth.                                          *)

LEMMA RecentIsReached ==
    ASSUME today \in Nat, NEW B \in SUBSET (1..today), today \in B, Readiness!Gapless(B),
           NEW n \in Nat, 1 <= n, NEW e \in 1..today, Readiness!LastBars(n, e) \subseteq B
    PROVE  Readiness!LastBars(n, today) \subseteq B
<1> SUFFICES ASSUME NEW d \in 1..today, today - n < d
             PROVE  d \in B
  BY DEF Readiness!LastBars
<1>1. CASE d <= e
  <2>1. d \in 1..e /\ e - n < d BY <1>1
  <2> QED BY <2>1 DEF Readiness!LastBars
<1>2. CASE ~(d <= e)
  <2>1. e \in 1..e /\ e - n < e OBVIOUS
  <2>2. e \in B BY <2>1 DEF Readiness!LastBars
  <2>3. e..today \subseteq B BY <2>2 DEF Readiness!Gapless
  <2>4. d \in e..today BY <1>2
  <2> QED BY <2>3, <2>4
<1> QED BY <1>1, <1>2

LEMMA CountedIsRecent ==
    ASSUME today \in Nat, NEW B \in SUBSET (1..today), today \in B, Readiness!Gapless(B),
           NEW n \in Nat, n <= Cardinality(B)
    PROVE  Readiness!LastBars(n, today) \subseteq B
<1> SUFFICES ASSUME NEW d \in 1..today, today - n < d, d \notin B
             PROVE  FALSE
  BY DEF Readiness!LastBars
<1>1. ASSUME NEW b \in B PROVE b \in (d + 1)..today
  <2>1. b..today \subseteq B BY DEF Readiness!Gapless
  <2>2. b \in 1..today /\ d \in Nat OBVIOUS
  <2>3. ~(b <= d)
    <3>1. b <= d => d \in b..today BY <2>2
    <3> QED BY <2>1, <3>1
  <2> QED BY <2>2, <2>3
<1>2. B \subseteq (d + 1)..today BY <1>1
<1>3. d + 1 \in Int /\ today \in Int /\ d + 1 <= today
  <2>1. d \in Nat /\ d <= today /\ d # today OBVIOUS
  <2> QED BY <2>1
<1>4. IsFiniteSet((d + 1)..today) /\ Cardinality((d + 1)..today) = today - (d + 1) + 1
  BY <1>3, FS_Interval
<1>5. Cardinality(B) <= Cardinality((d + 1)..today) /\ IsFiniteSet(B) BY <1>2, <1>4, FS_Subset
<1>6. Cardinality(B) \in Nat BY <1>5, FS_CardinalityType
<1> QED BY <1>4, <1>5, <1>6

LEMMA CoveredIsRecent ==
    ASSUME Readiness!HistoryAssumption, NEW h, StoredInv(h), NEW a \in Modes, NEW n \in Nat, 1 <= n,
           Covered(h, a, n), today \in h[a].bars, Readiness!Gapless(h[a].bars)
    PROVE  Readiness!LastBars(n, today) \subseteq h[a].bars
<1>1. h[a].bars \in SUBSET (1..today) /\ h[a].depth \in Nat /\ today \in Nat
  BY DEF StoredInv, Stored, Readiness!HistoryAssumption
<1>2. CASE n <= Cardinality(h[a].bars) BY <1>1, <1>2, CountedIsRecent
<1>3. CASE n <= h[a].depth
  <2>1. h[a].depth # 0 BY <1>1, <1>3
  <2>2. PICK e \in 1..today : Readiness!LastBars(h[a].depth, e) \subseteq h[a].bars
    BY <2>1 DEF StoredInv
  <2>3. Readiness!LastBars(n, e) \subseteq Readiness!LastBars(h[a].depth, e)
    BY <1>1, <1>3 DEF Readiness!LastBars
  <2>4. Readiness!LastBars(n, e) \subseteq h[a].bars BY <2>2, <2>3
  <2> QED BY <1>1, <2>4, RecentIsReached
<1> QED BY <1>2, <1>3 DEF Covered

-----------------------------------------------------------------------------
LEMMA ReadinessInit ==
    ASSUME Readiness!HistoryAssumption, Readiness!Init
    PROVE  ReadinessInv
<1>1. demand \in Nat /\ faults \in Nat
  <2>1. Depths \in SUBSET Nat /\ Depths # {} BY DEF Readiness!HistoryAssumption
  <2>2. \E m \in Depths : \A n \in Depths : m <= n BY <2>1, LeastExists
  <2>3. Readiness!Min(Depths) \in Depths BY <2>2 DEF Readiness!Min
  <2> QED BY <2>1, <2>3 DEF Readiness!Init
<1>2. PICK d \in Earlier :
        history = [a \in Modes |-> [bars |-> Readiness!LastBars(MinBars, d), through |-> d,
                                    depth |-> IF d = Readiness!None THEN 0 ELSE MinBars]]
  BY DEF Readiness!Init, Modes
<1>3. d \in 0..today /\ today \in Nat /\ MinBars \in Nat BY DEF Readiness!HistoryAssumption
<1>4. StoredInv(history)
  <2> DEFINE s == [bars |-> Readiness!LastBars(MinBars, d), through |-> d,
                   depth |-> IF d = Readiness!None THEN 0 ELSE MinBars]
  <2>1. Readiness!LastBars(MinBars, d) \in SUBSET (1..today) BY <1>3 DEF Readiness!LastBars
  <2>2. s \in Stored BY <1>3, <2>1 DEF Stored
  <2>3. s.depth # 0 => d \in 1..today /\ s.depth = MinBars BY <1>3 DEF Readiness!None
  <2>4. s.bars = Readiness!LastBars(MinBars, d) OBVIOUS
  <2> HIDE DEF s
  <2>5. history \in [Modes -> Stored] /\ \A a \in Modes : history[a] = s BY <1>2, <2>2 DEF s
  <2> QED BY <2>3, <2>4, <2>5 DEF StoredInv
<1>5. worker = [w \in Workers |-> Readiness!Idle] BY DEF Readiness!Init, Workers
<1>6. Eod \in Workers BY DEF Workers
<1>7. DOMAIN worker = Workers /\ (\A w \in Workers : RunOk(worker[w])) /\ PhaseOk(worker[Eod], history)
  BY <1>5, <1>6, IdleRun
<1> QED BY <1>1, <1>4, <1>7 DEF ReadinessInv

LEMMA EnsureReadyPrepares ==
    ASSUME Readiness!HistoryAssumption, ReadinessInv, NEW w \in Workers, Readiness!EnsureReady(w)
    PROVE  ReadinessInv'
BY BeginPrepares, CheckPrepares, SyncHistoryPrepares, MaterializePrepares, DividendsPrepare, StampPrepares,
   RefusedPrepares DEF Readiness!EnsureReady

LEMMA ReadinessNext ==
    ASSUME Readiness!HistoryAssumption, ReadinessInv, [Readiness!Next]_(Readiness!vars)
    PROVE  ReadinessInv'
<1>1. Eod \in Workers /\ \A b \in Bootstraps : b \in Workers BY DEF Workers
<1>2. CASE UNCHANGED Readiness!vars
  <2>1. UNCHANGED <<worker, history>> /\ demand' \in Nat /\ faults' \in Nat
    BY <1>2 DEF Readiness!vars, ReadinessInv
  <2> QED BY <2>1, NobodyMoves
<1>3. CASE Readiness!Expire
  <2>1. UNCHANGED <<worker, history>> /\ demand' \in Nat /\ faults' \in Nat
    BY <1>3 DEF Readiness!Expire, ReadinessInv
  <2> QED BY <2>1, NobodyMoves
<1>4. CASE Readiness!EodStep
  <2>1. FALSE \in BOOLEAN OBVIOUS
  <2> QED BY <1>1, <1>4, <2>1, SendEodPrepares, ReadinessPrepares, EnsureReadyPrepares, DailySyncPrepares,
             DividendSyncPrepares, AdjustmentReadyPrepares, SnapshotsPrepare, PipelineEnds
          DEF Readiness!EodStep
<1>5. CASE Readiness!EodFails BY <1>5, PipelineEnds
<1>6. CASE Readiness!SyncFails(Eod) BY <1>1, <1>6, RefusedPrepares
<1>7. CASE Readiness!DailySync(TRUE) \/ Readiness!DividendSync(TRUE)
  <2>1. TRUE \in BOOLEAN OBVIOUS
  <2> QED BY <1>7, <2>1, DailySyncPrepares, DividendSyncPrepares
<1>8. CASE \E n \in Depths : Readiness!AddStock(n) \/ Readiness!ChangeTarget(n)
  BY <1>8, ChangesAreSent
<1>9. CASE \E b \in Bootstraps : \/ Readiness!Acquire(b) \/ Readiness!EnsureReady(b) \/ Readiness!SyncFails(b)
                                 \/ Readiness!Complete(b) \/ Readiness!Crash(b) \/ Readiness!Stall(b)
  <2>1. PICK b \in Bootstraps : \/ Readiness!Acquire(b) \/ Readiness!EnsureReady(b) \/ Readiness!SyncFails(b)
                                \/ Readiness!Complete(b) \/ Readiness!Crash(b) \/ Readiness!Stall(b)
    BY <1>9
  <2> QED BY <1>1, <2>1, AcquirePrepares, EnsureReadyPrepares, RefusedPrepares, TaskEnds
<1> QED BY <1>2, <1>3, <1>4, <1>5, <1>6, <1>7, <1>8, <1>9 DEF Readiness!Next

(* What the tasks and the pipeline know of the stored history is right, in  *)
(* whatever order messages are lost, repeated and abandoned.                *)
THEOREM HistoryInvariant ==
    ASSUME Readiness!HistoryAssumption
    PROVE  Readiness!Spec => []ReadinessInv
<1>1. Readiness!Init => ReadinessInv BY ReadinessInit
<1>2. ReadinessInv /\ [Readiness!Next]_(Readiness!vars) => ReadinessInv' BY ReadinessNext
<1> QED BY <1>1, <1>2, PTL DEF Readiness!Spec

(* Only the last step of the pipeline ends a clean run.                     *)
LEMMA CleanRunEnds ==
    ASSUME Readiness!HistoryAssumption, ReadinessInv, [Readiness!Next]_(Readiness!vars),
           worker[Eod].pc = "snapshots", worker[Eod].todo = {}, worker'[Eod] = Readiness!Idle, faults' = faults
    PROVE  Readiness!States
<1>1. Eod \in Workers /\ Eod \notin Bootstraps BY DEF Workers, Readiness!HistoryAssumption
<1>2. worker'[Eod] # worker[Eod]
  <2>1. Readiness!Idle.pc = "idle" BY DEF Readiness!Idle
  <2> QED BY <2>1
<1>3. faults' # faults + 1 BY DEF ReadinessInv
<1>4. \A b \in Bootstraps : \A x : ~Readiness!Set(b, x)
  BY <1>1, <1>2 DEF Readiness!Set, ReadinessInv
<1>5. UNCHANGED worker => FALSE BY <1>2
<1>6. ~Readiness!Fault BY <1>3 DEF Readiness!Fault
<1>7. ~Readiness!EnsureReady(Eod)
  BY DEF Readiness!EnsureReady, Readiness!Begin, Readiness!Check, Readiness!SyncHistory, Readiness!Materialize,
         Readiness!SyncDividends, Readiness!Stamp, Readiness!Refused
<1>8. Readiness!EodStep => Readiness!States
  BY <1>7 DEF Readiness!EodStep, Readiness!SendEod, Readiness!Readiness, Readiness!DailySync,
              Readiness!DividendSync, Readiness!AdjustmentReady, Readiness!Snapshots
<1>9. /\ ~Readiness!Expire /\ ~Readiness!EodFails /\ ~Readiness!SyncFails(Eod) /\ ~Readiness!DailySync(TRUE)
      /\ ~Readiness!DividendSync(TRUE) /\ ~UNCHANGED Readiness!vars
  BY <1>5, <1>6 DEF Readiness!Expire, Readiness!EodFails, Readiness!SyncFails, Readiness!DailySync,
                    Readiness!DividendSync, Readiness!vars
<1>10. ~Readiness!Enqueue BY <1>4, <1>5 DEF Readiness!Enqueue
<1>11. \A n \in Depths : ~Readiness!AddStock(n) /\ ~Readiness!ChangeTarget(n)
  BY <1>10 DEF Readiness!AddStock, Readiness!ChangeTarget
<1>12. ASSUME NEW b \in Bootstraps
       PROVE  /\ ~Readiness!Acquire(b) /\ ~Readiness!SyncFails(b) /\ ~Readiness!Complete(b)
              /\ ~Readiness!Crash(b) /\ ~Readiness!Stall(b) /\ ~Readiness!EnsureReady(b)
  <2>1. b # Eod BY <1>1
  <2>2. ~Readiness!Acquire(b) BY <1>4 DEF Readiness!Acquire
  <2>3. ~Readiness!SyncFails(b) /\ ~Readiness!Crash(b) /\ ~Readiness!Stall(b)
    BY <1>6 DEF Readiness!SyncFails, Readiness!Crash, Readiness!Stall
  <2>4. ~Readiness!Complete(b) BY <1>4 DEF Readiness!Complete
  <2>5. ~Readiness!Begin(b) BY <1>4 DEF Readiness!Begin
  <2>6. ~Readiness!Check(b) BY <1>4 DEF Readiness!Check
  <2>7. ~Readiness!SyncHistory(b) BY <1>4 DEF Readiness!SyncHistory
  <2>8. ~Readiness!Materialize(b) BY <1>4 DEF Readiness!Materialize
  <2>9. ~Readiness!SyncDividends(b) BY <1>4 DEF Readiness!SyncDividends
  <2>10. ~Readiness!Stamp(b) BY <1>4 DEF Readiness!Stamp
  <2>11. ~Readiness!Refused(b) BY <1>4, <2>1 DEF Readiness!Refused, Readiness!Abandoned
  <2> QED BY <2>2, <2>3, <2>4, <2>5, <2>6, <2>7, <2>8, <2>9, <2>10, <2>11 DEF Readiness!EnsureReady
<1> QED BY <1>8, <1>9, <1>11, <1>12 DEF Readiness!Next

(* HistoryReadiness!CleanRunPrepares: whatever bootstrap messages were lost, *)
(* skipped, retried in vain or left by a dead worker, a run of the pipeline  *)
(* that records no issue leaves the stock prepared, published through today  *)
(* and, where its stored bars have no gap, with every bar the demand needs.  *)
THEOREM CleanRunsPrepare ==
    ASSUME Readiness!HistoryAssumption
    PROVE  Readiness!Spec => CleanRunPrepares
<1> DEFINE r == worker[Eod]
           clean == /\ r.pc = "snapshots" /\ r.todo = {} /\ worker'[Eod] = Readiness!Idle
                    /\ faults' = faults /\ ~r.issue /\ r.failed = {} /\ r.dividends
           ready == /\ prepared'
                    /\ \A a \in DOMAIN history :
                         /\ history'[a].through = today
                         /\ Readiness!Gapless(history'[a].bars) =>
                               Readiness!LastBars(r.required, today) \subseteq history'[a].bars
<1>1. ASSUME ReadinessInv, [Readiness!Next]_(Readiness!vars), clean
      PROVE  ready
  <2>1. Readiness!States BY <1>1, CleanRunEnds
  <2>2. /\ prepared' = (prepared \/ (r.dividends /\ r.published = Modes)) /\ history' = history
    BY <2>1 DEF Readiness!States, Modes
  <2>3. /\ RunOk(r) /\ r.pc = "snapshots" /\ StoredInv(history) /\ DOMAIN history = Modes
        /\ r.required \in Nat /\ 1 <= r.required
    BY <1>1 DEF ReadinessInv, RunOk, StoredInv, Workers
  <2>4. \A a \in Modes : /\ Covered(history, a, r.required) /\ today \in history[a].bars
                         /\ a \in r.published /\ history[a].through = today
    BY <1>1 DEF ReadinessInv, PhaseOk
  <2>5. r.published = Modes BY <2>3, <2>4 DEF RunOk
  <2>6. prepared' BY <1>1, <2>2, <2>5
  <2>7. \A a \in Modes : Readiness!Gapless(history[a].bars) =>
           Readiness!LastBars(r.required, today) \subseteq history[a].bars
    BY <2>3, <2>4, CoveredIsRecent
  <2> QED BY <2>2, <2>3, <2>4, <2>6, <2>7
<1>2. ReadinessInv /\ [Readiness!Next]_(Readiness!vars) => [clean => ready]_(Readiness!vars)
  BY <1>1
<1>3. [][clean => ready]_(Readiness!vars) => CleanRunPrepares
  BY DEF CleanRunPrepares, Readiness!CleanRunPrepares
<1> QED BY <1>2, <1>3, HistoryInvariant, PTL DEF Readiness!Spec

-----------------------------------------------------------------------------
(* The order columns and stocks are shown in: TableLayout.                  *)

(* Rows whose positions order them without ties.                            *)
RowsOk(rows) ==
    /\ IsFiniteSet(DOMAIN rows) /\ DOMAIN rows \subseteq Nat
    /\ \A i \in DOMAIN rows : rows[i].position \in Nat
    /\ Layout!PositionsDistinct(rows)

LEMMA SameCardinality == \A S : Layout!Cardinality(S) = Cardinality(S)
BY DEF Layout!Cardinality, Cardinality

LEMMA BeforeIsPosition ==
    ASSUME NEW rows, RowsOk(rows), NEW i \in DOMAIN rows, NEW j \in DOMAIN rows
    PROVE  Layout!Before(rows, i, j) <=> rows[i].position < rows[j].position
<1>1. rows[i].position \in Nat /\ rows[j].position \in Nat /\ i \in Nat BY DEF RowsOk
<1>2. rows[i].position = rows[j].position => i = j BY DEF RowsOk, Layout!PositionsDistinct
<1> QED BY <1>1, <1>2 DEF Layout!Before

(* The index in the list counts the rows before.                            *)
LEMMA IndexOrders ==
    ASSUME NEW rows, RowsOk(rows), NEW i \in DOMAIN rows
    PROVE  /\ Layout!Index(rows, i) \in Nat /\ Layout!Index(rows, i) < Cardinality(DOMAIN rows)
           /\ \A j \in DOMAIN rows :
                 /\ Layout!Before(rows, i, j) <=> Layout!Index(rows, i) < Layout!Index(rows, j)
                 /\ Layout!Index(rows, i) = Layout!Index(rows, j) => i = j
<1> DEFINE D == DOMAIN rows
           B(k) == {j \in D : Layout!Before(rows, j, k)}
<1>1. \A k \in D : Layout!Index(rows, k) = Cardinality(B(k)) BY SameCardinality DEF Layout!Index
<1>2. IsFiniteSet(D) /\ \A k \in D : rows[k].position \in Nat BY DEF RowsOk
<1>3. \A k \in D : IsFiniteSet(B(k)) /\ Cardinality(B(k)) \in Nat
  BY <1>2, FS_Subset, FS_CardinalityType
<1>4. \A k \in D, j \in D : Layout!Before(rows, k, j) <=> rows[k].position < rows[j].position
  BY BeforeIsPosition
<1>5. \A k \in D : k \notin B(k) BY <1>2, <1>4
<1>6. \A k \in D : Cardinality(B(k)) < Cardinality(D)
  <2> SUFFICES ASSUME NEW k \in D PROVE Cardinality(B(k)) < Cardinality(D) OBVIOUS
  <2>1. B(k) \in SUBSET D /\ B(k) # D BY <1>5
  <2>2. Cardinality(D) \in Nat BY <1>2, FS_CardinalityType
  <2> HIDE DEF B, D
  <2>3. Cardinality(B(k)) <= Cardinality(D) /\ Cardinality(D) # Cardinality(B(k))
    BY <1>2, <2>1, FS_Subset
  <2> QED BY <1>3, <2>2, <2>3
<1>7. ASSUME NEW k \in D, NEW j \in D, Layout!Before(rows, k, j)
      PROVE  Cardinality(B(k)) < Cardinality(B(j))
  <2>1. B(k) \in SUBSET B(j)
    <3> SUFFICES ASSUME NEW x \in D, Layout!Before(rows, x, k) PROVE Layout!Before(rows, x, j)
      OBVIOUS
    <3>1. rows[x].position < rows[k].position /\ rows[k].position < rows[j].position
      BY <1>4, <1>7
    <3>2. rows[x].position < rows[j].position BY <1>2, <3>1
    <3> QED BY <1>4, <3>2
  <2>2. B(k) # B(j) BY <1>5, <1>7
  <2> HIDE DEF B, D
  <2>3. Cardinality(B(k)) <= Cardinality(B(j)) /\ Cardinality(B(j)) # Cardinality(B(k))
    BY <1>3, <2>1, <2>2, FS_Subset
  <2> QED BY <1>3, <2>3
<1>8. \A j \in D : i # j => Layout!Before(rows, i, j) \/ Layout!Before(rows, j, i)
  <2>1. \A j \in D : i # j => rows[i].position # rows[j].position
    BY DEF RowsOk, Layout!PositionsDistinct
  <2> QED BY <1>2, <1>4, <2>1
<1>9. ~Layout!Before(rows, i, i) BY <1>2, <1>4
<1> HIDE DEF B
<1> QED BY <1>1, <1>3, <1>6, <1>7, <1>8, <1>9

(* As many rows stand before an index as it says.                           *)
LEMMA IndexCounts ==
    ASSUME NEW rows, RowsOk(rows), NEW p \in 0..Cardinality(DOMAIN rows)
    PROVE  Cardinality({i \in DOMAIN rows : Layout!Index(rows, i) < p}) = p
<1> DEFINE D == DOMAIN rows
           N == Cardinality(D)
           f == [i \in D |-> Layout!Index(rows, i)]
           T == {i \in D : Layout!Index(rows, i) < p}
           g == [i \in T |-> Layout!Index(rows, i)]
<1>1. IsFiniteSet(D) /\ N \in Nat BY FS_CardinalityType DEF RowsOk
<1>2. \A i \in D : /\ Layout!Index(rows, i) \in 0..(N - 1)
                   /\ \A j \in D : Layout!Index(rows, i) = Layout!Index(rows, j) => i = j
  BY <1>1, IndexOrders
<1>3. IsFiniteSet(0..(N - 1)) /\ Cardinality(0..(N - 1)) = N
  <2> HIDE DEF N
  <2>1. 0 \in Int /\ N - 1 \in Int BY <1>1
  <2> QED BY <1>1, <2>1, FS_Interval
<1>4. f \in Injection(D, 0..(N - 1)) BY <1>2 DEF Injection, IsInjective
<1>5. f \in Surjection(D, 0..(N - 1))
  <2> HIDE DEF f, D, N
  <2> QED BY <1>3, <1>4, FS_Injection DEF N
<1>6. \A n \in 0..(N - 1) : \E i \in D : Layout!Index(rows, i) = n BY <1>5 DEF Surjection
<1>7. g \in Bijection(T, 0..(p - 1))
  <2>1. \A i \in T : Layout!Index(rows, i) \in 0..(p - 1) BY <1>2
  <2>2. \A n \in 0..(p - 1) : \E i \in T : Layout!Index(rows, i) = n
    <3>1. \A n \in 0..(p - 1) : n \in 0..(N - 1) /\ n < p BY <1>1
    <3> QED BY <1>6, <3>1
  <2>3. g \in [T -> 0..(p - 1)] BY <2>1
  <2>4. \A i, j \in T : g[i] = g[j] => i = j BY <1>2
  <2>5. \A n \in 0..(p - 1) : \E i \in T : g[i] = n BY <2>2
  <2> HIDE DEF g, T
  <2> QED BY <2>3, <2>4, <2>5 DEF Bijection, Injection, Surjection, IsInjective
<1>8. IsFiniteSet(T) BY <1>1, FS_Subset
<1>9. Cardinality(0..(p - 1)) = p
  <2>1. 0 \in Int /\ p - 1 \in Int /\ p \in Nat OBVIOUS
  <2> QED BY <2>1, FS_Interval
<1> HIDE DEF T, g
<1>10. ExistsBijection(T, 0..(p - 1)) BY <1>7 DEF ExistsBijection
<1>11. Cardinality(0..(p - 1)) = Cardinality(T) BY <1>8, <1>10, FS_Bijection
<1> QED BY <1>9, <1>11 DEF T

(* Rows that keep their positions keep their order.                         *)
LEMMA OrderIsPositions ==
    ASSUME NEW rows, RowsOk(rows), NEW others, RowsOk(others), NEW D,
           D \subseteq DOMAIN rows, D \subseteq DOMAIN others,
           \A i, j \in D : others[i].position < others[j].position <=> rows[i].position < rows[j].position
    PROVE  \A i, j \in D : Layout!Before(others, i, j) <=> Layout!Before(rows, i, j)
BY BeforeIsPosition

(* The lesser of two naturals.                                              *)
LEMMA LesserOf ==
    ASSUME NEW m \in Nat, NEW n \in Nat
    PROVE  /\ Layout!Min({m, n}) \in Nat /\ Layout!Min({m, n}) <= n /\ Layout!Min({m, n}) <= m
           /\ Layout!Min({m, n}) \in {m, n}
<1>1. \E x \in {m, n} : \A y \in {m, n} : x <= y
  <2>1. CASE m <= n BY <2>1
  <2>2. CASE ~(m <= n) BY <2>2
  <2> QED BY <2>1, <2>2
<1>2. Layout!Min({m, n}) \in {m, n} /\ \A y \in {m, n} : Layout!Min({m, n}) <= y
  BY <1>1 DEF Layout!Min
<1> QED BY <1>2

(* next_column_position and next_symbol_position are past every row.        *)
LEMMA NextIsLast ==
    ASSUME NEW rows, RowsOk(rows), DOMAIN rows = {} => rows = <<>>
    PROVE  /\ Layout!NextPosition(rows) \in Nat
           /\ \A i \in DOMAIN rows : rows[i].position < Layout!NextPosition(rows)
<1>1. CASE rows = <<>>
  <2>1. DOMAIN rows = {} BY <1>1
  <2> QED BY <1>1, <2>1 DEF Layout!NextPosition
<1>2. CASE rows # <<>>
  <2> DEFINE P == Layout!Positions(rows)
             f == [i \in DOMAIN rows |-> rows[i].position]
             m == Layout!Max(P)
  <2>1. P \in SUBSET Nat /\ P # {} BY <1>2 DEF Layout!Positions, RowsOk
  <2>2. f \in Surjection(DOMAIN rows, P) BY DEF Surjection, Layout!Positions
  <2>3. IsFiniteSet(P) BY <2>2, FS_Surjection DEF RowsOk
  <2>4. \E x \in P : \A y \in P : x >= y
    <3>1. PICK x \in P : \A y \in P : y <= x
      <4> HIDE DEF P
      <4> QED BY <2>1, <2>3, GreatestExists
    <3>2. \A y \in P : x >= y BY <2>1, <3>1
    <3> QED BY <3>2
  <2>5. m \in P /\ \A y \in P : m >= y BY <2>4 DEF Layout!Max
  <2>6. \A i \in DOMAIN rows : rows[i].position \in P BY DEF Layout!Positions
  <2>7. Layout!NextPosition(rows) = m + 1 BY <1>2 DEF Layout!NextPosition
  <2> HIDE DEF m, P
  <2>8. m \in Nat /\ \A i \in DOMAIN rows : rows[i].position <= m BY <2>1, <2>5, <2>6
  <2> QED BY <2>7, <2>8 DEF RowsOk
<1> QED BY <1>1, <1>2

(* _move_column renumbers the others around the wanted index.               *)
LEMMA MovedIsShown ==
    ASSUME RowsOk(columns), \A i \in DOMAIN columns : columns[i] \in Layout!Column,
           NEW id \in DOMAIN columns, NEW wanted \in Nat, NEW k, k = Layout!Moved(id, wanted),
           NEW D, D = DOMAIN columns \ {id}
    PROVE  /\ DOMAIN k = DOMAIN columns /\ RowsOk(k)
           /\ \A i \in DOMAIN k : k[i] \in Layout!Column /\ k[i].target = columns[i].target
           /\ \A i, j \in D : Layout!Before(k, i, j) <=> Layout!Before(columns, i, j)
           /\ Layout!Index(k, id) = Layout!Min({wanted, Cardinality(D)})
<1> DEFINE rows == Layout!Without(columns, id)
           p == Layout!Min({wanted, Cardinality(DOMAIN rows)})
           R(i) == Layout!Index(rows, i)
           place(i) == IF R(i) < p THEN R(i) ELSE R(i) + 1
           position(i) == IF i = id THEN p ELSE place(i)
<1>1. DOMAIN rows = D /\ \A i \in D : rows[i] = columns[i] BY DEF Layout!Without
<1>2. IsFiniteSet(D) /\ Cardinality(D) \in Nat BY FS_Subset, FS_CardinalityType DEF RowsOk
<1>3. RowsOk(rows) BY <1>1, <1>2 DEF RowsOk, Layout!PositionsDistinct
<1>4. k = [i \in DOMAIN columns |-> [columns[i] EXCEPT !.position = position(i)]]
  BY SameCardinality DEF Layout!Moved
<1> HIDE DEF rows
<1>5. \A i \in D : /\ R(i) \in Nat
                   /\ \A j \in D : /\ Layout!Before(rows, i, j) <=> R(i) < R(j)
                                   /\ R(i) = R(j) => i = j
  BY <1>1, <1>3, IndexOrders
<1>6. p \in 0..Cardinality(D) /\ p = Layout!Min({wanted, Cardinality(D)}) /\ p \in Nat
  BY <1>1, <1>2, LesserOf
<1> HIDE DEF R, p
<1>7. \A i \in DOMAIN columns : position(i) \in Nat BY <1>5, <1>6
<1>8. position(id) = p OBVIOUS
<1>9. \A i \in D : position(i) = place(i) OBVIOUS
<1>10. \A i, j \in D : /\ place(i) < place(j) <=> R(i) < R(j)
                       /\ place(i) = place(j) => i = j
  BY <1>5, <1>6
<1>11. \A i \in D : place(i) # p /\ (place(i) < p <=> R(i) < p)
  BY <1>5, <1>6
<1> HIDE DEF position, place
<1>12. /\ DOMAIN k = DOMAIN columns
       /\ \A i \in DOMAIN k : k[i] \in Layout!Column /\ k[i].target = columns[i].target
                              /\ k[i].position = position(i)
  BY <1>4, <1>7 DEF Layout!Column
<1>13. \A i, j \in DOMAIN columns : position(i) = position(j) => i = j
  BY <1>8, <1>9, <1>10, <1>11
<1>14. RowsOk(k) BY <1>7, <1>12, <1>13 DEF RowsOk, Layout!PositionsDistinct
<1>15. \A i, j \in D : Layout!Before(k, i, j) <=> Layout!Before(columns, i, j)
  <2> SUFFICES ASSUME NEW i \in D, NEW j \in D
               PROVE  Layout!Before(k, i, j) <=> Layout!Before(columns, i, j)
    OBVIOUS
  <2>1. Layout!Before(k, i, j) <=> place(i) < place(j) BY <1>9, <1>12, <1>14, BeforeIsPosition
  <2>2. Layout!Before(rows, i, j) <=> rows[i].position < rows[j].position
    BY <1>1, <1>3, BeforeIsPosition
  <2>3. Layout!Before(columns, i, j) <=> columns[i].position < columns[j].position
    BY BeforeIsPosition
  <2> QED BY <1>1, <1>5, <1>10, <2>1, <2>2, <2>3
<1>16. Layout!Index(k, id) = p
  <2>1. \A i \in DOMAIN k : Layout!Before(k, i, id) <=> position(i) < p
    BY <1>8, <1>12, <1>14, BeforeIsPosition
  <2>2. {i \in DOMAIN k : Layout!Before(k, i, id)} = {i \in D : R(i) < p}
    <3>1. ~(position(id) < p) BY <1>6, <1>8
    <3> QED BY <1>9, <1>11, <1>12, <2>1, <3>1
  <2>3. Cardinality({i \in D : R(i) < p}) = p BY <1>1, <1>3, <1>6, IndexCounts DEF R
  <2> QED BY <2>2, <2>3, SameCardinality DEF Layout!Index
<1> QED BY <1>6, <1>12, <1>14, <1>15, <1>16

(* reorder_columns numbers the columns in the order asked for.              *)
LEMMA ReorderedIsShown ==
    ASSUME RowsOk(columns), \A i \in DOMAIN columns : columns[i] \in Layout!Column,
           NEW n \in Nat, NEW ids \in [1..n -> DOMAIN columns], Layout!IsInjective(ids),
           Layout!Range(ids) = DOMAIN columns,
           NEW k, k = [i \in DOMAIN columns |-> [columns[i] EXCEPT !.position =
                          (CHOOSE m \in DOMAIN ids : ids[m] = i) - 1]]
    PROVE  /\ DOMAIN k = DOMAIN columns /\ RowsOk(k)
           /\ \A i \in DOMAIN k : k[i] \in Layout!Column /\ k[i].target = columns[i].target
           /\ \A m \in DOMAIN ids : Layout!Index(k, ids[m]) = m - 1
<1> DEFINE at(i) == CHOOSE m \in DOMAIN ids : ids[m] = i
<1>1. \A i \in DOMAIN columns : at(i) \in 1..n /\ ids[at(i)] = i
  BY DEF Layout!Range
<1>2. \A m \in 1..n : at(ids[m]) = m
  <2>1. \A x, y \in 1..n : ids[x] = ids[y] => x = y BY DEF Layout!IsInjective
  <2> QED BY <1>1, <2>1
<1>3. k = [i \in DOMAIN columns |-> [columns[i] EXCEPT !.position = at(i) - 1]] OBVIOUS
<1> HIDE DEF at
<1>4. /\ DOMAIN k = DOMAIN columns
      /\ \A i \in DOMAIN k : k[i] \in Layout!Column /\ k[i].target = columns[i].target
                             /\ k[i].position = at(i) - 1
  <2>1. \A i \in DOMAIN columns : at(i) - 1 \in Nat BY <1>1
  <2> QED BY <1>3, <2>1 DEF Layout!Column
<1>5. RowsOk(k)
  <2>1. \A i, j \in DOMAIN columns : at(i) - 1 = at(j) - 1 => i = j BY <1>1
  <2>2. \A i \in DOMAIN columns : at(i) - 1 \in Nat BY <1>1
  <2>3. IsFiniteSet(DOMAIN k) /\ DOMAIN k \subseteq Nat BY <1>4 DEF RowsOk
  <2>4. \A i \in DOMAIN k : k[i].position \in Nat BY <1>4, <2>2
  <2>5. ASSUME NEW i \in DOMAIN k, NEW j \in DOMAIN k, k[i].position = k[j].position
        PROVE  i = j
    <3>1. k[i].position = at(i) - 1 /\ k[j].position = at(j) - 1 BY <1>4
    <3>2. at(i) - 1 = at(j) - 1 BY <2>5, <3>1
    <3> QED BY <1>4, <2>1, <3>2
  <2> QED BY <2>3, <2>4, <2>5 DEF RowsOk, Layout!PositionsDistinct
<1>6. ASSUME NEW m \in 1..n PROVE Layout!Index(k, ids[m]) = m - 1
  <2> DEFINE S == {i \in DOMAIN k : Layout!Before(k, i, ids[m])}
             f == [x \in 1..(m - 1) |-> ids[x]]
  <2>1. \A i \in DOMAIN k : Layout!Before(k, i, ids[m]) <=> at(i) < m
    <3> SUFFICES ASSUME NEW i \in DOMAIN k PROVE Layout!Before(k, i, ids[m]) <=> at(i) < m
      OBVIOUS
    <3>1. ids[m] \in DOMAIN k BY <1>4
    <3>2. Layout!Before(k, i, ids[m]) <=> at(i) - 1 < m - 1
      BY <1>2, <1>4, <1>5, <3>1, BeforeIsPosition
    <3> QED BY <1>1, <1>4, <3>2
  <2>2. \A x \in 1..(m - 1) : x \in 1..n /\ x < m OBVIOUS
  <2>3. f \in [1..(m - 1) -> S] BY <1>2, <1>4, <2>1, <2>2
  <2>4. \A x, y \in 1..(m - 1) : f[x] = f[y] => x = y BY <1>2, <2>2
  <2>5. \A i \in S : \E x \in 1..(m - 1) : f[x] = i
    <3> SUFFICES ASSUME NEW i \in S PROVE \E x \in 1..(m - 1) : f[x] = i OBVIOUS
    <3>1. at(i) \in 1..n /\ at(i) < m /\ ids[at(i)] = i BY <1>1, <1>4, <2>1
    <3>2. at(i) \in 1..(m - 1) BY <3>1
    <3> QED BY <3>1, <3>2
  <2>6. f \in Bijection(1..(m - 1), S)
    <3> HIDE DEF f, S
    <3> QED BY <2>3, <2>4, <2>5 DEF Bijection, Injection, Surjection, IsInjective
  <2>7. IsFiniteSet(1..(m - 1)) /\ Cardinality(1..(m - 1)) = m - 1
    <3>1. 1 \in Int /\ m - 1 \in Int /\ m \in Nat /\ 1 <= m OBVIOUS
    <3>2. /\ IsFiniteSet(1..(m - 1))
          /\ Cardinality(1..(m - 1)) = IF 1 > m - 1 THEN 0 ELSE (m - 1) - 1 + 1
      BY <3>1, FS_Interval
    <3> QED BY <3>1, <3>2
  <2> HIDE DEF f, S
  <2>8. Cardinality(S) = m - 1
    <3>1. ExistsBijection(1..(m - 1), S) BY <2>6 DEF ExistsBijection
    <3> QED BY <2>7, <3>1, FS_Bijection
  <2> QED BY <2>8, SameCardinality DEF Layout!Index, S
<1> QED BY <1>4, <1>5, <1>6

-----------------------------------------------------------------------------
(* The rows of a table: ids were issued before, a stock is there once.      *)
LayoutInv ==
    /\ DOMAIN nextId = {"column", "stock"} /\ nextId.column \in Nat /\ nextId.stock \in Nat
    /\ RowsOk(columns) /\ RowsOk(stocks)
    /\ \A i \in DOMAIN columns : columns[i] \in Layout!Column /\ i < nextId.column
    /\ \A i \in DOMAIN stocks : stocks[i] \in Layout!Stock /\ i < nextId.stock
    /\ \A i, j \in DOMAIN stocks : stocks[i].security = stocks[j].security => i = j
    /\ (DOMAIN columns = {} => columns = <<>>) /\ (DOMAIN stocks = {} => stocks = <<>>)

(* What EditsShowWhatWasAsked says of an edit of the columns.               *)
Shown ==
    LET others == DOMAIN columns' \ {last'.id}
        ids == last'.ids
    IN /\ last'.op \in {"add_column", "update_column", "delete_column"} =>
             /\ others = DOMAIN columns \ {last'.id}
             /\ \A i, j \in others : Layout!Before(columns', i, j) <=> Layout!Before(columns, i, j)
       /\ last'.op = "update_column" /\ last'.position # -1 =>
             Layout!Index(columns', last'.id) = Layout!Min({last'.position, Layout!Cardinality(others)})
       /\ last'.op = "reorder_columns" =>
             Layout!Range(ids) = DOMAIN columns'
             /\ \A n \in DOMAIN ids : Layout!Index(columns', ids[n]) = n - 1

LEMMA EmptyRows ==
    ASSUME NEW k, k = [i \in DOMAIN k |-> k[i]], DOMAIN k = {}
    PROVE  k = <<>>
OBVIOUS

LEMMA LayoutInit ==
    ASSUME Layout!Init
    PROVE  LayoutInv
<1>1. PICK defaults \in Layout!SeqOf(Targets, 2) :
        /\ columns = [i \in 1 .. Len(defaults) |-> [target |-> defaults[i], position |-> i - 1]]
        /\ stocks = <<>>
        /\ nextId = [column |-> Len(defaults) + 1, stock |-> 1]
  BY DEF Layout!Init
<1>2. PICK n \in 0..2 : defaults \in [1..n -> Targets] BY DEF Layout!SeqOf
<1>3. defaults \in Seq(Targets) /\ Len(defaults) = n BY <1>2
<1>4. /\ DOMAIN columns = 1..n
      /\ \A i \in 1..n : columns[i] \in Layout!Column /\ columns[i].position = i - 1
  BY <1>1, <1>2, <1>3 DEF Layout!Column
<1>5. RowsOk(columns)
  <2>1. IsFiniteSet(1..n) BY FS_Interval
  <2> QED BY <1>4, <2>1 DEF RowsOk, Layout!PositionsDistinct
<1>6. DOMAIN stocks = {} BY <1>1
<1>7. RowsOk(stocks) BY <1>6, FS_EmptySet DEF RowsOk, Layout!PositionsDistinct
<1>8. DOMAIN columns = {} => columns = <<>> BY <1>1, <1>3, EmptyRows
<1>9. DOMAIN nextId = {"column", "stock"} /\ nextId.column = n + 1 /\ nextId.stock = 1 BY <1>1, <1>3
<1>10. \A i \in DOMAIN columns : columns[i] \in Layout!Column /\ i < nextId.column BY <1>4, <1>9
<1>11. n + 1 \in Nat OBVIOUS
<1>12. \A i \in DOMAIN stocks : FALSE BY <1>6
<1>13. DOMAIN stocks = {} => stocks = <<>> BY <1>1
<1> QED BY <1>5, <1>7, <1>8, <1>9, <1>10, <1>11, <1>12, <1>13 DEF LayoutInv

-----------------------------------------------------------------------------
(* Stocks.                                                                  *)

(* An edit of the stocks that keeps them in order keeps the invariant.      *)
LEMMA StocksKeep ==
    ASSUME LayoutInv, columns' = columns, DOMAIN nextId' = {"column", "stock"},
           nextId'.stock \in Nat, nextId'.column = nextId.column, RowsOk(stocks'),
           \A i \in DOMAIN stocks' : stocks'[i] \in Layout!Stock /\ i < nextId'.stock,
           \A i, j \in DOMAIN stocks' : stocks'[i].security = stocks'[j].security => i = j,
           DOMAIN stocks' = {} => stocks' = <<>>
    PROVE  LayoutInv'
<1>1. /\ RowsOk(columns) /\ nextId.column \in Nat /\ (DOMAIN columns = {} => columns = <<>>)
      /\ \A i \in DOMAIN columns : columns[i] \in Layout!Column /\ i < nextId.column
  BY DEF LayoutInv
<1> QED BY <1>1 DEF LayoutInv

LEMMA AddStockShows ==
    ASSUME LayoutInv, NEW s \in Securities, Layout!AddStock(s)
    PROVE  LayoutInv' /\ Shown
<1> DEFINE id == nextId.stock
           p == Layout!NextPosition(stocks)
           row == [security |-> s, position |-> p]
<1>1. /\ stocks' = Layout!With(stocks, id, row) /\ nextId' = [nextId EXCEPT !.stock = @ + 1]
      /\ last' = [op |-> "add_stock"] /\ columns' = columns
      /\ \A i \in DOMAIN stocks : stocks[i].security # s
  BY DEF Layout!AddStock
<1>2. id \in Nat /\ RowsOk(stocks) /\ \A i \in DOMAIN stocks : i < id /\ stocks[i] \in Layout!Stock
  BY DEF LayoutInv
<1>3. p \in Nat /\ \A i \in DOMAIN stocks : stocks[i].position < p
  BY NextIsLast DEF LayoutInv
<1> HIDE DEF p
<1>4. row \in Layout!Stock /\ row.security = s /\ row.position = p BY <1>3 DEF Layout!Stock
<1> HIDE DEF row, id
<1>5. PICK k : k = stocks' OBVIOUS
<1>6. /\ DOMAIN k = DOMAIN stocks \union {id} /\ k[id] = row /\ id \notin DOMAIN stocks
      /\ \A i \in DOMAIN stocks : k[i] = stocks[i]
  BY <1>1, <1>2, <1>5 DEF Layout!With, RowsOk
<1>7. IsFiniteSet(DOMAIN k) BY <1>2, <1>6, FS_AddElement DEF RowsOk
<1>8. RowsOk(k)
  <2>1. \A i \in DOMAIN stocks : stocks[i].position \in Nat /\ i \in Nat BY <1>2 DEF RowsOk
  <2>2. \A i \in DOMAIN k : k[i].position \in Nat /\ i \in Nat BY <1>2, <1>3, <1>4, <1>6, <2>1
  <2>3. \A i \in DOMAIN stocks : k[i].position # k[id].position BY <1>3, <1>4, <1>6, <2>1
  <2>4. \A i, j \in DOMAIN stocks : i # j => k[i].position # k[j].position
    BY <1>2, <1>6 DEF RowsOk, Layout!PositionsDistinct
  <2>5. Layout!PositionsDistinct(k) BY <1>6, <2>3, <2>4 DEF Layout!PositionsDistinct
  <2> QED BY <1>7, <2>2, <2>5 DEF RowsOk
<1>9. \A i, j \in DOMAIN k : k[i].security = k[j].security => i = j
  BY <1>1, <1>4, <1>6 DEF LayoutInv
<1>10. nextId'.stock = id + 1 /\ nextId'.column = nextId.column /\ DOMAIN nextId' = {"column", "stock"}
  BY <1>1 DEF LayoutInv, id
<1>11. \A i \in DOMAIN k : k[i] \in Layout!Stock /\ i < id + 1
  <2>1. \A i \in DOMAIN stocks : i \in Nat BY <1>2 DEF RowsOk
  <2> QED BY <1>2, <1>4, <1>6, <2>1
<1>12. LayoutInv' BY <1>1, <1>2, <1>5, <1>6, <1>8, <1>9, <1>10, <1>11 DEF LayoutInv
<1>13. Shown BY <1>1 DEF Shown
<1> QED BY <1>12, <1>13

LEMMA RemoveStockShows ==
    ASSUME LayoutInv, NEW id \in DOMAIN stocks, Layout!RemoveStock(id)
    PROVE  LayoutInv' /\ Shown
<1>1. /\ stocks' = Layout!Without(stocks, id) /\ nextId' = nextId /\ columns' = columns
      /\ last' = [op |-> "remove_stock"]
  BY DEF Layout!RemoveStock
<1>2. PICK k : k = stocks' OBVIOUS
<1>3. DOMAIN k = DOMAIN stocks \ {id} /\ \A i \in DOMAIN k : k[i] = stocks[i]
  BY <1>1, <1>2 DEF Layout!Without
<1>4. IsFiniteSet(DOMAIN k) BY <1>3, FS_Subset DEF LayoutInv, RowsOk
<1>5. RowsOk(k) BY <1>3, <1>4 DEF LayoutInv, RowsOk, Layout!PositionsDistinct
<1>6. DOMAIN k = {} => k = <<>> BY <1>1, <1>2, <1>3, EmptyRows DEF Layout!Without
<1>7. LayoutInv' BY <1>1, <1>2, <1>3, <1>5, <1>6 DEF LayoutInv
<1>8. Shown BY <1>1 DEF Shown
<1> QED BY <1>7, <1>8

LEMMA ReorderStocksShows ==
    ASSUME LayoutInv, Layout!LayoutAssumption, NEW n \in Nat,
           NEW items \in [1..n -> [security : Securities, position : 0..MaxPosition]],
           Layout!ReorderStocks(items)
    PROVE  LayoutInv' /\ Shown
<1> DEFINE at(i) == CHOOSE m \in DOMAIN items : items[m].security = stocks[i].security
           p(i) == items[at(i)].position
<1>1. /\ stocks' = [i \in DOMAIN stocks |-> [stocks[i] EXCEPT !.position = p(i)]]
      /\ Layout!ValidStockOrder(items) /\ nextId' = nextId /\ columns' = columns
      /\ last' = [op |-> "reorder_stocks"]
  BY DEF Layout!ReorderStocks
<1>2. \A i \in DOMAIN stocks : at(i) \in 1..n /\ items[at(i)].security = stocks[i].security
  <2> SUFFICES ASSUME NEW i \in DOMAIN stocks
               PROVE  \E m \in DOMAIN items : items[m].security = stocks[i].security
    OBVIOUS
  <2>1. stocks[i].security \in {items[m].security : m \in DOMAIN items}
    BY <1>1 DEF Layout!ValidStockOrder
  <2> QED BY <2>1
<1>3. \A i \in DOMAIN stocks : p(i) \in Nat
  <2>1. \A m \in 1..n : items[m].position \in Nat BY DEF Layout!LayoutAssumption
  <2> QED BY <1>2, <2>1
<1>4. \A i, j \in DOMAIN stocks : i # j => p(i) # p(j)
  <2>1. \A i, j \in DOMAIN stocks : i # j => at(i) # at(j)
    <3>1. \A i, j \in DOMAIN stocks : i # j => stocks[i].security # stocks[j].security BY DEF LayoutInv
    <3> HIDE DEF at
    <3> QED BY <1>2, <3>1
  <2>2. \A m, l \in 1..n : m # l => items[m].position # items[l].position
    BY <1>1 DEF Layout!ValidStockOrder
  <2> QED BY <1>2, <2>1, <2>2
<1> HIDE DEF p
<1>5. PICK k : k = stocks' OBVIOUS
<1>6. /\ DOMAIN k = DOMAIN stocks
      /\ \A i \in DOMAIN k : k[i] \in Layout!Stock /\ k[i].security = stocks[i].security
                             /\ k[i].position = p(i)
  <2>1. \A i \in DOMAIN stocks : stocks[i] \in Layout!Stock BY DEF LayoutInv
  <2> QED BY <1>1, <1>3, <1>5, <2>1 DEF Layout!Stock
<1>7. RowsOk(k)
  <2>1. IsFiniteSet(DOMAIN k) /\ DOMAIN k \subseteq Nat BY <1>6 DEF LayoutInv, RowsOk
  <2> QED BY <1>3, <1>4, <1>6, <2>1 DEF RowsOk, Layout!PositionsDistinct
<1>8. DOMAIN k = {} => k = <<>> BY <1>1, <1>5, <1>6, EmptyRows
<1>9. LayoutInv'
  <2>1. \A i \in DOMAIN k : i < nextId.stock BY <1>6 DEF LayoutInv
  <2>2. \A i, j \in DOMAIN k : k[i].security = k[j].security => i = j
    <3>1. \A i, j \in DOMAIN stocks : stocks[i].security = stocks[j].security => i = j BY DEF LayoutInv
    <3> QED BY <1>6, <3>1
  <2>3. \A i \in DOMAIN k : k[i] \in Layout!Stock BY <1>6
  <2>4. DOMAIN nextId = {"column", "stock"} /\ nextId.stock \in Nat BY DEF LayoutInv
  <2>5. nextId' = nextId /\ columns' = columns BY <1>1
  <2> QED BY <1>5, <1>7, <1>8, <2>1, <2>2, <2>3, <2>4, <2>5, StocksKeep
<1>10. Shown BY <1>1 DEF Shown
<1> QED BY <1>9, <1>10

-----------------------------------------------------------------------------
(* Columns.                                                                 *)

(* An edit of the columns that keeps them in order keeps the invariant.     *)
LEMMA ColumnsKeep ==
    ASSUME LayoutInv, stocks' = stocks, DOMAIN nextId' = {"column", "stock"},
           nextId'.column \in Nat, nextId'.stock = nextId.stock, RowsOk(columns'),
           \A i \in DOMAIN columns' : columns'[i] \in Layout!Column /\ i < nextId'.column,
           DOMAIN columns' = {} => columns' = <<>>
    PROVE  LayoutInv'
<1>1. /\ RowsOk(stocks) /\ nextId.stock \in Nat /\ (DOMAIN stocks = {} => stocks = <<>>)
      /\ \A i \in DOMAIN stocks : stocks[i] \in Layout!Stock /\ i < nextId.stock
      /\ \A i, j \in DOMAIN stocks : stocks[i].security = stocks[j].security => i = j
  BY DEF LayoutInv
<1> QED BY <1>1 DEF LayoutInv

LEMMA AddColumnShows ==
    ASSUME LayoutInv, Layout!LayoutAssumption, NEW target \in Targets, NEW wanted \in -1..MaxPosition,
           Layout!AddColumn(target, wanted)
    PROVE  LayoutInv' /\ Shown
<1> DEFINE id == nextId.column
           end == Layout!NextPosition(columns)
           p == IF wanted = -1 THEN end ELSE Layout!Min({wanted, end})
           others == IF wanted = -1 THEN columns ELSE Layout!Shifted(p)
           row == [target |-> target, position |-> p]
<1>1. /\ columns' = Layout!With(others, id, row) /\ nextId' = [nextId EXCEPT !.column = @ + 1]
      /\ last' = [op |-> "add_column", id |-> id, position |-> p] /\ stocks' = stocks
  BY DEF Layout!AddColumn
<1>2. /\ id \in Nat /\ RowsOk(columns)
      /\ \A i \in DOMAIN columns : /\ i < id /\ columns[i] \in Layout!Column
                                   /\ i \in Nat /\ columns[i].position \in Nat
  BY DEF LayoutInv, RowsOk
<1>3. end \in Nat /\ \A i \in DOMAIN columns : columns[i].position < end
  BY NextIsLast DEF LayoutInv
<1> HIDE DEF end, id
<1>4. p \in Nat /\ p <= end /\ (wanted = -1 => p = end)
  <2>1. CASE wanted = -1 BY <1>3, <2>1
  <2>2. CASE wanted # -1
    <3>1. wanted \in Nat BY <2>2 DEF Layout!LayoutAssumption
    <3> QED BY <1>3, <2>2, <3>1, LesserOf
  <2> QED BY <2>1, <2>2
<1> DEFINE at(i) == IF columns[i].position >= p THEN columns[i].position + 1 ELSE columns[i].position
<1>5. /\ DOMAIN others = DOMAIN columns
      /\ \A i \in DOMAIN columns : others[i] \in Layout!Column /\ others[i].position = at(i)
  <2>1. CASE wanted = -1
    <3>1. \A i \in DOMAIN columns : at(i) = columns[i].position BY <1>2, <1>3, <1>4, <2>1
    <3> QED BY <1>2, <2>1, <3>1
  <2>2. CASE wanted # -1
    <3>1. others = Layout!Shifted(p) BY <2>2
    <3> HIDE DEF others, p
    <3>2. DOMAIN others = DOMAIN columns BY <3>1 DEF Layout!Shifted
    <3>3. ASSUME NEW i \in DOMAIN columns
          PROVE  others[i] \in Layout!Column /\ others[i].position = at(i)
      <4>1. others[i] = IF columns[i].position >= p THEN [columns[i] EXCEPT !.position = @ + 1]
                        ELSE columns[i]
        BY <3>1 DEF Layout!Shifted
      <4>2. columns[i] \in Layout!Column /\ columns[i].position \in Nat BY <1>2
      <4> QED BY <4>1, <4>2 DEF Layout!Column
    <3> QED BY <3>2, <3>3
  <2> QED BY <2>1, <2>2
<1> HIDE DEF others, p
<1>6. row \in Layout!Column /\ row.position = p BY <1>4 DEF Layout!Column
<1> HIDE DEF row
<1>7. PICK k : k = columns' OBVIOUS
<1>8. /\ DOMAIN k = DOMAIN columns \union {id} /\ k[id] = row /\ id \notin DOMAIN columns
      /\ \A i \in DOMAIN columns : k[i] = others[i]
  BY <1>1, <1>2, <1>5, <1>7 DEF Layout!With
<1>9. \A i, j \in DOMAIN columns :
         /\ at(i) \in Nat /\ at(i) # p
         /\ at(i) < at(j) <=> columns[i].position < columns[j].position
         /\ at(i) = at(j) => columns[i].position = columns[j].position
  BY <1>2, <1>4
<1>10. \A i \in DOMAIN columns : k[i].position = at(i) BY <1>5, <1>8
<1> HIDE DEF at
<1>11. RowsOk(k)
  <2>1. IsFiniteSet(DOMAIN k) BY <1>2, <1>8, FS_AddElement DEF RowsOk
  <2>2. \A i \in DOMAIN k : k[i].position \in Nat /\ i \in Nat BY <1>2, <1>4, <1>6, <1>8, <1>9, <1>10
  <2>3. \A i \in DOMAIN columns : k[i].position # k[id].position BY <1>6, <1>8, <1>9, <1>10
  <2>4. \A i, j \in DOMAIN columns : i # j => k[i].position # k[j].position
    <3>1. \A i, j \in DOMAIN columns : i # j => columns[i].position # columns[j].position
      BY <1>2 DEF RowsOk, Layout!PositionsDistinct
    <3> QED BY <1>9, <1>10, <3>1
  <2>5. Layout!PositionsDistinct(k) BY <1>8, <2>3, <2>4 DEF Layout!PositionsDistinct
  <2> QED BY <2>1, <2>2, <2>5 DEF RowsOk
<1>12. nextId'.column = id + 1 /\ nextId'.stock = nextId.stock /\ DOMAIN nextId' = {"column", "stock"}
  BY <1>1 DEF LayoutInv, id
<1>13. \A i \in DOMAIN k : k[i] \in Layout!Column /\ i < id + 1
  BY <1>2, <1>5, <1>6, <1>8
<1>14. LayoutInv'
  <2>1. id + 1 \in Nat BY <1>2
  <2>2. DOMAIN k # {} BY <1>8
  <2> QED BY <1>1, <1>7, <1>11, <1>12, <1>13, <2>1, <2>2, ColumnsKeep
<1>15. \A i, j \in DOMAIN columns : Layout!Before(k, i, j) <=> Layout!Before(columns, i, j)
  <2>1. DOMAIN columns \subseteq DOMAIN k BY <1>8
  <2>2. \A i, j \in DOMAIN columns :
           k[i].position < k[j].position <=> columns[i].position < columns[j].position
    BY <1>9, <1>10
  <2> QED BY <1>2, <1>11, <2>1, <2>2, OrderIsPositions
<1>16. last'.op = "add_column" /\ last'.id = id BY <1>1
<1>17. DOMAIN k \ {id} = DOMAIN columns /\ DOMAIN columns \ {id} = DOMAIN columns BY <1>8
<1>18. Shown BY <1>7, <1>15, <1>16, <1>17 DEF Shown
<1> QED BY <1>14, <1>18

LEMMA UpdateColumnShows ==
    ASSUME LayoutInv, Layout!LayoutAssumption, NEW id \in DOMAIN columns, NEW target \in Targets,
           NEW wanted \in -1..MaxPosition, Layout!UpdateColumn(id, target, wanted)
    PROVE  LayoutInv' /\ Shown
<1> DEFINE D == DOMAIN columns \ {id}
           m == IF wanted = -1 THEN columns ELSE Layout!Moved(id, wanted)
<1>1. /\ columns' = [m EXCEPT ![id].target = target] /\ nextId' = nextId /\ stocks' = stocks
      /\ last' = [op |-> "update_column", id |-> id, position |-> wanted]
  BY DEF Layout!UpdateColumn
<1>2. RowsOk(columns) /\ \A i \in DOMAIN columns : columns[i] \in Layout!Column BY DEF LayoutInv
<1>3. wanted # -1 => wanted \in Nat BY DEF Layout!LayoutAssumption
<1>4. /\ DOMAIN m = DOMAIN columns /\ RowsOk(m) /\ \A i \in DOMAIN m : m[i] \in Layout!Column
      /\ \A i, j \in D : Layout!Before(m, i, j) <=> Layout!Before(columns, i, j)
      /\ wanted # -1 => Layout!Index(m, id) = Layout!Min({wanted, Cardinality(D)})
  <2>1. CASE wanted = -1 BY <1>2, <2>1
  <2>2. CASE wanted # -1
    <3>1. m = Layout!Moved(id, wanted) BY <2>2
    <3> HIDE DEF m, D
    <3> QED BY <1>2, <1>3, <2>2, <3>1, MovedIsShown DEF D
  <2> QED BY <2>1, <2>2
<1> HIDE DEF m
<1>5. PICK k : k = columns' OBVIOUS
<1>6. /\ DOMAIN k = DOMAIN columns
      /\ \A i \in DOMAIN k : k[i] \in Layout!Column /\ k[i].position = m[i].position
  <2>1. k = [m EXCEPT ![id].target = target] BY <1>1, <1>5
  <2>2. DOMAIN k = DOMAIN columns BY <1>4, <2>1
  <2>3. ASSUME NEW i \in DOMAIN k PROVE k[i] \in Layout!Column /\ k[i].position = m[i].position
    <3>1. m[i] \in Layout!Column BY <1>4, <2>2
    <3>2. CASE i = id
      <4>1. k[i] = [m[i] EXCEPT !.target = target] BY <1>4, <2>1, <3>2
      <4> QED BY <3>1, <4>1 DEF Layout!Column
    <3>3. CASE i # id
      <4>1. k[i] = m[i] BY <1>4, <2>1, <2>2, <3>3
      <4> QED BY <3>1, <4>1
    <3> QED BY <3>2, <3>3
  <2> QED BY <2>2, <2>3
<1>7. RowsOk(k)
  <2>1. IsFiniteSet(DOMAIN k) /\ DOMAIN k \subseteq Nat BY <1>4, <1>6 DEF RowsOk
  <2>2. \A i \in DOMAIN k : k[i].position \in Nat BY <1>4, <1>6 DEF RowsOk
  <2>3. Layout!PositionsDistinct(k) BY <1>4, <1>6 DEF RowsOk, Layout!PositionsDistinct
  <2> QED BY <2>1, <2>2, <2>3 DEF RowsOk
<1>8. \A i, j \in DOMAIN k : Layout!Before(k, i, j) <=> Layout!Before(m, i, j)
  BY <1>4, <1>6, <1>7, BeforeIsPosition
<1>9. Layout!Index(k, id) = Layout!Index(m, id)
  <2>1. {i \in DOMAIN k : Layout!Before(k, i, id)} = {i \in DOMAIN m : Layout!Before(m, i, id)}
    BY <1>4, <1>6, <1>8
  <2> QED BY <2>1 DEF Layout!Index
<1>10. LayoutInv'
  <2>1. /\ DOMAIN nextId = {"column", "stock"} /\ nextId.column \in Nat
        /\ \A i \in DOMAIN columns : i < nextId.column
    BY DEF LayoutInv
  <2>2. DOMAIN k # {} BY <1>6
  <2> QED BY <1>1, <1>5, <1>6, <1>7, <2>1, <2>2, ColumnsKeep
<1>11. Shown
  <2>1. last'.op = "update_column" /\ last'.id = id /\ last'.position = wanted BY <1>1
  <2>2. DOMAIN k \ {id} = D BY <1>6
  <2>3. \A i, j \in D : Layout!Before(k, i, j) <=> Layout!Before(columns, i, j) BY <1>4, <1>6, <1>8
  <2>4. wanted # -1 => Layout!Index(k, id) = Layout!Min({wanted, Layout!Cardinality(D)})
    BY <1>4, <1>9, SameCardinality
  <2> HIDE DEF D
  <2> QED BY <1>5, <2>1, <2>2, <2>3, <2>4 DEF Shown, D
<1> QED BY <1>10, <1>11

LEMMA DeleteColumnShows ==
    ASSUME LayoutInv, NEW id \in DOMAIN columns, Layout!DeleteColumn(id)
    PROVE  LayoutInv' /\ Shown
<1>1. /\ columns' = Layout!Without(columns, id) /\ nextId' = nextId /\ stocks' = stocks
      /\ last' = [op |-> "delete_column", id |-> id]
  BY DEF Layout!DeleteColumn
<1>2. PICK k : k = columns' OBVIOUS
<1>3. DOMAIN k = DOMAIN columns \ {id} /\ \A i \in DOMAIN k : k[i] = columns[i]
  BY <1>1, <1>2 DEF Layout!Without
<1>4. IsFiniteSet(DOMAIN k) BY <1>3, FS_Subset DEF LayoutInv, RowsOk
<1>5. RowsOk(k) BY <1>3, <1>4 DEF LayoutInv, RowsOk, Layout!PositionsDistinct
<1>6. DOMAIN k = {} => k = <<>> BY <1>1, <1>2, <1>3, EmptyRows DEF Layout!Without
<1>7. LayoutInv'
  <2>1. /\ DOMAIN nextId = {"column", "stock"} /\ nextId.column \in Nat
        /\ \A i \in DOMAIN columns : i < nextId.column /\ columns[i] \in Layout!Column
    BY DEF LayoutInv
  <2> QED BY <1>1, <1>2, <1>3, <1>5, <1>6, <2>1, ColumnsKeep
<1>8. \A i, j \in DOMAIN k : Layout!Before(k, i, j) <=> Layout!Before(columns, i, j)
  BY <1>3 DEF Layout!Before
<1>9. Shown
  <2>1. last'.op = "delete_column" /\ last'.id = id BY <1>1
  <2>2. DOMAIN k \ {id} = DOMAIN columns \ {id} /\ DOMAIN k \ {id} = DOMAIN k BY <1>3
  <2> QED BY <1>2, <1>8, <2>1, <2>2 DEF Shown
<1> QED BY <1>7, <1>9

LEMMA ReorderColumnsShows ==
    ASSUME LayoutInv, NEW n \in Nat, NEW ids \in [1..n -> DOMAIN columns], Layout!ReorderColumns(ids)
    PROVE  LayoutInv' /\ Shown
<1>1. /\ columns' = [i \in DOMAIN columns |-> [columns[i] EXCEPT !.position =
                        (CHOOSE m \in DOMAIN ids : ids[m] = i) - 1]]
      /\ Layout!IsInjective(ids) /\ Layout!Range(ids) = DOMAIN columns /\ nextId' = nextId /\ stocks' = stocks
      /\ last' = [op |-> "reorder_columns", ids |-> ids]
  BY DEF Layout!ReorderColumns
<1>2. RowsOk(columns) /\ \A i \in DOMAIN columns : columns[i] \in Layout!Column BY DEF LayoutInv
<1>3. PICK k : k = columns' OBVIOUS
<1>4. /\ DOMAIN k = DOMAIN columns /\ RowsOk(k)
      /\ \A i \in DOMAIN k : k[i] \in Layout!Column
      /\ \A m \in DOMAIN ids : Layout!Index(k, ids[m]) = m - 1
  <2>1. k = [i \in DOMAIN columns |-> [columns[i] EXCEPT !.position =
                (CHOOSE m \in DOMAIN ids : ids[m] = i) - 1]]
    BY <1>1, <1>3
  <2> QED BY <1>1, <1>2, <2>1, ReorderedIsShown
<1>5. DOMAIN k = {} => k = <<>> BY <1>1, <1>3, <1>4, EmptyRows
<1>6. LayoutInv'
  <2>1. /\ DOMAIN nextId = {"column", "stock"} /\ nextId.column \in Nat
        /\ \A i \in DOMAIN columns : i < nextId.column
    BY DEF LayoutInv
  <2> QED BY <1>1, <1>3, <1>4, <1>5, <2>1, ColumnsKeep
<1>7. Shown
  <2>1. last'.op = "reorder_columns" /\ last'.ids = ids BY <1>1
  <2> QED BY <1>1, <1>3, <1>4, <2>1 DEF Shown
<1> QED BY <1>6, <1>7

LEMMA EditsShow ==
    ASSUME LayoutInv, Layout!LayoutAssumption, Layout!Next
    PROVE  LayoutInv' /\ Shown
<1>1. CASE \E s \in Securities : Layout!AddStock(s) BY <1>1, AddStockShows
<1>2. CASE \E i \in DOMAIN stocks : Layout!RemoveStock(i) BY <1>2, RemoveStockShows
<1>3. ASSUME NEW items \in Layout!SeqOf([security : Securities, position : 0 .. MaxPosition],
                                        Layout!Cardinality(Securities)),
             Layout!ReorderStocks(items)
      PROVE  LayoutInv' /\ Shown
  <2>1. PICK n \in 0..Layout!Cardinality(Securities) :
          items \in [1..n -> [security : Securities, position : 0..MaxPosition]]
    BY DEF Layout!SeqOf
  <2>2. n \in Nat OBVIOUS
  <2> QED BY <1>3, <2>1, <2>2, ReorderStocksShows
<1>4. CASE \E target \in Targets, wanted \in -1 .. MaxPosition : Layout!AddColumn(target, wanted)
  BY <1>4, AddColumnShows
<1>5. CASE \E id \in DOMAIN columns, target \in Targets, wanted \in -1 .. MaxPosition :
              Layout!UpdateColumn(id, target, wanted)
  BY <1>5, UpdateColumnShows
<1>6. CASE \E id \in DOMAIN columns : Layout!DeleteColumn(id) BY <1>6, DeleteColumnShows
<1>7. ASSUME NEW ids \in Layout!SeqOf(DOMAIN columns, Layout!Cardinality(DOMAIN columns)),
             Layout!ReorderColumns(ids)
      PROVE  LayoutInv' /\ Shown
  <2>1. PICK n \in 0..Layout!Cardinality(DOMAIN columns) : ids \in [1..n -> DOMAIN columns]
    BY DEF Layout!SeqOf
  <2>2. n \in Nat OBVIOUS
  <2> QED BY <1>7, <2>1, <2>2, ReorderColumnsShows
<1> QED BY <1>1, <1>2, <1>3, <1>4, <1>5, <1>6, <1>7 DEF Layout!Next

(* No two columns and no two stocks of a table share a position, so the     *)
(* list views and the detail view show the same order.                      *)
THEOREM LayoutInvariant ==
    ASSUME Layout!LayoutAssumption
    PROVE  Layout!Spec => []LayoutInv
<1>1. Layout!Init => LayoutInv BY LayoutInit
<1>2. LayoutInv /\ [Layout!Next]_(Layout!vars) => LayoutInv'
  <2>1. LayoutInv /\ UNCHANGED Layout!vars => LayoutInv' BY DEF LayoutInv, Layout!vars
  <2> QED BY <2>1, EditsShow
<1> QED BY <1>1, <1>2, PTL DEF Layout!Spec

(* TableLayout!EditsShowWhatWasAsked: each edit shows what was asked, after *)
(* any sequence of edits of any number of columns and stocks.               *)
THEOREM EveryEditShows ==
    ASSUME Layout!LayoutAssumption
    PROVE  Layout!Spec => EditsShowWhatWasAsked
<1> DEFINE edit ==
             LET others == DOMAIN columns' \ {last'.id}
                 ids == last'.ids
             IN /\ last'.op \in {"add_column", "update_column", "delete_column"} =>
                      /\ others = DOMAIN columns \ {last'.id}
                      /\ \A i, j \in others : Layout!Before(columns', i, j) <=> Layout!Before(columns, i, j)
                /\ last'.op = "update_column" /\ last'.position # -1 =>
                      Layout!Index(columns', last'.id)
                         = Layout!Min({last'.position, Layout!Cardinality(others)})
                /\ last'.op = "reorder_columns" =>
                      Layout!Range(ids) = DOMAIN columns'
                      /\ \A n \in DOMAIN ids : Layout!Index(columns', ids[n]) = n - 1
                /\ Layout!PositionsDistinct(columns') /\ Layout!PositionsDistinct(stocks')
<1>1. LayoutInv' => Layout!PositionsDistinct(columns') /\ Layout!PositionsDistinct(stocks')
  BY DEF LayoutInv, RowsOk
<1>2. LayoutInv' /\ Shown => edit BY <1>1 DEF Shown
<1>3. LayoutInv /\ [Layout!Next]_(Layout!vars) => [edit]_(Layout!vars) BY <1>2, EditsShow
<1>4. [][edit]_(Layout!vars) => EditsShowWhatWasAsked
  BY DEF EditsShowWhatWasAsked, Layout!EditsShowWhatWasAsked
<1> QED BY <1>3, <1>4, LayoutInvariant, PTL DEF Layout!Spec
=============================================================================
