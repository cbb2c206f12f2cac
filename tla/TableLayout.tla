----------------------------- MODULE TableLayout -----------------------------
(***************************************************************************)
(* The columns and stocks of one watch table and the order they are shown  *)
(* in.  Every handler holds the account lock (Monitoring), so here each is *)
(* one step.  A column is the target it displays (type, indicator, state   *)
(* code and canonical parameters: the identity find_duplicate_column       *)
(* compares) and a position; gaps are allowed.  The detail view orders by  *)
(* position alone, the list views by position and id.                      *)
(***************************************************************************)
EXTENDS Integers, FiniteSets, FiniteSetsExt, Sequences, SequencesExt, Functions

CONSTANTS Targets,          \* column identities
          Securities,       \* security ids
          MaxId,            \* bound on row ids
          MaxPosition       \* largest position a request asks for

\* A request asks for a natural position, or for none.
LayoutAssumption == MaxPosition \in Nat

VARIABLES columns,          \* table_columns: id -> target, position
          stocks,           \* watch_table_symbols: id -> security, position
          nextId,           \* id sequences of the two tables
          last              \* the request answered last, for the action properties

vars == <<columns, stocks, nextId, last>>

Column == [target : Targets, position : Nat]
Stock == [security : Securities, position : Nat]
Positions(rows) == {rows[i].position : i \in DOMAIN rows}

\* order_by(position, id).
Before(rows, a, b) ==
    \/ rows[a].position < rows[b].position
    \/ rows[a].position = rows[b].position /\ a < b
\* The index of a row in the list of rows shown, from 0.
Index(rows, id) == Cardinality({i \in DOMAIN rows : Before(rows, i, id)})

\* next_column_position and next_symbol_position.
NextPosition(rows) == IF rows = <<>> THEN 0 ELSE Max(Positions(rows)) + 1

Duplicate(target, except) == \E i \in DOMAIN columns \ except : columns[i].target = target

With(rows, id, row) == [i \in DOMAIN rows \union {id} |-> IF i = id THEN row ELSE rows[i]]
Without(rows, id) == [i \in DOMAIN rows \ {id} |-> rows[i]]

\* create: one column per default indicator, in the order of the user's settings.
Init ==
    \E defaults \in SeqOf(Targets, 2) :
        /\ columns = [i \in 1 .. Len(defaults) |-> [target |-> defaults[i], position |-> i - 1]]
        /\ stocks = <<>>
        /\ nextId = [column |-> Len(defaults) + 1, stock |-> 1]
        /\ last = [op |-> "create"]

-----------------------------------------------------------------------------
(* Stocks.                                                                 *)

AddStock(s) ==
    /\ nextId.stock <= MaxId
    /\ \A i \in DOMAIN stocks : stocks[i].security # s
    /\ stocks' = With(stocks, nextId.stock, [security |-> s, position |-> NextPosition(stocks)])
    /\ nextId' = [nextId EXCEPT !.stock = @ + 1]
    /\ last' = [op |-> "add_stock"]
    /\ UNCHANGED columns

RemoveStock(i) ==
    /\ stocks' = Without(stocks, i)
    /\ last' = [op |-> "remove_stock"]
    /\ UNCHANGED <<columns, nextId>>

\* Every stock exactly once, all positions different.
ValidStockOrder(items) ==
    /\ \A m, n \in DOMAIN items :
          m # n => items[m].security # items[n].security /\ items[m].position # items[n].position
    /\ {items[n].security : n \in DOMAIN items} = {stocks[i].security : i \in DOMAIN stocks}

ReorderStocks(items) ==
    /\ items # <<>> /\ ValidStockOrder(items)
    /\ stocks' = [i \in DOMAIN stocks |->
          [stocks[i] EXCEPT !.position =
              items[CHOOSE n \in DOMAIN items : items[n].security = stocks[i].security].position]]
    /\ last' = [op |-> "reorder_stocks"]
    /\ UNCHANGED <<columns, nextId>>

-----------------------------------------------------------------------------
(* Columns.                                                                *)

\* add_column: columns at or after the wanted position move one place down.
Shifted(position) ==
    [i \in DOMAIN columns |->
        IF columns[i].position >= position THEN [columns[i] EXCEPT !.position = @ + 1] ELSE columns[i]]

AddColumn(target, wanted) ==
    LET end == NextPosition(columns)
        position == IF wanted = -1 THEN end ELSE Min({wanted, end})
        others == IF wanted = -1 THEN columns ELSE Shifted(position)
    IN
    /\ nextId.column <= MaxId
    /\ ~Duplicate(target, {})
    /\ columns' = With(others, nextId.column, [target |-> target, position |-> position])
    /\ nextId' = [nextId EXCEPT !.column = @ + 1]
    /\ last' = [op |-> "add_column", id |-> nextId.column, position |-> position]
    /\ UNCHANGED stocks

\* Mutant of Moved: the index in the full list, the moved column included.
MovedInFullList(id, wanted) ==
    LET position == Min({wanted, Cardinality(DOMAIN columns)})
        place(i) == IF Index(columns, i) < position THEN Index(columns, i) ELSE Index(columns, i) + 1
    IN [i \in DOMAIN columns |->
           [columns[i] EXCEPT !.position = IF i = id THEN position ELSE place(i)]]

\* _move_column: the others are renumbered around the wanted index.
Moved(id, wanted) ==
    LET rows == Without(columns, id)
        position == Min({wanted, Cardinality(DOMAIN rows)})
        place(i) == IF Index(rows, i) < position THEN Index(rows, i) ELSE Index(rows, i) + 1
    IN [i \in DOMAIN columns |->
           [columns[i] EXCEPT !.position = IF i = id THEN position ELSE place(i)]]

\* update_column refuses a target some other column has.
Acceptable(id, target) == ~Duplicate(target, {id})

UpdateColumn(id, target, wanted) ==
    /\ Acceptable(id, target)
    /\ columns' = [(IF wanted = -1 THEN columns ELSE Moved(id, wanted)) EXCEPT ![id].target = target]
    /\ last' = [op |-> "update_column", id |-> id, position |-> wanted]
    /\ UNCHANGED <<stocks, nextId>>

DeleteColumn(id) ==
    /\ columns' = Without(columns, id)
    /\ last' = [op |-> "delete_column", id |-> id]
    /\ UNCHANGED <<stocks, nextId>>

\* reorder_columns: every column exactly once, renumbered from 0.
ReorderColumns(ids) ==
    /\ ids # <<>> /\ IsInjective(ids) /\ Range(ids) = DOMAIN columns
    /\ columns' = [i \in DOMAIN columns |-> [columns[i] EXCEPT !.position =
          (CHOOSE n \in DOMAIN ids : ids[n] = i) - 1]]
    /\ last' = [op |-> "reorder_columns", ids |-> ids]
    /\ UNCHANGED <<stocks, nextId>>

-----------------------------------------------------------------------------

Next ==
    \/ \E s \in Securities : AddStock(s)
    \/ \E i \in DOMAIN stocks : RemoveStock(i)
    \/ \E items \in SeqOf([security : Securities, position : 0 .. MaxPosition], Cardinality(Securities)) :
          ReorderStocks(items)
    \/ \E target \in Targets, wanted \in -1 .. MaxPosition : AddColumn(target, wanted)
    \/ \E id \in DOMAIN columns, target \in Targets, wanted \in -1 .. MaxPosition :
          UpdateColumn(id, target, wanted)
    \/ \E id \in DOMAIN columns : DeleteColumn(id)
    \/ \E ids \in SeqOf(DOMAIN columns, Cardinality(DOMAIN columns)) : ReorderColumns(ids)

Spec == Init /\ [][Next]_vars

-----------------------------------------------------------------------------

PositionsDistinct(rows) == \A i, j \in DOMAIN rows : i # j => rows[i].position # rows[j].position

\* After any sequence of edits each one shows what was asked: adding, moving or
\* deleting a column leaves the order of the others, a moved column is shown at the
\* index asked for or last, reorder_columns shows the order asked for; and no two
\* columns or stocks share a position, so the detail view, which orders by position
\* alone, and the list views, which break ties by id, agree.
EditsShowWhatWasAsked ==
    [][LET others == DOMAIN columns' \ {last'.id}
           ids == last'.ids
       IN /\ last'.op \in {"add_column", "update_column", "delete_column"} =>
                /\ others = DOMAIN columns \ {last'.id}
                /\ \A i, j \in others : Before(columns', i, j) <=> Before(columns, i, j)
          /\ last'.op = "update_column" /\ last'.position # -1 =>
                Index(columns', last'.id) = Min({last'.position, Cardinality(others)})
          /\ last'.op = "reorder_columns" =>
                Range(ids) = DOMAIN columns' /\ \A n \in DOMAIN ids : Index(columns', ids[n]) = n - 1
          /\ PositionsDistinct(columns') /\ PositionsDistinct(stocks')]_vars
=============================================================================
