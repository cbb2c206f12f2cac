---------------------------- MODULE MCTableDetail ----------------------------
(***************************************************************************)
(* One table over one security.  Periods 1, 2 and 3 stand for 5, 10, 20.   *)
(***************************************************************************)
EXTENDS TableDetail

Column(view, column_type, type, periods, field) ==
    [view |-> view, column_type |-> column_type, type |-> type, periods |-> periods, field |-> field]
\* The example of docs/api.md: the state of the MA pair 1/3, as the frontend sends it.
DocumentedColumns == {Column("STATUS", "INDICATOR", "MA", {1, 3}, 0)}
=============================================================================
