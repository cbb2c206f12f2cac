--------------------------- MODULE MCTradingCalendar ---------------------------
(* Two years, the first one seeded, and the manifests of an operator: the   *)
(* schedule of each year, a correction of it, and two that are refused.     *)
EXTENDS TradingCalendar

OldYear == {1}
NewYear == {2, 3, 4}
TwoYears == {OldYear, NewYear}
OldOnly == {OldYear}
Submitted == {[year |-> OldYear, closed_ranges |-> {<<1, 1>>}],
              [year |-> NewYear, closed_ranges |-> {<<3, 3>>}],
              [year |-> NewYear, closed_ranges |-> {<<2, 3>>, <<3, 4>>}],
              [year |-> NewYear, closed_ranges |-> {<<1, 3>>}]}
=============================================================================
