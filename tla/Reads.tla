-------------------------------- MODULE Reads --------------------------------
(***************************************************************************)
(* What users read and where it comes from: the modules of the read API    *)
(* and of the market data behind it side by side, each with variables of   *)
(* its own, and what must hold of them.                                    *)
(***************************************************************************)
EXTENDS Integers

CONSTANT Nothing   \* the markers for NULL and absent rows

-----------------------------------------------------------------------------
(* The security master.                                                    *)
CONSTANTS Callers, Bootstrap, Symbols, Segments, Flights, Timeout, Shrinkage, MaxTime, MaxSyncs
VARIABLES closed, inflight, inflight_deadline, flight, thread, caller, securities, syncs,
          bootstrap, now
Master == INSTANCE SecurityMaster WITH None <- Nothing, clock <- now

(* The price and the dividend-yield cell.                                  *)
CONSTANTS Stocks, TradeDates, Year, MaxWrites
VARIABLES quoted, closes, dividends, request
Yield == INSTANCE YieldColumn WITH
    None <- Nothing,
    Securities <- Stocks, Days <- TradeDates, Window <- Year, quotes <- quoted

(* One table over one security.                                            *)
CONSTANTS AddedColumns, Rules, DefaultPeriods, OtherTypes, OtherDepth, MaxBars, MaxEdits,
          MaxPublications
VARIABLES columns, rules, bars, demand_generation, published, snapshot, states, served
Table == INSTANCE TableDetail WITH
    None <- Nothing, Columns <- AddedColumns, reader <- served

(* The trading calendar.                                                   *)
CONSTANTS Years, Seeded, Weekend, Manifests, Tasks, BackfillDays
VARIABLES calendar, import, task
Calendar == INSTANCE TradingCalendar WITH None <- Nothing, Window <- BackfillDays

(* Quotes and dividends.                                                   *)
CONSTANTS Monitored, BatchSize, ChunkSize, Ids, OtherKinds, QuoteTime, MaxFaults, MaxAttempts
VARIABLES known, defect, clock, stored, hub, refresh, faults
Quote == INSTANCE QuoteRefresh WITH
    None <- Nothing, Symbols <- Monitored, MaxTime <- QuoteTime, task <- refresh

-----------------------------------------------------------------------------
(* Properties: those of the modules.                                       *)

\* One thread at most is inside AKShare.
OneSourceCall == Master!OneSourceCall
\* A late caller of AKShare does not extend the budget of the call it joins.
BudgetIsTheFlights == Master!BudgetIsTheFlights
\* A yield belongs to the price next to it and to its year.
YieldIsOfItsRow == Yield!YieldIsOfItsRow
\* WatchTableService.detail mixes no publications.
CellsAreOnePublication == Table!CellsAreOnePublication
\* A row that says READY holds what its columns asked for.
ReadyRowsAreComplete == Table!ReadyRowsAreComplete
\* A state column shows the pair it was set to.
ColumnStatesAreItsOwn == Table!ColumnStatesAreItsOwn
\* A validated day of the calendar has a proven predecessor.
BackfillProvesContinuity == Calendar!BackfillProvesContinuity
\* The Hub isolates a bad symbol and keeps the others.
OneBadSymbolCostsNoOther == Quote!OneBadSymbolCostsNoOther
\* A completed refresh left a quote of its attempt.
CompletedMeansFresh == Quote!CompletedMeansFresh
=============================================================================
