------------------------------- MODULE MCReads -------------------------------
(***************************************************************************)
(* What users read and where it comes from: small instances of the modules *)
(* of the read API and of the market data behind it.  The initial state    *)
(* picks a scenario; the variables the scenario does not use do not change.*)
(***************************************************************************)
EXTENDS EventPaging, Reads

CONSTANTS s1, s2, c1, c2, quotes, eod

VARIABLE scenario

timeline == <<edge_mode, edition, reading, dirty_from, state_through, event_sequence,
              state_generation, events, current, reader>>
table == <<columns, rules, bars, demand_generation, published, snapshot, states, served>>
yield == <<quoted, closes, dividends, request>>
quote == <<known, defect, clock, stored, hub, refresh, faults>>
master == <<closed, inflight, inflight_deadline, flight, thread, caller, securities, syncs, bootstrap, now>>
days == <<calendar, import, task>>

-----------------------------------------------------------------------------
(* One table over one security.  Periods 1, 2 and 3 stand for 5, 10, 20.   *)
Column(view, column_type, type, periods, field) ==
    [view |-> view, column_type |-> column_type, type |-> type, periods |-> periods, field |-> field]
ShownColumns ==
    {Column("NUMBER", "INDICATOR", "MA", {1, 3}, 3), Column("NUMBER", "INDICATOR", "MA", {1, 3}, 2),
     Column("COMPOSITE", "INDICATOR", "MA", {1, 2, 3}, 0), Column("STATUS", "STATE", "MA", {1, 3}, 0),
     Column("STATUS", "INDICATOR", "KDJ", {}, 0)}
RuleTargets == {[type |-> "MA", periods |-> {2, 3}]}

\* Two attempts of the refresh task with a lost answer; beside it one request of the
\* Hub of two chunks, one of them with several symbols to isolate.
RefreshedSymbols == <<1, 2>>
Isolation == INSTANCE QuoteRefresh WITH
    None <- Nothing,
    Symbols <- <<1, 2, 3, 4>>, BatchSize <- 4, Ids <- {1}, MaxTime <- 1, MaxFaults <- 1,
    MaxAttempts <- 0, OtherKinds <- {"quotes", "dividends"}, task <- refresh

\* Three AKShare calls of two callers, with the providers closing before the last request;
\* beside them one caller with batches of two symbols in two segments.
Universe == INSTANCE SecurityMaster WITH
    None <- Nothing,
    Callers <- {c1}, Symbols <- {1, 2}, Segments <- {1, 2}, Flights <- {1}, clock <- now

\* A seeded year of one day, a new year, schedules that may be refused.  Two tasks
\* compete over these; one task alone also validates days of the year after, and may
\* leave days before its window that nobody has looked at.
Submitted == {[year |-> {1}, closed_ranges |-> {<<1, 1>>}],
              [year |-> {2, 3}, closed_ranges |-> {<<2, 2>>}],
              [year |-> {2, 3}, closed_ranges |-> {<<2, 3>>, <<3, 3>>}],
              [year |-> {2, 3}, closed_ranges |-> {<<1, 2>>}]}
ReachedDays == 1..3
Alone == INSTANCE TradingCalendar WITH None <- Nothing, Window <- BackfillDays, Tasks <- {eod}

\* What the proofs assume of the constants.
ASSUME Assumptions ==
    /\ PagingAssumption /\ Table!TableAssumption /\ Yield!YieldAssumption
    /\ Calendar!CalendarAssumption /\ Quote!QuoteAssumption /\ Isolation!QuoteAssumption
    /\ Master!MasterAssumption /\ Universe!MasterAssumption

-----------------------------------------------------------------------------
NoTimeline ==
    /\ edge_mode = 0 /\ edition = 0 /\ reading = 0 /\ dirty_from = 0 /\ state_through = 0
    /\ event_sequence = 0 /\ state_generation = 0 /\ events = 0 /\ current = 0 /\ reader = 0
NoQuotes ==
    /\ known = {} /\ defect = <<>> /\ clock = 0 /\ stored = <<>> /\ hub = <<>> /\ faults = 0
    /\ refresh = Quote!NoTask

MCInit ==
    /\ scenario \in {"paging", "table", "yield", "isolation", "refresh", "flight", "universe", "calendar", "gap"}
    /\ IF scenario = "paging" THEN PagingInit ELSE NoTimeline
    /\ Table!Init /\ Yield!Init /\ Calendar!Init
    /\ CASE scenario = "isolation" -> Isolation!Init
         [] scenario = "refresh" -> Quote!Init
         [] OTHER -> NoQuotes
    /\ IF scenario = "universe" THEN Universe!Init ELSE Master!Init

MCNext ==
    /\ UNCHANGED scenario
    /\ \/ /\ scenario = "paging" /\ PagingNext
          /\ UNCHANGED <<table, yield, quote, master, days>>
       \/ /\ scenario = "table" /\ Table!Next
          /\ UNCHANGED <<timeline, yield, quote, master, days>>
       \/ /\ scenario = "yield" /\ Yield!Next
          /\ UNCHANGED <<timeline, table, quote, master, days>>
       \/ /\ scenario = "isolation" /\ Isolation!Next
          /\ UNCHANGED <<timeline, table, yield, master, days>>
       \/ /\ scenario = "refresh" /\ Quote!Next
          /\ UNCHANGED <<timeline, table, yield, master, days>>
       \/ /\ scenario = "flight" /\ Master!Next
          /\ syncs = MaxSyncs => UNCHANGED closed
          /\ UNCHANGED <<timeline, table, yield, quote, days>>
       \/ /\ scenario = "universe" /\ Universe!Next
          /\ UNCHANGED <<timeline, table, yield, quote, days>>
       \/ /\ scenario = "calendar" /\ Calendar!Next
          /\ \A t \in Tasks : "target" \in DOMAIN task'[t] => task'[t].target \in ReachedDays
          /\ UNCHANGED <<timeline, table, yield, quote, master>>
       \/ /\ scenario = "gap" /\ Alone!Next
          /\ UNCHANGED <<timeline, table, yield, quote, master>>
MCSpec == MCInit /\ [][MCNext]_<<scenario, timeline, table, yield, quote, master, days>>
=============================================================================
