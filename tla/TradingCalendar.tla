---------------------------- MODULE TradingCalendar ----------------------------
(***************************************************************************)
(* The shared trading calendar.  Two writers know nothing of each other:   *)
(* the operator's annual import (Backend, a transaction that locks the     *)
(* rows of the year) and the Hub's validation of a reached date against    *)
(* the provider's workdays (an unlocked read followed by an ORM flush,     *)
(* which writes the columns that changed in ITS session).  Scheduled tasks *)
(* trigger the validation of a window of days when their own day is not    *)
(* available, and the state engine reads predecessors from the result.     *)
(***************************************************************************)
EXTENDS Integers, FiniteSets, FiniteSetsExt

CONSTANTS Years,      \* the years, each a set of days (integers)
          Seeded,     \* the years the migration seeds
          Weekend,    \* days
          Manifests,  \* records [year, closed_ranges]: what an operator may submit
          Tasks,      \* scheduled tasks that need the calendar (quotes, EOD)
          Window,     \* CALENDAR_ACTUAL_BACKFILL_DAYS
          None

Days == UNION Years
Targets == {d \in Days : d - Window \in Days}

VARIABLES calendar,   \* per day a row, or None
          import,     \* the import transaction between its SELECT and its COMMIT
          task        \* per task its validation loop, with the Hub request it waits for
vars == <<calendar, import, task>>

\* A stored row.
Row == [expected : BOOLEAN \union {None}, actual : BOOLEAN \union {None},
        status : {"OPEN", "CLOSED", "UNKNOWN"}, source : {"seed", "official", "provider"}]

\* Days are numbered without gaps: a year that was never imported has days without rows.
CalendarAssumption ==
    /\ Days \subseteq Int /\ \A d, e \in Days : d..e \subseteq Days
    /\ Window \in Nat /\ None \notin Row

Idle == [pc |-> "idle"]
Verdict(open) == IF open THEN "OPEN" ELSE "CLOSED"

-----------------------------------------------------------------------------
(* The annual import.                                                      *)

\* parse_annual_calendar: closures lie in the year, are non-empty and do not overlap.
Valid(m) ==
    /\ m.closed_ranges # {}
    /\ \A r \in m.closed_ranges : {r[1], r[2]} \subseteq m.year /\ r[1] <= r[2]
    /\ \A r, q \in m.closed_ranges : r # q => r[2] < q[1] \/ q[2] < r[1]

\* AnnualCalendar.expected_days
Expected(m) ==
    [d \in m.year |-> ~(d \in Weekend \/ \E r \in m.closed_ranges : r[1] <= d /\ d <= r[2])]

\* _seed_trading_calendar: the seed has weekends; its closures are left to the imports.
Seed(d) == [expected |-> d \notin Weekend, actual |-> None, status |-> Verdict(d \notin Weekend), source |-> "seed"]
Init ==
    /\ calendar = [d \in Days |-> IF d \in UNION Seeded THEN Seed(d) ELSE None]
    /\ import = None
    /\ task = [t \in Tasks |-> Idle]

Present(days) == {d \in days : calendar[d] # None}
Differs(m) == \E d \in Present(m.year) : calendar[d].expected \notin {None, Expected(m)[d]}

\* SELECT ... FOR UPDATE of the rows of the year.  A schedule that differs from the
\* stored one is refused unless the operator asked for a replacement.
ImportBegin(m, replace_existing) ==
    /\ import = None /\ Valid(m)
    /\ replace_existing \/ ~Differs(m)
    /\ import' = [manifest |-> m, locked |-> Present(m.year)]
    /\ UNCHANGED <<calendar, task>>

\* The row the import leaves: an observation is kept, and a conflict with it is UNKNOWN.
\* A row already imported with this expectation is skipped.
Imported(row, open) ==
    IF row = None THEN [expected |-> open, actual |-> None, status |-> Verdict(open), source |-> "official"]
    ELSE IF row.expected = open /\ row.source = "official" THEN row
    ELSE [expected |-> open, actual |-> row.actual, source |-> "official",
          status |-> IF row.actual \notin {None, open} THEN "UNKNOWN" ELSE Verdict(open)]
ImportCommit ==
    /\ import # None
    /\ Present(import.manifest.year) = import.locked
    /\ calendar' = [d \in Days |-> IF d \in import.manifest.year
                                   THEN Imported(calendar[d], Expected(import.manifest)[d]) ELSE calendar[d]]
    /\ import' = None /\ UNCHANGED task
\* A row appeared since the SELECT: the INSERT of its day breaks the primary key.
ImportFails ==
    /\ import # None
    /\ Present(import.manifest.year) # import.locked
    /\ import' = None /\ UNCHANGED <<calendar, task>>

-----------------------------------------------------------------------------
(* A scheduled task: TradingCalendarService.is_open, then, when the day is *)
(* unavailable, _validate_missing_calendar_date.                           *)

Available(d) == IF calendar[d] = None THEN FALSE ELSE calendar[d].status # "UNKNOWN"

BackfillStart(target) == target - Window

Call(t, target, candidate) ==
    task' = [task EXCEPT ![t] = [pc |-> "ask", target |-> target, candidate |-> candidate]]
Start(t, target) ==
    /\ task[t] = Idle /\ ~Available(target)
    /\ Call(t, target, BackfillStart(target))
    /\ UNCHANGED <<calendar, import>>

\* The task ends: the Hub answered with an error or with UNKNOWN, or the day is known.
Abort(t) == task' = [task EXCEPT ![t] = Idle]
Finish(t) ==
    /\ task[t].pc = "done"
    /\ Abort(t) /\ UNCHANGED <<calendar, import>>

\* CalendarValidationService.validate: the provider says whether the day was open.
Ask(t, actual) ==
    /\ task[t].pc = "ask"
    /\ task' = [task EXCEPT ![t] = [pc |-> "read", target |-> task[t].target, candidate |-> task[t].candidate,
                                    actual |-> actual]]
    /\ UNCHANGED <<calendar, import>>
AskFails(t) ==
    /\ task[t].pc = "ask"
    /\ Abort(t) /\ UNCHANGED <<calendar, import>>

\* SqlAlchemyTradingCalendarRepository.validate reads the row and takes no lock ...
Read(t) ==
    /\ task[t].pc = "read"
    /\ task' = [task EXCEPT ![t] = [pc |-> "write", target |-> task[t].target, candidate |-> task[t].candidate,
                                    actual |-> task[t].actual, row |-> calendar[task[t].candidate]]]
    /\ UNCHANGED <<calendar, import>>

\* ... decides on what it read ...
Validated(row, actual) ==
    IF row = None THEN [expected |-> None, actual |-> actual, status |-> Verdict(actual), source |-> "provider"]
    ELSE [row EXCEPT !.actual = actual,
                     !.status = IF row.expected \notin {None, actual} THEN "UNKNOWN" ELSE Verdict(actual)]
\* ... and flushes the columns that differ from what it read.
Flushed(read, new, stored) ==
    [stored EXCEPT !.actual = IF new.actual = read.actual THEN @ ELSE new.actual,
                   !.status = IF new.status = read.status THEN @ ELSE new.status]

\* The client goes on with the next day, or with its own work once the target is known.
Answered(t, status) ==
    IF status = "UNKNOWN" THEN Abort(t)
    ELSE IF task[t].candidate = task[t].target
    THEN task' = [task EXCEPT ![t] = [pc |-> "done", target |-> task[t].target]]
    ELSE Call(t, task[t].target, task[t].candidate + 1)

RowLocked(d) == IF import = None THEN FALSE ELSE d \in import.locked
Write(t) ==
    LET d == task[t].candidate
        row == task[t].row
        new == Validated(row, task[t].actual)
    IN /\ task[t].pc = "write" /\ ~RowLocked(d)
       /\ \/ /\ row # None
             /\ calendar' = [calendar EXCEPT ![d] = Flushed(row, new, calendar[d])]
             /\ Answered(t, new.status)
          \/ /\ row = None /\ calendar[d] = None
             /\ calendar' = [calendar EXCEPT ![d] = new]
             /\ Answered(t, new.status)
          \/ /\ row = None /\ calendar[d] # None
             /\ Abort(t) /\ UNCHANGED calendar
       /\ UNCHANGED import

Next ==
    \/ ImportCommit \/ ImportFails
    \/ \E m \in Manifests, replace_existing \in BOOLEAN : ImportBegin(m, replace_existing)
    \/ \E t \in Tasks :
          \/ AskFails(t) \/ Read(t) \/ Write(t) \/ Finish(t)
          \/ \E target \in Targets : Start(t, target)
          \/ \E actual \in BOOLEAN : Ask(t, actual)
Spec == Init /\ [][Next]_vars

-----------------------------------------------------------------------------
(* What the state engine reads.                                            *)

Is(d, status) == IF calendar[d] = None THEN FALSE ELSE calendar[d].status = status

\* previous_open_dates, for one target: the last OPEN day before it, when every day
\* between the two is CLOSED.
OpenBefore(target) == {d \in Days : d < target /\ Is(d, "OPEN")}
NearestOpen(target) ==
    IF ~Is(target, "OPEN") \/ OpenBefore(target) = {} THEN None ELSE Max(OpenBefore(target))
PreviousOpen(target) ==
    IF ~Is(target, "OPEN") \/ OpenBefore(target) = {} THEN None
    ELSE LET previous == Max(OpenBefore(target))
         IN IF \A d \in Days : previous < d /\ d < target => Is(d, "CLOSED") THEN previous ELSE None

-----------------------------------------------------------------------------
(* Properties.                                                             *)

\* The sets of open days that the calendar leaves possible: a day without a row, or in
\* conflict, may have been open or closed.
Possible(open) == \A d \in Days : Available(d) => (d \in open <=> Is(d, "OPEN"))

\* The predecessor the state engine gets is proven: a backfill that stopped halfway, an
\* import that left a conflict or days nobody has looked at never let it take the days
\* before the gap for continuous.  Whatever the missing and disputed days turn out to
\* be, the predecessor is the last open day before.  And it is found: when a task went
\* through the validation of an unavailable day, no day of its window is missing, so
\* unless one of them is in conflict the last open day of the window is the predecessor.
BackfillProvesContinuity ==
    /\ \A target \in Days : PreviousOpen(target) # None =>
          \A open \in SUBSET Days : Possible(open) =>
              PreviousOpen(target) = Max({d \in open : d < target})
    /\ \A t \in Tasks : task[t].pc = "done" =>
          LET target == task[t].target
              window == (target - Window)..(target - 1)
              open == {d \in window : Is(d, "OPEN")}
          IN Is(target, "OPEN") /\ open # {} /\ (\A d \in window : ~Is(d, "UNKNOWN"))
               => PreviousOpen(target) = Max(open)

\* The import's docstring: conflicting expected and actual data is UNKNOWN, never a
\* fabricated OPEN or CLOSED.
ConflictsAreUnknown ==
    \A d \in Days : calendar[d] # None =>
        LET row == calendar[d]
        IN row.expected # None /\ row.actual # None /\ row.expected # row.actual => row.status = "UNKNOWN"
=============================================================================
