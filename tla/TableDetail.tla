----------------------------- MODULE TableDetail -----------------------------
(***************************************************************************)
(* What WatchTableService.detail shows of one security: the value cell of  *)
(* each indicator column, the state cell of each STATUS column and the     *)
(* states listed under a column.  The handler reads the columns, share-    *)
(* locks the analysis stream, and then reads the indicator snapshot and    *)
(* the current states in statements of their own, while columns are        *)
(* edited, the Hub stores bars and analysis is published.                  *)
(*                                                                         *)
(* A request is an indicator type with its parameters: for "MA" a set of   *)
(* periods, for every other type the empty set (one variant of each type). *)
(* Periods count bars: a value exists once that many bars are stored.      *)
(***************************************************************************)
EXTENDS Integers, FiniteSets, FiniteSetsExt

CONSTANTS Columns,        \* column requests the user may submit
          Rules,          \* requests of alert rules of any user
          DefaultPeriods, \* DEFAULT_MA_PERIODS
          OtherTypes,     \* indicator types with a single set of parameters
          OtherDepth,     \* bars such an indicator needs
          MaxBars, MaxEdits, MaxPublications,
          None

VARIABLES columns,        \* committed table_columns of the table
          rules,          \* enabled alert rules on the security
          bars,           \* stored bars; every write advances source_revision
          demand_generation,
          published,      \* published_revision, demand generation, publication number
          snapshot,       \* published indicator variants, stamped with the publication
          states,         \* published current states, stamped with the publication
          reader          \* the request being served

vars == <<columns, rules, bars, demand_generation, published, snapshot, states, reader>>

-----------------------------------------------------------------------------
(* Columns and the requests they stand for.                                *)

MA(periods) == [type |-> "MA", periods |-> periods]
Other(t) == [type |-> t, periods |-> {}]

IsStatus(c) == c.view = "STATUS"
\* _is_composite_parameters: a single-period MA column is a scalar.
Composite(c) == IF c.type = "MA" THEN Cardinality(c.periods) > 1 ELSE TRUE

\* _validate_field_selector: a scalar view of a composite MA names one of its periods.
FieldKnown(c) == c.view = "NUMBER" /\ c.type = "MA" /\ Composite(c) => c.field \in c.periods
\* canonicalize_state_parameters: an MA state has a short and a longer period.
PairOfPeriods(c) == c.type = "MA" => Cardinality(c.periods) = 2
\* _validate_column_request.
Valid(c) == IF IsStatus(c) THEN PairOfPeriods(c) ELSE FieldKnown(c)

\* collect_indicator_requests and state_indicator_request: the periods of an MA
\* state are requested as a variant of their own.
RequestOf(c) == [type |-> c.type, periods |-> c.periods]

\* merge_indicator_requests: the defaults of every type, and every distinct request.
MergeDropsSubsets(requests) ==
    LET all == requests \union {MA(DefaultPeriods)} \union {Other(t) : t \in OtherTypes}
    IN {r \in all : ~\E q \in all : q.type = r.type /\ r.periods \subseteq q.periods /\ r # q}
Merge(requests) ==
    requests \union {MA(DefaultPeriods)} \union {Other(t) : t \in OtherTypes}

\* IndicatorService._series_for_request: the periods with a value at the last bar;
\* a variant without any value is not stored.
Values(r, n) == IF r.type = "MA" THEN {p \in r.periods : p <= n}
                ELSE IF OtherDepth <= n THEN {0} ELSE {}
Computed(requests, n, publication) ==
    {[request |-> r, values |-> Values(r, n), publication |-> publication] :
        r \in {r \in requests : Values(r, n) # {}}}

\* _state_variant_pairs: the state instances one stored variant gives rise to.
\* For types other than MA an instance has the variant's own parameters.
Pairs(r) ==
    IF r.type # "MA" THEN {r}
    ELSE IF Cardinality(r.periods) = 2 THEN {r}
    ELSE IF DefaultPeriods \subseteq r.periods THEN {MA(DefaultPeriods)}
    ELSE {}

\* StateService: an instance is UNKNOWN unless its variant holds all its values;
\* otherwise the market decides.  INACTIVE stands for any known instance that is not
\* ACTIVE.
Observed(variants, active, publication) ==
    LET Known(i) == \E v \in variants : i \in Pairs(v.request) /\ i.periods \subseteq v.values
    IN {[instance |-> i, publication |-> publication,
         status |-> IF ~Known(i) THEN "UNKNOWN" ELSE IF i \in active THEN "ACTIVE" ELSE "INACTIVE"] :
            i \in UNION {Pairs(v.request) : v \in variants}}

\* What the API's canonical columns and the code's constants are like: the field of a
\* column over one period is that period, and the default MA is a pair.
Variants ==
    LET requests == Merge({RequestOf(c) : c \in Columns} \union Rules)
    IN {[request |-> r, values |-> Values(r, n), publication |-> p] :
           r \in requests, n \in 0..MaxBars, p \in 0..MaxPublications}
TableAssumption ==
    /\ \A c \in Columns :
          /\ c.view \in {"STATUS", "NUMBER", "COMPOSITE"} /\ IsFiniteSet(c.periods)
          /\ c.type = "MA" => c.periods # {} /\ (~Composite(c) => c.field \in c.periods)
    /\ Rules \subseteq [type : STRING, periods : SUBSET Nat]
    /\ IsFiniteSet(DefaultPeriods) /\ Cardinality(DefaultPeriods) = 2
    /\ MaxBars \in Nat /\ MaxPublications \in Nat /\ None \notin Variants

-----------------------------------------------------------------------------
(* The writers.                                                            *)

Idle == [pc |-> "idle"]

Init ==
    /\ columns = {} /\ rules = {} /\ bars = 0 /\ demand_generation = 0
    /\ published = [revision |-> -1, generation |-> -1, publication |-> 0]
    /\ snapshot = {} /\ states = {}
    /\ reader = Idle

\* lock_analysis_reads holds the stream FOR SHARE until the handler's transaction
\* ends: whoever locks it FOR UPDATE waits.
PlainRead == TRUE
Unlocked == reader.pc \in {"idle", "loaded"}

\* add_column, delete_column, and the create or delete of a rule: the demand of the
\* stream is marked in the same transaction.
MarkDemand ==
    /\ Unlocked
    /\ demand_generation < MaxEdits
    /\ demand_generation' = demand_generation + 1
    /\ UNCHANGED <<bars, published, snapshot, states, reader>>
AddColumn(c) ==
    /\ c \notin columns /\ Valid(c)
    /\ columns' = columns \union {c}
    /\ MarkDemand /\ UNCHANGED rules
DeleteColumn(c) ==
    /\ c \in columns
    /\ columns' = columns \ {c}
    /\ MarkDemand /\ UNCHANGED rules
ToggleRule(r) ==
    /\ rules' = IF r \in rules THEN rules \ {r} ELSE rules \union {r}
    /\ MarkDemand /\ UNCHANGED columns

\* The Hub commits one more bar and advances source_revision under the stream lock.
StoreBar ==
    /\ Unlocked
    /\ bars < MaxBars
    /\ bars' = bars + 1
    /\ UNCHANGED <<columns, rules, demand_generation, published, snapshot, states, reader>>

\* AnalysisService.materialize: the demand is collected, the variants and states are
\* replaced and the revisions advance in one transaction that holds the stream.
Publish ==
    LET number == published.publication + 1
        requests == Merge({RequestOf(c) : c \in columns} \union rules)
    IN
    /\ Unlocked
    /\ bars > 0 /\ number <= MaxPublications
    /\ published' = [revision |-> bars, generation |-> demand_generation, publication |-> number]
    /\ snapshot' = Computed(requests, bars, number)
    /\ \E active \in SUBSET UNION {Pairs(r) : r \in requests} :
          states' = Observed(snapshot', active, number)
    /\ UNCHANGED <<columns, rules, bars, demand_generation, reader>>

\* publication_is_current of a stream the Hub has written.
Current == published.revision = bars /\ published.generation = demand_generation

-----------------------------------------------------------------------------
(* What a cell shows.                                                      *)

\* _project_ma_variant: the requested periods of a wider variant.
Project(v, r) == [v EXCEPT !.request = r, !.values = @ \intersect r.periods]
\* select_snapshot_variant: the exact variant, or the periods of a containing one.
Select(variants, r) ==
    LET exact == {v \in variants : v.request = r}
        bundles == {v \in variants : r.type = "MA" /\ v.request.type = "MA"
                                     /\ r.periods \subseteq v.request.periods}
    IN IF exact # {} THEN CHOOSE v \in exact : TRUE
       ELSE IF bundles # {} THEN Project(CHOOSE v \in bundles : TRUE, r)
       ELSE None

\* canonicalize_parameters refuses the names short_period and long_period, by which
\* an MA state column keeps its parameters.
Unreadable(c) == IsStatus(c) /\ c.type = "MA"

\* The cell of a column: its projection (_indicator_projections, only for
\* column_type INDICATOR), replaced by the state for a STATUS column.
Raises == [kind |-> "raises"]
ValueCell(c, variants) ==
    LET v == Select(variants, RequestOf(c))
        field == IF c.type # "MA" THEN 0 ELSE c.field
    IN IF v = None THEN [kind |-> "unavailable"]
       ELSE IF c.view = "COMPOSITE" THEN [kind |-> "fields", values |-> v.values, publication |-> v.publication]
       ELSE IF field \in v.values THEN [kind |-> "value", values |-> {field}, publication |-> v.publication]
       ELSE [kind |-> "unavailable"]
StateCell(c, current) ==
    LET matched == {s \in current : s.instance = RequestOf(c)}
    IN IF matched # {}
       THEN LET s == CHOOSE s \in matched : TRUE
            IN [kind |-> "state", status |-> s.status, publication |-> s.publication]
       ELSE IF Unreadable(c) THEN Raises ELSE [kind |-> "unavailable"]
Cell(c, variants, current) ==
    IF c.column_type = "INDICATOR" /\ Unreadable(c) THEN Raises
    ELSE IF IsStatus(c) THEN StateCell(c, current)
    ELSE ValueCell(c, variants)

\* _state_matches_column: the active states listed under a column.
MatchesByType(c, s) == s.status = "ACTIVE" /\ s.instance.type = c.type
Matches(c, s) ==
    /\ s.status = "ACTIVE" /\ s.instance.type = c.type
    /\ IF IsStatus(c) \/ c.type # "MA" THEN s.instance = RequestOf(c)
       ELSE \/ Cardinality(c.periods) = 2 /\ s.instance.periods = c.periods
            \/ /\ Cardinality(c.periods) > 2 /\ DefaultPeriods \subseteq c.periods
               /\ s.instance.periods = DefaultPeriods

\* _visible_states: the active states of default parameters or of some column.
Visible(cols, current) ==
    {s \in current : /\ s.status = "ACTIVE"
                     /\ s.instance.type = "MA" => \/ s.instance.periods = DefaultPeriods
                                                  \/ \E c \in cols : Matches(c, s)}

-----------------------------------------------------------------------------
(* WatchTableService.detail, statement by statement.                       *)

Load ==
    /\ reader.pc = "idle"
    /\ reader' = [pc |-> "loaded", columns |-> columns]
    /\ UNCHANGED <<columns, rules, bars, demand_generation, published, snapshot, states>>

\* lock_analysis_reads; kept and ready repeat what the row said, for the properties.
LockReads ==
    /\ reader.pc = "loaded"
    /\ reader' = [pc |-> "locked", columns |-> reader.columns,
                  kept |-> reader.columns \intersect columns,
                  ready |-> Current /\ published.revision >= 0,
                  bars |-> bars, publication |-> published.publication, variants |-> {},
                  states |-> {}]
    /\ UNCHANGED <<columns, rules, bars, demand_generation, published, snapshot, states>>

\* latest_indicators_batch.
ReadIndicators ==
    /\ reader.pc = "locked"
    /\ reader' = [reader EXCEPT !.pc = "indicators", !.variants = snapshot]
    /\ UNCHANGED <<columns, rules, bars, demand_generation, published, snapshot, states>>

\* current_states_batch.
ReadStates ==
    /\ reader.pc = "indicators"
    /\ reader' = [reader EXCEPT !.pc = "states", !.states = states]
    /\ UNCHANGED <<columns, rules, bars, demand_generation, published, snapshot, states>>

\* The row that is built from what was read.
Respond ==
    /\ reader.pc = "states"
    /\ reader' = [pc |-> "response", kept |-> reader.kept, ready |-> reader.ready,
                  bars |-> reader.bars, publication |-> reader.publication,
                  cells |-> [c \in reader.columns |-> Cell(c, reader.variants, reader.states)],
                  column_states |-> [c \in reader.columns |-> {s \in reader.states : Matches(c, s)}],
                  states |-> Visible(reader.columns, reader.states)]
    /\ UNCHANGED <<columns, rules, bars, demand_generation, published, snapshot, states>>

\* The transaction ends: the share lock is released.
Finish ==
    /\ reader.pc = "response"
    /\ reader' = Idle
    /\ UNCHANGED <<columns, rules, bars, demand_generation, published, snapshot, states>>

Next ==
    \/ \E c \in Columns : AddColumn(c) \/ DeleteColumn(c)
    \/ \E r \in Rules : ToggleRule(r)
    \/ StoreBar \/ Publish
    \/ Load \/ LockReads \/ ReadIndicators \/ ReadStates \/ Respond \/ Finish
Spec == Init /\ [][Next]_vars

-----------------------------------------------------------------------------
(* Properties.                                                             *)

Answered == reader.pc = "response"
Deep(c) == IF c.type # "MA" THEN OtherDepth <= reader.bars
           ELSE IF c.view = "NUMBER" THEN c.field <= reader.bars
           ELSE \A p \in c.periods : p <= reader.bars

\* Everything analysis contributes to one row of WatchTableService.detail, value
\* cells, state cells and listed states, comes from the publication whose revision
\* the row reports, though it is read in several statements beside publishers.
CellsAreOnePublication ==
    Answered =>
        /\ \A c \in DOMAIN reader.cells :
              reader.cells[c].kind \in {"value", "fields", "state"} =>
                  reader.cells[c].publication = reader.publication
        /\ \A s \in reader.states : s.publication = reader.publication

\* A row of WatchTableService.detail with analysis_status READY has the cell of every
\* column that was not deleted meanwhile and whose periods the stored bars fill: the
\* request of each column survives merge_indicator_requests, storage and selection.
ReadyRowsAreComplete ==
    Answered /\ reader.ready =>
        \A c \in reader.kept : Deep(c) =>
            LET cell == reader.cells[c] IN
            IF IsStatus(c) THEN cell.kind = "state" \/ (c.column_type = "INDICATOR" /\ Unreadable(c))
            ELSE IF c.view = "NUMBER" THEN cell.kind = "value"
            ELSE cell.kind = "fields" /\ (c.type = "MA" => cell.values = c.periods)

\* _state_matches_column lists under a column exactly the active states that
\* _state_variant_pairs emits for the column's own parameters, never those of another
\* column's periods.
ColumnStatesAreItsOwn ==
    Answered =>
        \A c \in DOMAIN reader.column_states :
            reader.column_states[c] =
                {s \in states : s.status = "ACTIVE" /\ s.instance \in Pairs(RequestOf(c))}

\* docs/api.md documents an MA STATUS column of column_type INDICATOR: a table that
\* holds columns the API accepted can be shown.
EveryAcceptedColumnIsShown ==
    Answered => \A c \in DOMAIN reader.cells : reader.cells[c] # Raises
=============================================================================
